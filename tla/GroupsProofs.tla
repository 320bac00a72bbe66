----------------------------- MODULE GroupsProofs -----------------------------
(***************************************************************************)
(* On consistent reads, writers that all carry X-Fg-If-Revision, and       *)
(* writers that run one at a time, keep the inheritance of every group     *)
(* resolvable, whatever their interleaving.  On any reads the answers are  *)
(* true of the log, and a delete spares a group in use.  The last part is  *)
(* about those who read: copies revalidated by an etag (ConditionalReads). *)
(***************************************************************************)
EXTENDS Groups, ConditionalReads, TLAPS

-----------------------------------------------------------------------------
(* Inheritance, and how a change of one group affects the graph.           *)

\* A role reaches itself, and what it reaches is closed under inheritance.
LEMMA ReachFacts ==
    ASSUME NEW p, NEW n \in Names, \A m \in DOMAIN p : p[m] \subseteq Names
    PROVE  /\ n \in Reach(p, n)
           /\ Reach(p, n) \subseteq Names
           /\ Closed(p, Reach(p, n))
           /\ \A S \in SUBSET Names : (n \in S /\ Closed(p, S)) => Reach(p, n) \subseteq S
  <1>1. n \in Reach(p, n) /\ Reach(p, n) \subseteq Names
    BY Zenon DEF Reach
  <1>2. \A S \in SUBSET Names : (n \in S /\ Closed(p, S)) => Reach(p, n) \subseteq S
    BY Zenon DEF Reach
  <1>3. ASSUME NEW k \in Reach(p, n) \cap DOMAIN p, NEW q \in p[k]
        PROVE  q \in Reach(p, n)
    BY <1>3, Zenon DEF Reach, Closed
  <1> QED BY <1>1, <1>2, <1>3, Zenon DEF Closed

\* The declared names are closed and no set of them is cyclic.
Flat(p) ==
    /\ \A n \in DOMAIN p : p[n] \subseteq DOMAIN p
    /\ \A T \in SUBSET DOMAIN p : ~Cyclic(p, T)

\* Every role resolves exactly when the whole graph is closed and acyclic.
LEMMA AllResolveIsFlat ==
    ASSUME NEW p, DOMAIN p \subseteq Names, \A m \in DOMAIN p : p[m] \subseteq Names
    PROVE  AllResolve(p) <=> Flat(p)
  <1>1. ASSUME AllResolve(p) PROVE Flat(p)
    <2>1. ASSUME NEW n \in DOMAIN p PROVE p[n] \subseteq DOMAIN p
      <3>1. n \in Reach(p, n) /\ Closed(p, Reach(p, n))
        BY ReachFacts, Zenon
      <3>2. Reach(p, n) \subseteq DOMAIN p
        BY <1>1, Zenon DEF AllResolve, Resolves
      <3> QED BY <3>1, <3>2, Zenon DEF Closed
    <2>2. ASSUME NEW T \in SUBSET DOMAIN p, Cyclic(p, T) PROVE FALSE
      <3>1. PICK n \in T : TRUE
        BY <2>2, Zenon DEF Cyclic
      <3> DEFINE R == Reach(p, n)
      <3>2. n \in R /\ Closed(p, R) /\ n \in DOMAIN p
        BY ReachFacts, Zenon
      <3>3. Cyclic(p, T \cap R)
        BY <2>2, <3>1, <3>2, Zenon DEF Cyclic, Closed
      <3>4. T \cap R \in SUBSET R
        BY Zenon
      <3> HIDE DEF R
      <3> QED BY <1>1, <3>2, <3>3, <3>4, Zenon DEF AllResolve, Resolves, R
    <2> QED BY <2>1, <2>2, Zenon DEF Flat
  <1>2. ASSUME Flat(p) PROVE AllResolve(p)
    <2> SUFFICES ASSUME NEW n \in DOMAIN p PROVE Resolves(p, n)
      BY Zenon DEF AllResolve
    <2>1. Reach(p, n) \subseteq DOMAIN p
      <3>1. Closed(p, DOMAIN p)
        BY <1>2, Zenon DEF Flat, Closed
      <3> QED BY <3>1, ReachFacts, Zenon
    <2> QED BY <1>2, <2>1, Zenon DEF Flat, Resolves
  <1> QED BY <1>1, <1>2, Zenon

\* Replacing or adding one role that resolves afterwards keeps the graph sound.
LEMMA PutKeepsFlat ==
    ASSUME NEW p, NEW q, NEW x \in Names,
           DOMAIN p \subseteq Names,
           DOMAIN q = DOMAIN p \cup {x},
           \A m \in DOMAIN q : q[m] \subseteq Names,
           \A m \in DOMAIN p \ {x} : q[m] = p[m],
           Flat(p), Resolves(q, x)
    PROVE  Flat(q)
  <1> DEFINE R == Reach(q, x)
  <1>1. x \in R /\ Closed(q, R) /\ R \subseteq DOMAIN q
    BY ReachFacts, Zenon DEF Resolves
  <1>2. \A S \in SUBSET R : ~Cyclic(q, S)
    BY Zenon DEF Resolves
  <1> HIDE DEF R
  <1>3. ASSUME NEW n \in DOMAIN q PROVE q[n] \subseteq DOMAIN q
    <2>1. CASE n = x
      BY <2>1, <1>1, Zenon DEF Closed
    <2>2. CASE n # x
      BY <2>2, Zenon DEF Flat
    <2> QED BY <2>1, <2>2, Zenon
  <1>4. ASSUME NEW T \in SUBSET DOMAIN q, Cyclic(q, T) PROVE FALSE
    <2>1. CASE x \in T
      <3>1. Cyclic(q, T \cap R)
        BY <1>1, <1>4, <2>1 DEF Cyclic, Closed
      <3> QED BY <3>1, <1>2, Zenon
    <2>2. CASE x \notin T
      <3>1. Cyclic(p, T) /\ T \in SUBSET DOMAIN p
        BY <1>4, <2>2, Zenon DEF Cyclic
      <3> QED BY <3>1, Zenon DEF Flat
    <2> QED BY <2>1, <2>2, Zenon
  <1> QED BY <1>3, <1>4, Zenon DEF Flat

\* Removing a role that nothing inherits from keeps the graph sound.
LEMMA DeleteKeepsFlat ==
    ASSUME NEW p, NEW q, NEW x \in Names,
           DOMAIN q = DOMAIN p \ {x},
           \A m \in DOMAIN q : q[m] = p[m],
           \A m \in DOMAIN p : x \notin p[m],
           Flat(p)
    PROVE  Flat(q)
  <1>1. ASSUME NEW n \in DOMAIN q PROVE q[n] \subseteq DOMAIN q
    BY Zenon DEF Flat
  <1>2. ASSUME NEW T \in SUBSET DOMAIN q, Cyclic(q, T) PROVE FALSE
    <2>1. Cyclic(p, T) /\ T \in SUBSET DOMAIN p
      BY <1>2, Zenon DEF Cyclic
    <2> QED BY <2>1, Zenon DEF Flat
  <1> QED BY <1>1, <1>2, Zenon DEF Flat

-----------------------------------------------------------------------------
(* Types.                                                                  *)

\* A request that has begun has a call.
Begun == \A r \in Requests : phase[r] # "idle" => op[r] \in Calls

TypeInv == TypeOK /\ Begun

\* What an append writes is an entry or nothing.
LEMMA WrittenType ==
    ASSUME TypeInv, NEW r \in Requests, phase[r] # "idle"
    PROVE  /\ op[r] \in Calls
           /\ op[r].name \in Names
           /\ Written(r) \in Entries \cup {None}
           /\ Event(r) \in Events
  <1>1. op[r] \in Calls
    BY Zenon DEF TypeInv, Begun
  <1>2. op[r].name \in Names
    BY <1>1, ConstantsAssumption, Zenon
  <1>3. Written(r) \in Entries \cup {None}
    BY <1>1, Zenon DEF Written, Entries
  <1> QED BY <1>1, <1>2, <1>3, Zenon DEF Event, Events

\* The history variable stays a set of users.
LEMMA TrackUseType ==
    ASSUME TypeOK, TrackUse
    PROVE  usersSince' \in [Requests -> SUBSET (Names \cup {None})]
  <1>1. ASSUME NEW n PROVE UsersEverywhere(n)' \subseteq Names \cup {None}
    BY Zenon DEF UsersEverywhere, Inheritors, DeclaredIn
  <1> QED BY <1>1, Zenon DEF TrackUse, TypeOK

\* The two ways a handler goes on.
LEMMA GotoType ==
    ASSUME TypeInv, NEW r \in Requests, NEW q \in Phases, Goto(r, q), phase[r] # "idle",
           UNCHANGED op
    PROVE  phase' \in [Requests -> Phases] /\ Begun'
  BY Zenon DEF TypeInv, TypeOK, Goto, Begun

LEMMA ReturnType ==
    ASSUME TypeInv, NEW r \in Requests, NEW tag \in Tags, NEW n \in Nat, Return(r, tag, n),
           phase[r] # "idle", UNCHANGED op
    PROVE  phase' \in [Requests -> Phases] /\ answer' \in [Requests -> Answers] /\ Begun'
  <1>1. Goto(r, "returned") /\ "returned" \in Phases
    BY Zenon DEF Return, Phases
  <1>2. [tag |-> tag, revision |-> n] \in Answers
    BY Zenon DEF Answers
  <1>3. answer' \in [Requests -> Answers]
    BY <1>2, Zenon DEF Return, TypeInv, TypeOK
  <1> QED BY <1>1, <1>3, GotoType, Zenon

LEMMA TypeInit == Init => TypeInv
  <1> SUFFICES ASSUME Init PROVE TypeInv
    BY Zenon
  <1>1. NoGroups \in Items
    BY Zenon DEF NoGroups, Items
  <1>2. [org |-> FALSE, groups |-> NoGroups, members |-> {}] \in Views
    BY <1>1, Zenon DEF Views
  <1>3. [tag |-> "pending", revision |-> 0] \in Answers
    BY Zenon DEF Answers, Tags
  <1> QED BY <1>1, <1>2, <1>3 DEF Init, TypeInv, TypeOK, Begun, Phases

LEMMA TypeStep == TypeInv /\ [Next]_vars => TypeInv'
  <1> SUFFICES ASSUME TypeInv, [Next]_vars PROVE TypeInv'
    BY Zenon
  <1> USE DEF TypeInv
  <1> DEFINE Rest == /\ log' \in Seq(Events)
                     /\ groups' \in Items
                     /\ members' \in SUBSET Names
                     /\ replica' \in Views
                     /\ op' \in [Requests -> Calls \cup {None}]
                     /\ phase' \in [Requests -> Phases]
                     /\ unchecked' \in [Requests -> SUBSET PreChecks]
                     /\ blocked' \in [Requests -> BOOLEAN]
                     /\ expected' \in [Requests -> Nat \cup {None}]
                     /\ answer' \in [Requests -> Answers]
                     /\ Begun'
  <1>m. mode \in DOMAIN Modes /\ Modes[mode].calls \subseteq Calls
        /\ Modes[mode].joinable \subseteq Names
    BY ConstantsAssumption, Zenon DEF TypeOK
  <1>1. ASSUME NEW r \in Requests, Call(r) PROVE Rest
    <2>1. \A c \in Calls : Demands(c) \subseteq Nat \cup {None}
      BY DEF Demands, TypeOK
    <2> QED BY <1>1, <1>m, <2>1 DEF Call, Goto, store, TypeOK, Begun, Phases, Reading
  <1>a. Len(log) \in Nat /\ Len(log) + 1 \in Nat /\ 0 \in Nat
    BY DEF TypeOK
  <1>b. /\ \A t \in {"applied", "noop", "notFound", "conflict", "invalid", "mismatch", "error"} :
             t \in Tags
        /\ \A q \in {"list", "group", "precheck", "item", "current", "append"} : q \in Phases
    BY Zenon DEF Tags, Phases, Reading
  <1>2. ASSUME NEW r \in Requests, RequireOrg(r) PROVE Rest
    BY <1>2, <1>a, <1>b, GotoType, ReturnType, Zenon DEF RequireOrg, store, locals, TypeOK
  <1>3. ASSUME NEW r \in Requests, GetGroup(r) PROVE Rest
    <2>1. /\ UNCHANGED <<store, op, blocked, expected>> /\ phase[r] # "idle"
          /\ unchecked' \in [Requests -> SUBSET PreChecks]
      BY <1>3 DEF GetGroup, TypeOK
    <2>2. \/ \E q \in {"list", "precheck", "current"} : Goto(r, q) /\ UNCHANGED answer
          \/ Return(r, "notFound", 0)
      BY <1>3, Zenon DEF GetGroup
    <2>3. phase' \in [Requests -> Phases] /\ answer' \in [Requests -> Answers] /\ Begun'
      BY <1>a, <1>b, <2>1, <2>2, GotoType, ReturnType, Zenon DEF TypeOK
    <2> QED BY <2>1, <2>3, Zenon DEF store, TypeOK
  <1>4. ASSUME NEW r \in Requests, List(r) PROVE Rest
    BY <1>4, <1>a, <1>b, GotoType, ReturnType, Zenon DEF List, store, locals, TypeOK
  <1>5. ASSUME NEW r \in Requests, NEW check, NEW found, CheckDone(r, check, found)
        PROVE  Rest
    <2>1. /\ UNCHANGED <<store, op, expected>>
          /\ unchecked' \in [Requests -> SUBSET PreChecks]
          /\ blocked' \in [Requests -> BOOLEAN]
      BY <1>5, Zenon DEF CheckDone, TypeOK
    <2>2. phase' \in [Requests -> Phases] /\ answer' \in [Requests -> Answers] /\ Begun'
      BY <1>5, <1>a, <1>b, GotoType, ReturnType, Zenon DEF CheckDone, TypeOK, Begun
    <2> QED BY <2>1, <2>2, Zenon DEF store, TypeOK
  <1>6. ASSUME NEW r \in Requests, CheckMemberships(r) \/ CheckInheritors(r) PROVE Rest
    <2> HIDE DEF Rest
    <2>1. PICK check, found : CheckDone(r, check, found)
      BY <1>6, Zenon DEF CheckMemberships, CheckInheritors
    <2> QED BY <1>5, <2>1, Zenon
  <1>7. ASSUME NEW r \in Requests, ReadItem(r) PROVE Rest
    BY <1>7, <1>b, GotoType, Zenon DEF ReadItem, store, locals, TypeOK
  <1>8. ASSUME NEW r \in Requests, ReadCurrent(r) PROVE Rest
    BY <1>8, <1>a, <1>b, ReturnType, Zenon DEF ReadCurrent, store, locals, TypeOK
  <1>9. ASSUME NEW r \in Requests, Append_(r), phase[r] # "idle"
        PROVE  /\ log' \in Seq(Events)
               /\ groups' \in Items
    BY <1>9, WrittenType DEF Append_, TypeOK, Items
  <1>10. ASSUME NEW r \in Requests, AppendCommits(r) PROVE Rest
    <2>1. /\ UNCHANGED <<members, replica, op, locals>>
          /\ Return(r, "applied", Len(log) + 1)
          /\ phase[r] # "idle"
          /\ Append_(r)
      BY <1>10, Zenon DEF AppendCommits, Append_
    <2>2. phase' \in [Requests -> Phases] /\ answer' \in [Requests -> Answers] /\ Begun'
      BY <2>1, <1>a, <1>b, ReturnType, Zenon
    <2> QED BY <1>9, <2>1, <2>2, Zenon DEF locals, TypeOK
  <1>11. ASSUME NEW r \in Requests, AppendMismatch(r) PROVE Rest
    BY <1>11, <1>a, <1>b, ReturnType, Zenon DEF AppendMismatch, store, locals, TypeOK
  <1>12. ASSUME NEW r \in Requests, AppendGone(r) PROVE Rest
    BY <1>12, <1>b, GotoType, Zenon DEF AppendGone, store, locals, TypeOK
  <1>13. ASSUME NEW r \in Requests, ReadFails(r) PROVE Rest
    BY <1>13, <1>a, <1>b, ReturnType, Zenon DEF ReadFails, Reading, store, locals, TypeOK
  <1>14. ASSUME NEW r \in Requests, GiveUp(r) PROVE Rest
    <2>1. Goto(r, "abandoned") /\ "abandoned" \in Phases /\ UNCHANGED op /\ phase[r] # "idle"
      BY <1>14, Zenon DEF GiveUp, Phases
    <2>2. [tag |-> "error", revision |-> 0] \in Answers
      BY <1>a, <1>b, Zenon DEF Answers
    <2> QED BY <1>14, <1>a, <2>1, <2>2, GotoType, Zenon DEF GiveUp, store, TypeOK
  <1>15. ASSUME NEW r \in Requests, LateCommit(r) PROVE Rest
    <2>1. /\ UNCHANGED <<members, replica, op, locals, answer>>
          /\ Goto(r, "returned")
          /\ "returned" \in Phases
          /\ phase[r] # "idle"
          /\ Append_(r)
      BY <1>15, Zenon DEF LateCommit, Append_, Phases
    <2> QED BY <1>9, <2>1, GotoType, Zenon DEF locals, TypeOK
  <1>16. ASSUME NEW n \in Modes[mode].joinable, MembershipWritten(n) PROVE Rest
    BY <1>16, <1>m, Zenon DEF MembershipWritten, locals, TypeOK, Begun
  <1>17. ASSUME OtherWriter PROVE Rest
    <2>1. [kind |-> "Other", by |-> None, name |-> None, entry |-> None] \in Events
      BY Zenon DEF Events
    <2> QED BY <1>17, <2>1 DEF OtherWriter, locals, TypeOK, Begun
  <1>18. ASSUME Replicate PROVE Rest
    <2>1. Current \in Views
      BY Zenon DEF Current, Views, OrgExists, TypeOK
    <2> QED BY <1>18, <2>1, Zenon DEF Replicate, locals, TypeOK, Begun
  <1>19. CASE Next
    <2>1. Rest
      <3> HIDE DEF Rest
      <3> QED BY <1>1, <1>2, <1>3, <1>4, <1>6, <1>7, <1>8, <1>10, <1>11, <1>12, <1>13, <1>14,
                 <1>15, <1>16, <1>17, <1>18, <1>19, Zenon DEF Next, Step
    <2>2. usersSince' \in [Requests -> SUBSET (Names \cup {None})]
      BY <1>19, TrackUseType, Zenon DEF Next
    <2>3. mode' \in DOMAIN Modes
      BY <1>19, <1>m, Zenon DEF Next
    <2> QED BY <2>1, <2>2, <2>3, Zenon DEF TypeOK
  <1>20. CASE UNCHANGED vars
    BY <1>20, Zenon DEF vars, store, locals, TypeOK, Begun
  <1> QED BY <1>19, <1>20, Zenon

\* Every variable keeps its type.
THEOREM TypeCorrect == Spec => []TypeOK
  <1>1. TypeInv => TypeOK
    BY Zenon DEF TypeInv
  <1> QED BY <1>1, TypeInit, TypeStep, PTL DEF Spec
-----------------------------------------------------------------------------
(* Careful writes.                                                         *)

Serial == ~Modes[mode].overlap
Running(r) == phase[r] \notin {"idle", "returned"}

\* Serial writers run one at a time.
Alone == Serial => \A q, r \in Requests : Running(q) /\ Running(r) => q = r

\* The others demand a revision that the log had when they began.
Demanding ==
    ~Serial => \A r \in Requests :
                  phase[r] # "idle" => expected[r] \in Nat /\ expected[r] <= Len(log)

\* Which handlers are at which await.
Placed ==
    \A r \in Requests :
        /\ phase[r] = "list" => op[r].call # "delete"
        /\ phase[r] = "precheck" => op[r].call = "delete"

Unused(r) == Inheritors(groups, op[r].name) = {}

\* What the request found out about the groups is still so.
Current_(r) ==
    /\ phase[r] \in {"item", "append", "abandoned"} =>
          IF op[r].call = "delete" THEN Unused(r) ELSE Validates(groups, op[r])
    /\ (phase[r] = "precheck" /\ "inheritors" \notin unchecked[r] /\ ~blocked[r]) => Unused(r)

\* A request that alone runs, or that demands the revision the log is at.
Guarded(r) == Serial \/ expected[r] = Len(log)

Informed == \A r \in Requests : Guarded(r) => Current_(r)

SoundInv == TypeInv /\ Alone /\ Demanding /\ Placed /\ Informed /\ Flat(ParentsIn(groups))

\* The inheritance stored in the items is a graph over Names.
LEMMA ParentsType ==
    ASSUME NEW gs \in Items
    PROVE  /\ DOMAIN ParentsIn(gs) = DeclaredIn(gs)
           /\ DeclaredIn(gs) \subseteq Names
           /\ \A n \in DeclaredIn(gs) :
                 ParentsIn(gs)[n] = gs[n].inherits /\ gs[n].inherits \subseteq Names
  BY ConstantsAssumption, Zenon DEF ParentsIn, DeclaredIn, Items

\* An append of an informed request keeps the groups sound.
LEMMA AppendKeepsSound ==
    ASSUME TypeInv, Flat(ParentsIn(groups)), NEW r \in Requests,
           phase[r] \in {"append", "abandoned"}, Current_(r), Append_(r)
    PROVE  Flat(ParentsIn(groups'))
  <1> DEFINE x == op[r].name
             p == ParentsIn(groups)
             q == ParentsIn(groups')
  <1>1. x \in Names /\ op[r] \in Calls /\ groups \in Items
    BY WrittenType, Zenon DEF TypeInv, TypeOK
  <1>2. groups' = [groups EXCEPT ![x] = Written(r)] /\ groups' \in Items
    BY <1>1, WrittenType, Zenon DEF Append_, Items
  <1>3. /\ DOMAIN p = DeclaredIn(groups) /\ DOMAIN q = DeclaredIn(groups')
        /\ DOMAIN p \subseteq Names
        /\ \A n \in DOMAIN p : p[n] = groups[n].inherits
        /\ \A n \in DOMAIN q : q[n] = groups'[n].inherits /\ q[n] \subseteq Names
    BY <1>1, <1>2, ParentsType, Zenon
  <1>4. CASE op[r].call = "delete"
    <2>1. Written(r) = None /\ Inheritors(groups, x) = {}
      BY <1>4, Zenon DEF Written, Current_, Unused
    <2>2. DOMAIN q = DOMAIN p \ {x} /\ \A n \in DOMAIN q : q[n] = p[n]
      BY <1>1, <1>2, <1>3, <2>1, ZenonT(30) DEF DeclaredIn, Items
    <2>3. \A n \in DOMAIN p : x \notin p[n]
      <3> HIDE DEF p, q, x
      <3> QED BY <1>3, <2>1, Zenon DEF Inheritors
    <2> HIDE DEF x, p, q
    <2>4. Flat(p)
      BY Zenon DEF p
    <2> QED BY <1>1, <2>2, <2>3, <2>4, DeleteKeepsFlat, Zenon DEF q
  <1>5. CASE op[r].call # "delete"
    <2>1. Written(r) = op[r].entry /\ op[r].entry \in Entries /\ op[r].entry # None
      BY <1>1, <1>5, ConstantsAssumption, Zenon DEF Written, Entries
    <2>2. DOMAIN q = DOMAIN p \cup {x} /\ \A n \in DOMAIN p \ {x} : q[n] = p[n]
      <3>1. groups'[x] # None /\ \A n \in Names \ {x} : groups'[n] = groups[n]
        BY <1>1, <1>2, <2>1, Zenon DEF Items
      <3>2. DeclaredIn(groups') = DeclaredIn(groups) \cup {x}
        BY <1>1, <3>1, Zenon DEF DeclaredIn
      <3> HIDE DEF p, q, x
      <3> QED BY <1>3, <3>1, <3>2
    <2>3. groups' = AllAfter(groups, op[r])
      BY <1>2, <2>1, Zenon DEF AllAfter
    <2>4. Resolves(q, x)
      BY <1>5, <2>3, Zenon DEF Current_, Validates
    <2> HIDE DEF x, p, q
    <2>5. Flat(p)
      BY Zenon DEF p
    <2> QED BY <1>1, <1>3, <2>2, <2>4, <2>5, PutKeepsFlat, Zenon DEF q
  <1> QED BY <1>4, <1>5, Zenon

\* A step of request r leaves what the invariant says of the others alone.
Others(r) ==
    \A q \in Requests \ {r} :
        /\ phase'[q] = phase[q] /\ op'[q] = op[q] /\ expected'[q] = expected[q]
        /\ unchecked'[q] = unchecked[q] /\ blocked'[q] = blocked[q]

\* A step of r that changes neither log nor groups has to keep only what the
\* invariant says of r.
LEMMA QuietStep ==
    ASSUME SoundInv, TypeInv', NEW r \in Requests, UNCHANGED <<mode, log, groups>>, Others(r),
           Running(r) \/ ~Serial \/ \A q \in Requests : ~Running(q),
           ~Serial => expected'[r] \in Nat /\ expected'[r] <= Len(log),
           phase'[r] = "list" => op'[r].call # "delete",
           phase'[r] = "precheck" => op'[r].call = "delete",
           Guarded(r)' => Current_(r)'
    PROVE  SoundInv'
  <1>1. Demanding' /\ Placed'
    BY DEF SoundInv, Demanding, Placed, Others, Serial
  <1>2. Informed'
    <2> SUFFICES ASSUME NEW q \in Requests, Guarded(q)' PROVE Current_(q)'
      BY Zenon DEF Informed
    <2>1. CASE q = r
      BY <2>1, Zenon
    <2>2. CASE q # r
      <3>1. Current_(q)
        BY <2>2, Zenon DEF SoundInv, Informed, Others, Guarded, Serial
      <3> QED BY <2>2, <3>1, Zenon DEF Current_, Unused, Others
    <2> QED BY <2>1, <2>2, Zenon
  <1>3. Alone'
    <2> SUFFICES ASSUME Serial, NEW p \in Requests, NEW q \in Requests, Running(p)', Running(q)'
                 PROVE  p = q
      BY Zenon DEF Alone, Serial
    <2>1. \A x \in Requests \ {r} : Running(x)' => Running(x)
      BY Zenon DEF Running, Others
    <2>2. \A x \in Requests \ {r} : ~Running(x)'
      BY <2>1, Zenon DEF SoundInv, Alone
    <2> QED BY <2>2, Zenon
  <1> QED BY <1>1, <1>2, <1>3, Zenon DEF SoundInv

\* After an append by r nobody else runs, or no running request is at the
\* demanded revision any more.
LEMMA AppendStep ==
    ASSUME SoundInv, TypeInv', Flat(ParentsIn(groups')), Len(log') = Len(log) + 1,
           UNCHANGED <<mode, op, expected>>, NEW r \in Requests, Running(r),
           phase' = [phase EXCEPT ![r] = "returned"]
    PROVE  SoundInv'
  <1>1. Len(log) \in Nat /\ phase \in [Requests -> Phases]
    BY DEF SoundInv, TypeInv, TypeOK
  <1>2. \A q \in Requests : phase'[q] = phase[q] \/ (phase'[q] = "returned" /\ phase[q] # "idle")
    BY <1>1, Zenon DEF Running
  <1>3. Demanding' /\ Placed'
    BY <1>1, <1>2 DEF SoundInv, Demanding, Placed, Serial
  <1>4. Alone'
    BY <1>1, Zenon DEF SoundInv, Alone, Serial, Running
  <1>5. Informed'
    <2> SUFFICES ASSUME NEW q \in Requests, Guarded(q)' PROVE Current_(q)'
      BY Zenon DEF Informed
    <2>1. phase'[q] \in {"idle", "returned"}
      <3>1. CASE Serial
        BY <1>1, <3>1, Zenon DEF SoundInv, Alone, Running
      <3>2. CASE ~Serial
        BY <1>1, <1>2, <3>2 DEF SoundInv, Demanding, Guarded, Serial
      <3> QED BY <3>1, <3>2, Zenon
    <2> QED BY <2>1, Zenon DEF Current_
  <1> QED BY <1>3, <1>4, <1>5, Zenon DEF SoundInv

\* An event of another writer leaves the groups as a serial writer found them.
LEMMA OtherStep ==
    ASSUME SoundInv, TypeInv', Len(log') = Len(log) + 1,
           UNCHANGED <<mode, groups, op, phase, locals>>
    PROVE  SoundInv'
  <1>1. Len(log) \in Nat
    BY DEF SoundInv, TypeInv, TypeOK
  <1>2. Demanding' /\ Placed' /\ Alone'
    BY <1>1 DEF SoundInv, Demanding, Placed, Alone, Running, Serial, locals
  <1>3. Informed'
    <2> SUFFICES ASSUME NEW q \in Requests, Guarded(q)' PROVE Current_(q)'
      BY Zenon DEF Informed
    <2>1. CASE Serial
      <3>1. Current_(q)
        BY <2>1, Zenon DEF SoundInv, Informed, Guarded
      <3> QED BY <3>1, Zenon DEF Current_, Unused, locals
    <2>2. CASE ~Serial
      <3>1. phase'[q] = "idle"
        BY <1>1, <2>2, SMTT(20) DEF SoundInv, Demanding, Guarded, Serial, locals
      <3> QED BY <3>1, Zenon DEF Current_
    <2> QED BY <2>1, <2>2, Zenon
  <1> QED BY <1>2, <1>3, Zenon DEF SoundInv

LEMMA SoundStep ==
    ASSUME Careful, SoundInv, [Next]_vars
    PROVE  SoundInv'
  <1>t. TypeInv /\ TypeInv' /\ Len(log) \in Nat
    BY TypeStep DEF SoundInv, TypeInv, TypeOK
  <1> USE <1>t
  <1>m. UNCHANGED mode /\ (Serial' <=> Serial)
    BY Zenon DEF Next, vars, Serial
  <1>l. ~Lag /\ (~Serial => \A c \in Modes[mode].calls : c.conditional)
    BY Zenon DEF Careful, Serial
  <1> USE <1>m
  <1>d. ASSUME NEW r \in Requests, phase[r] # "idle"
        PROVE  /\ ~Serial => expected[r] \in Nat /\ expected[r] <= Len(log)
               /\ op[r] \in Calls
    BY <1>d, Zenon DEF SoundInv, Demanding, TypeInv, Begun
  <1>i. ASSUME NEW r \in Requests, Guarded(r) PROVE Current_(r)
    BY <1>i, Zenon DEF SoundInv, Informed
  <1>r. ASSUME NEW r \in Requests, Running(r)
        PROVE  ~Serial => expected[r] \in Nat /\ expected[r] <= Len(log)
    BY <1>d, <1>r, Zenon DEF Running
  <1>f. TypeOK
    BY Zenon DEF TypeInv
  <1>1. ASSUME NEW r \in Requests, Call(r) PROVE SoundInv'
    <2>1. UNCHANGED <<log, groups>> /\ Others(r) /\ phase'[r] = "org"
      BY <1>1, <1>f, Zenon DEF Call, Goto, store, Others, Running, TypeOK
    <2>2. ~Serial => expected'[r] \in Nat /\ expected'[r] <= Len(log)
      BY <1>1, <1>f, <1>l DEF Call, Demands, TypeOK
    <2>3. Serial => \A q \in Requests : ~Running(q)
      BY <1>1, Zenon DEF Call, InFlight, Running, Serial
    <2> QED BY <2>1, <2>2, <2>3, QuietStep, Zenon DEF Current_
  <1>2. ASSUME NEW r \in Requests, RequireOrg(r) PROVE SoundInv'
    <2>1. /\ UNCHANGED <<log, groups, op, expected>> /\ Others(r) /\ Running(r)
          /\ phase'[r] \in {"list", "group", "returned"}
          /\ phase'[r] = "list" => op[r].call # "delete"
      BY <1>2, <1>f, Zenon DEF RequireOrg, Goto, Return, store, locals, Others, Running, TypeOK
    <2> QED BY <1>r, <2>1, QuietStep, Zenon DEF Current_
  <1>3. ASSUME NEW r \in Requests, GetGroup(r) PROVE SoundInv'
    <2>1. /\ UNCHANGED <<log, groups, op, expected>> /\ Others(r) /\ Running(r)
          /\ phase'[r] \in {"list", "precheck", "current", "returned"}
          /\ phase'[r] = "list" => op[r].call # "delete"
          /\ phase'[r] = "precheck" => op[r].call = "delete" /\ unchecked'[r] = PreChecks
      BY <1>3, <1>f DEF GetGroup, Goto, Return, store, Others, Running, TypeOK
    <2> QED BY <1>r, <2>1, QuietStep, Zenon DEF Current_, PreChecks
  <1>4. ASSUME NEW r \in Requests, List(r) PROVE SoundInv'
    <2>1. /\ UNCHANGED <<log, groups, op, expected>> /\ Others(r) /\ phase[r] = "list" /\ Running(r)
          /\ phase'[r] \in {"item", "returned"}
          /\ phase'[r] = "item" => Validates(groups, op[r])
      BY <1>4, <1>f, <1>l, Zenon DEF List, ServedGroups, Goto, Return, store, locals, Others, Running, TypeOK
    <2>2. op[r].call # "delete"
      BY <2>1, SMTT(20) DEF SoundInv, Placed
    <2>a. phase'[r] = "item" => Validates(groups, op[r])'
      BY <2>1, SMTT(30) DEF Validates, ParentsIn, DeclaredIn, AllAfter
    <2>3. Current_(r)'
      BY <2>1, <2>2, <2>a, Zenon DEF Current_
    <2> QED BY <1>r, <2>1, <2>3, QuietStep, Zenon
  <1>5. ASSUME NEW r \in Requests, CheckMemberships(r) PROVE SoundInv'
    <2>1. PICK found : CheckDone(r, "memberships", found)
      BY <1>5, Zenon DEF CheckMemberships
    <2>2. /\ UNCHANGED <<log, groups, op, expected>> /\ Others(r) /\ phase[r] = "precheck" /\ Running(r)
          /\ phase'[r] \in {"precheck", "item", "returned"}
          /\ "inheritors" \in unchecked'[r] <=> "inheritors" \in unchecked[r]
          /\ ~blocked'[r] => ~blocked[r]
          /\ phase'[r] = "item" => "inheritors" \notin unchecked[r] /\ ~blocked[r]
      BY <2>1, <1>f, SMTT(20) DEF CheckDone, Goto, Return, store, Others, Running, TypeOK
    <2>3. op[r].call = "delete"
      BY <2>2, SMTT(20) DEF SoundInv, Placed
    <2>4. Guarded(r)' => Current_(r)'
      BY <1>i, <2>2, <2>3, Zenon DEF Current_, Unused, Guarded
    <2> QED BY <1>r, <2>2, <2>3, <2>4, QuietStep, Zenon
  <1>6. ASSUME NEW r \in Requests, CheckInheritors(r) PROVE SoundInv'
    <2>1. PICK found : /\ CheckDone(r, "inheritors", found)
                       /\ found <=> ~Unused(r)
      BY <1>6, <1>l, Zenon DEF CheckInheritors, ServedGroups, Unused
    <2>2. /\ UNCHANGED <<log, groups, op, expected>> /\ Others(r) /\ phase[r] = "precheck" /\ Running(r)
          /\ phase'[r] \in {"precheck", "item", "returned"}
          /\ ~blocked'[r] => ~found
          /\ phase'[r] = "item" => ~found
      BY <2>1, <1>f, ZenonT(30) DEF CheckDone, Goto, Return, store, Others, Running, TypeOK
    <2>3. op[r].call = "delete"
      BY <2>2, Zenon DEF SoundInv, Placed
    <2>4. Current_(r)'
      BY <2>1, <2>2, <2>3, Zenon DEF Current_, Unused
    <2> QED BY <1>r, <2>2, <2>3, <2>4, QuietStep, Zenon
  <1>7. ASSUME NEW r \in Requests, ReadItem(r) PROVE SoundInv'
    <2>1. /\ UNCHANGED <<log, groups, op, expected>> /\ Others(r) /\ phase[r] = "item" /\ Running(r)
          /\ phase'[r] \in {"current", "append"}
      BY <1>7, <1>f, Zenon DEF ReadItem, Goto, store, locals, Others, Running, TypeOK
    <2>2. Guarded(r)' => Current_(r)'
      BY <1>i, <2>1, Zenon DEF Current_, Unused, Guarded
    <2> QED BY <1>r, <2>1, <2>2, QuietStep, Zenon
  <1>8. ASSUME NEW r \in Requests,
               ReadCurrent(r) \/ AppendMismatch(r) \/ AppendGone(r) \/ ReadFails(r)
        PROVE  SoundInv'
    <2>1. /\ UNCHANGED <<log, groups, op, expected>> /\ Others(r) /\ Running(r)
          /\ phase'[r] \in {"current", "returned"}
      BY <1>8, <1>f, SMTT(20) DEF ReadCurrent, AppendMismatch, AppendGone, ReadFails, Reading, Goto, Return,
                        store, locals, Others, Running, TypeOK
    <2> QED BY <1>r, <2>1, QuietStep, SMTT(20) DEF Current_
  <1>9. ASSUME NEW r \in Requests, GiveUp(r) PROVE SoundInv'
    <2>1. /\ UNCHANGED <<log, groups, op>> /\ Others(r) /\ phase[r] = "append" /\ Running(r)
          /\ phase'[r] = "abandoned" /\ expected'[r] = Len(log) /\ ExpectedHolds(r)
      BY <1>9, <1>f, SMTT(20) DEF GiveUp, Goto, store, Others, Running, TypeOK
    <2>2. Guarded(r)
      BY <1>d, <2>1, ConstantsAssumption, Zenon DEF ExpectedHolds, Guarded
    <2>3. Current_(r)'
      BY <1>i, <2>1, <2>2, Zenon DEF Current_, Unused
    <2> QED BY <1>r, <2>1, <2>3, QuietStep, SMTT(30)
  <1>10. ASSUME NEW r \in Requests, AppendCommits(r) \/ LateCommit(r) PROVE SoundInv'
    <2>1. /\ phase[r] \in {"append", "abandoned"} /\ Append_(r) /\ ExpectedHolds(r)
          /\ UNCHANGED <<op, expected>>
          /\ phase' = [phase EXCEPT ![r] = "returned"]
      BY <1>10, Zenon DEF AppendCommits, LateCommit, Append_, Goto, Return, locals
    <2>2. Guarded(r)
      BY <1>d, <2>1, ConstantsAssumption, Zenon DEF ExpectedHolds, Guarded
    <2>3. Flat(ParentsIn(groups'))
      BY <1>i, <2>1, <2>2, AppendKeepsSound, Zenon DEF SoundInv
    <2>4. Len(log') = Len(log) + 1
      BY <2>1, <1>f, WrittenType DEF Append_, TypeOK
    <2>5. Running(r)
      BY <2>1, Zenon DEF Running
    <2> QED BY <2>1, <2>3, <2>4, <2>5, AppendStep, Zenon
  <1>11. ASSUME OtherWriter PROVE SoundInv'
    <2>1. UNCHANGED <<groups, op, phase, locals>>
      BY <1>11, Zenon DEF OtherWriter
    <2>2. Len(log') = Len(log) + 1
      BY <1>11, <1>f DEF OtherWriter, TypeOK
    <2> QED BY <2>1, <2>2, OtherStep, Zenon
  <1>12. ASSUME UNCHANGED <<log, groups, op, phase, locals>> PROVE SoundInv'
    BY <1>12, Zenon DEF locals, SoundInv, Demanding, Placed, Alone, Running, Guarded, Informed,
                 Current_, Unused
  <1>13. ASSUME (\E n \in Modes[mode].joinable : MembershipWritten(n)) \/ Replicate \/ UNCHANGED vars
         PROVE  SoundInv'
    BY <1>12, <1>13, Zenon DEF MembershipWritten, Replicate, vars, store
  <1> QED
    BY <1>1, <1>2, <1>3, <1>4, <1>5, <1>6, <1>7, <1>8, <1>9, <1>10, <1>11, <1>13, Zenon DEF Next, Step

CarefulInv == TypeInv /\ (Careful => SoundInv)

\* X-Fg-If-Revision protects the inheritance graph: when reads are consistent
\* and every group write carries it, or the writes run one at a time, no
\* interleaving of creates, updates, deletes and late commits stores a cycle
\* or a parent that does not exist.
THEOREM CarefulWritersKeepInheritance == Spec => []CarefulWritesResolve
  <1>1. Init => CarefulInv
    <2> SUFFICES ASSUME Init PROVE TypeInv /\ SoundInv
      BY Zenon DEF CarefulInv
    <2>1. TypeInv
      BY TypeInit, Zenon
    <2>2. ParentsIn(groups) = [n \in {} |-> groups[n].inherits]
      BY SMTT(20) DEF Init, NoGroups, ParentsIn, DeclaredIn
    <2>3. Flat(ParentsIn(groups))
      BY <2>2, Zenon DEF Flat, Cyclic
    <2> QED BY <2>1, <2>3, Zenon DEF SoundInv, Init, Alone, Running, Demanding, Placed, Informed, Current_
  <1>2. CarefulInv /\ [Next]_vars => CarefulInv'
    <2> SUFFICES ASSUME CarefulInv, [Next]_vars PROVE CarefulInv'
      BY Zenon
    <2>1. TypeInv'
      BY TypeStep, Zenon DEF CarefulInv
    <2>2. Careful' => Careful
      BY Zenon DEF Next, vars, Careful, Lag
    <2> QED BY <2>1, <2>2, SoundStep, Zenon DEF CarefulInv
  <1>3. CarefulInv => CarefulWritesResolve
    <2> SUFFICES ASSUME SoundInv PROVE InheritanceSound
      BY Zenon DEF CarefulInv, CarefulWritesResolve
    <2> QED BY AllResolveIsFlat, ParentsType, Zenon DEF SoundInv, TypeInv, TypeOK, InheritanceSound
  <1> QED BY <1>1, <1>2, <1>3, PTL DEF Spec
-----------------------------------------------------------------------------
(* Answers.                                                                *)

Refusals == {"noop", "notFound", "conflict", "invalid", "mismatch"}

NoEventBy(r) == \A s \in DOMAIN log : log[s].by # r

\* The answer of r is true, and until r has returned it has no event and no
\* answer but the error of a request that gave up.
Truthful(r) ==
    /\ answer[r].tag = "applied" =>
          answer[r].revision \in DOMAIN log /\ log[answer[r].revision] = Event(r)
    /\ answer[r].tag \in Refusals => NoEventBy(r)
    /\ phase[r] # "returned" => NoEventBy(r) /\ answer[r].tag \in {"pending", "error"}

AnswerInv == TypeInv /\ \A r \in Requests : Truthful(r)

\* What a step does to the call and the answer of a request.
Still(r) == phase'[r] = phase[r] /\ op'[r] = op[r] /\ answer'[r] = answer[r]

\* A request whose step appends nothing goes on, fails or is refused.
Moves(r) ==
    /\ phase[r] # "returned"
    /\ \/ answer'[r].tag \in Refusals \cup {"error"}
       \/ answer'[r] = answer[r]
    /\ phase'[r] # "returned" => answer'[r].tag \in {"pending", "error"}

LEMMA StillTruthful ==
    ASSUME TypeOK, NEW r \in Requests, Truthful(r), Still(r),
           \/ log' = log
           \/ \E e \in Events : e.by # r /\ log' = Append(log, e)
    PROVE  Truthful(r)'
  <1>1. Event(r)' = Event(r)
    BY Zenon DEF Event, Written, Still
  <1>2. CASE log' = log
    BY <1>1, <1>2, SMTT(20) DEF Truthful, NoEventBy, Still
  <1>3. ASSUME NEW e \in Events, e.by # r, log' = Append(log, e) PROVE Truthful(r)'
    <2>1. /\ DOMAIN log' = DOMAIN log \cup {Len(log) + 1}
          /\ \A s \in DOMAIN log : log'[s] = log[s]
          /\ log'[Len(log) + 1] = e
      BY <1>3 DEF TypeOK
    <2>2. NoEventBy(r) => NoEventBy(r)'
      BY <1>3, <2>1, Zenon DEF NoEventBy
    <2> QED BY <1>1, <2>1, <2>2, Zenon DEF Truthful, Still
  <1> QED BY <1>2, <1>3, Zenon

LEMMA MovesTruthful ==
    ASSUME NEW r \in Requests, Truthful(r), Moves(r), log' = log
    PROVE  Truthful(r)'
  <1>1. NoEventBy(r) /\ NoEventBy(r)'
    BY Zenon DEF Truthful, Moves, NoEventBy
  <1>2. answer'[r].tag # "applied"
    BY Zenon DEF Truthful, Moves, Refusals
  <1> QED BY <1>1, <1>2, Zenon DEF Truthful, Moves

\* What a step of request r that appends nothing leaves behind.
Answering(r) ==
    /\ log' = log
    /\ Moves(r)
    /\ \A q \in Requests \ {r} : Still(q)

LEMMA ReturnMoves ==
    ASSUME TypeOK, NEW r \in Requests, NEW tag \in Refusals \cup {"error"}, NEW n,
           Return(r, tag, n), phase[r] # "returned", UNCHANGED <<log, op>>
    PROVE  Answering(r)
  BY Zenon DEF Return, Goto, Answering, Moves, Still, TypeOK

LEMMA GotoMoves ==
    ASSUME TypeOK, NEW r \in Requests, Truthful(r), NEW p, Goto(r, p), p # "returned",
           phase[r] # "returned", UNCHANGED <<log, op, answer>>
    PROVE  Answering(r)
  BY Zenon DEF Goto, Answering, Moves, Still, TypeOK, Truthful

LEMMA StepAnswers ==
    ASSUME AnswerInv, NEW r \in Requests,
           \/ RequireOrg(r) \/ GetGroup(r) \/ List(r) \/ ReadItem(r) \/ ReadCurrent(r)
           \/ CheckMemberships(r) \/ CheckInheritors(r)
           \/ AppendMismatch(r) \/ AppendGone(r) \/ ReadFails(r)
    PROVE  Answering(r)
  <1> USE DEF AnswerInv, TypeInv
  <1>s. \A t \in {"notFound", "conflict", "invalid", "noop", "mismatch", "error"} :
           t \in Refusals \cup {"error"}
    BY Zenon DEF Refusals
  <1>1. CASE RequireOrg(r)
    BY <1>1, <1>s, ReturnMoves, GotoMoves, ZenonT(30) DEF RequireOrg, store
  <1>2. CASE GetGroup(r)
    <2>1. /\ phase[r] # "returned" /\ UNCHANGED <<log, op>>
          /\ \/ \E p \in {"list", "precheck", "current"} : Goto(r, p) /\ UNCHANGED answer
             \/ Return(r, "notFound", 0)
      BY <1>2, ZenonT(30) DEF GetGroup, store
    <2> QED BY <2>1, <1>s, ReturnMoves, GotoMoves, SMTT(20)
  <1>3. CASE List(r)
    BY <1>3, <1>s, ReturnMoves, GotoMoves, Zenon DEF List, store
  <1>4. CASE CheckMemberships(r) \/ CheckInheritors(r)
    <2>1. PICK check, found : CheckDone(r, check, found)
      BY <1>4, SMTT(20) DEF CheckMemberships, CheckInheritors
    <2>2. CASE UNCHANGED <<phase, answer>>
      BY <2>1, <2>2, Zenon DEF CheckDone, store, Answering, Moves, Still, Truthful
    <2>3. CASE Return(r, "conflict", 0)
      BY <2>1, <2>3, <1>s, ReturnMoves, Zenon DEF CheckDone, store
    <2>4. CASE Goto(r, "item") /\ UNCHANGED answer
      BY <2>1, <2>4, GotoMoves, Zenon DEF CheckDone, store
    <2> QED BY <2>1, <2>2, <2>3, <2>4, Zenon DEF CheckDone
  <1>5. CASE ReadItem(r)
    BY <1>5, GotoMoves, Zenon DEF ReadItem, store
  <1>6. CASE ReadCurrent(r)
    BY <1>6, <1>s, ReturnMoves, Zenon DEF ReadCurrent, store
  <1>7. CASE AppendMismatch(r)
    BY <1>7, <1>s, ReturnMoves, Zenon DEF AppendMismatch, store
  <1>8. CASE AppendGone(r)
    BY <1>8, GotoMoves, Zenon DEF AppendGone, store
  <1>9. CASE ReadFails(r)
    BY <1>9, <1>s, ReturnMoves, Zenon DEF ReadFails, Reading, store
  <1> QED BY <1>1, <1>2, <1>3, <1>4, <1>5, <1>6, <1>7, <1>8, <1>9, Zenon

\* A commit by r writes the event that its answer names, and touches no other
\* request.
LEMMA CommitAnswers ==
    ASSUME AnswerInv, NEW r \in Requests, AppendCommits(r) \/ LateCommit(r)
    PROVE  \A q \in Requests : Truthful(q)'
  <1>1. /\ TypeOK /\ phase[r] \in {"append", "abandoned"} /\ log' = Append(log, Event(r))
        /\ UNCHANGED op /\ phase' = [phase EXCEPT ![r] = "returned"] /\ Truthful(r)
    BY SMTT(20) DEF AnswerInv, TypeInv, AppendCommits, LateCommit, Append_, Return, Goto
  <1>2. Event(r) \in Events /\ Event(r).by = r /\ Event(r)' = Event(r)
    BY <1>1, WrittenType, Zenon DEF AnswerInv, Event, Written
  <1>3. ASSUME NEW q \in Requests, q # r PROVE Truthful(q)'
    <2>1. Still(q)
      BY <1>1, <1>3, Zenon DEF TypeOK, Still, AppendCommits, LateCommit, Return
    <2> QED BY <1>1, <1>2, <1>3, <2>1, StillTruthful, Zenon DEF AnswerInv
  <1>4. Truthful(r)'
    <2>1. phase'[r] = "returned" /\ Len(log) \in Nat
      BY <1>1, SMTT(20) DEF TypeOK
    <2>2. CASE AppendCommits(r)
      <3>1. answer'[r] = [tag |-> "applied", revision |-> Len(log) + 1]
        BY <2>2, <1>1, Zenon DEF AppendCommits, Return, TypeOK
      <3>2. Len(log) + 1 \in DOMAIN log' /\ log'[Len(log) + 1] = Event(r)
        BY <1>1, <1>2, <2>1, SMTT(20) DEF TypeOK
      <3> QED BY <1>2, <2>1, <3>1, <3>2 DEF Truthful, Refusals
    <2>3. CASE LateCommit(r)
      BY <1>1, <2>1, <2>3, SMTT(20) DEF LateCommit, Truthful, Refusals
    <2> QED BY <2>2, <2>3, Zenon
  <1> QED BY <1>3, <1>4, Zenon

LEMMA AnswerStep == AnswerInv /\ [Next]_vars => AnswerInv'
  <1> SUFFICES ASSUME AnswerInv, [Next]_vars PROVE \A q \in Requests : Truthful(q)'
    BY TypeStep, Zenon DEF AnswerInv
  <1>t. TypeOK /\ \A q \in Requests : Truthful(q)
    BY Zenon DEF AnswerInv, TypeInv
  <1>a. ASSUME NEW r \in Requests, Answering(r) PROVE \A q \in Requests : Truthful(q)'
    BY <1>a, <1>t, StillTruthful, MovesTruthful, Zenon DEF Answering
  <1>1. ASSUME NEW r \in Requests, Call(r) PROVE \A q \in Requests : Truthful(q)'
    <2>1. Answering(r)
      BY <1>1, <1>t, Zenon DEF Call, Goto, store, Answering, Moves, Still, Truthful, TypeOK
    <2> QED BY <2>1, <1>a, SMTT(20)
  <1>2. ASSUME NEW r \in Requests, Step(r) \/ ReadFails(r) PROVE \A q \in Requests : Truthful(q)'
    BY <1>2, <1>a, StepAnswers, CommitAnswers, Zenon DEF Step
  <1>3. ASSUME NEW r \in Requests, GiveUp(r) PROVE \A q \in Requests : Truthful(q)'
    <2>1. Answering(r)
      BY <1>3, <1>t, Zenon DEF GiveUp, Goto, store, Answering, Moves, Still, TypeOK
    <2> QED BY <2>1, <1>a, Zenon
  <1>4. ASSUME NEW r \in Requests, LateCommit(r) PROVE \A q \in Requests : Truthful(q)'
    BY <1>4, CommitAnswers, Zenon
  <1>5. ASSUME OtherWriter PROVE \A q \in Requests : Truthful(q)'
    <2> DEFINE e == [kind |-> "Other", by |-> None, name |-> None, entry |-> None]
    <2>1. e \in Events /\ log' = Append(log, e) /\ \A q \in Requests : Still(q) /\ e.by # q
      BY <1>5, ConstantsAssumption, Zenon DEF OtherWriter, Events, Still
    <2> HIDE DEF e
    <2> QED BY <2>1, <1>t, StillTruthful, Zenon
  <1>6. ASSUME UNCHANGED <<log, op, phase, answer>> PROVE \A q \in Requests : Truthful(q)'
    BY <1>6, <1>t, StillTruthful, Zenon DEF Still
  <1> QED
    BY <1>1, <1>2, <1>3, <1>4, <1>5, <1>6, Zenon
       DEF Next, MembershipWritten, Replicate, vars, store

\* Whatever fails, lags or interleaves, the answer to a group write is true of
\* the log: a success names the event of that write, and a no-op, a refusal or
\* a 412 left none (put_group, delete_group and the handlers).
THEOREM GroupAnswersStayTrue == Spec => []AnswersAreTrue
  <1>1. Init => AnswerInv
    <2> SUFFICES ASSUME Init PROVE \A r \in Requests : Truthful(r)
      BY TypeInit, Zenon DEF AnswerInv
    <2> QED BY DEF Init, Truthful, NoEventBy, Refusals
  <1>2. AnswerInv => AnswersAreTrue
    BY Zenon DEF AnswerInv, AnswersAreTrue, Truthful, NoEventBy, Refusals
  <1> QED BY <1>1, <1>2, AnswerStep, PTL DEF Spec
-----------------------------------------------------------------------------
(* Deletes.                                                                *)

\* A delete that went on after a pre-check found no use of the kind the check
\* looks for, so that none has lasted since the delete began.
Spared(r) ==
    /\ phase[r] \in {"item", "append", "abandoned"} =>
          (op[r].call = "delete" => usersSince[r] = {})
    /\ phase[r] = "precheck" =>
          /\ op[r].call = "delete"
          /\ ~blocked[r] =>
                /\ "memberships" \notin unchecked[r] => None \notin usersSince[r]
                /\ "inheritors" \notin unchecked[r] => usersSince[r] \subseteq {None}
    /\ phase[r] = "list" => op[r].call # "delete"

SpareInv == TypeInv /\ \A r \in Requests : Spared(r)

\* Once a delete runs, what is known to have used the group all along shrinks.
LEMMA UseShrinks ==
    ASSUME TypeOK, TrackUse, NEW r \in Requests, phase[r] # "idle"
    PROVE  /\ usersSince'[r] \subseteq usersSince[r]
           /\ usersSince'[r] \subseteq UsersEverywhere(op[r].name)' \/ usersSince'[r] = {}
  BY Zenon DEF TrackUse

\* A check that finds no use, on whichever replica, leaves none that is
\* everywhere.
LEMMA ChecksFindUse ==
    ASSUME TypeOK, NEW n \in Names
    PROVE  /\ \A ms \in ServedMembers : n \notin ms => None \notin UsersEverywhere(n)
           /\ \A gs \in ServedGroups :
                 Inheritors(gs, n) = {} => UsersEverywhere(n) \subseteq {None}
  <1>1. \A ms \in ServedMembers : n \notin ms => None \notin UsersEverywhere(n)
    <2> SUFFICES ASSUME NEW ms \in ServedMembers, n \notin ms PROVE None \notin UsersEverywhere(n)
      BY Zenon
    <2>1. n \notin members \cap replica.members
      BY Zenon DEF ServedMembers
    <2>2. None \notin Inheritors(groups, n)
      BY ConstantsAssumption, Zenon DEF Inheritors, DeclaredIn
    <2> QED BY <2>1, <2>2, Zenon DEF UsersEverywhere
  <1>2. \A gs \in ServedGroups : Inheritors(gs, n) = {} => UsersEverywhere(n) \subseteq {None}
    <2> SUFFICES ASSUME NEW gs \in ServedGroups, Inheritors(gs, n) = {},
                        NEW m \in Inheritors(groups, n) \cap Inheritors(replica.groups, n)
                 PROVE  FALSE
      BY Zenon DEF UsersEverywhere
    <2>1. m \in Names /\ groups[m] # None /\ n \in groups[m].inherits
          /\ replica.groups[m] # None /\ n \in replica.groups[m].inherits
      BY Zenon DEF Inheritors, DeclaredIn
    <2>2. gs[m] = groups[m] \/ gs[m] = replica.groups[m]
      BY <2>1, Zenon DEF ServedGroups
    <2> QED BY <2>1, <2>2, Zenon DEF Inheritors, DeclaredIn
  <1> QED BY <1>1, <1>2, Zenon

\* What a step leaves alone of a request's delete.
Waits(r) ==
    /\ phase'[r] = phase[r] /\ op'[r] = op[r]
    /\ unchecked'[r] = unchecked[r] /\ blocked'[r] = blocked[r]

LEMMA WaitsSpared ==
    ASSUME TypeOK, TrackUse, NEW r \in Requests, Spared(r), Waits(r)
    PROVE  Spared(r)'
  <1>1. CASE phase[r] = "idle"
    BY <1>1, Zenon DEF Spared, Waits
  <1>2. CASE phase[r] # "idle"
    BY <1>2, UseShrinks, Zenon DEF Spared, Waits
  <1> QED BY <1>1, <1>2, SMTT(20)

LEMMA CheckSpares ==
    ASSUME SpareInv, TrackUse, NEW r \in Requests, CheckMemberships(r) \/ CheckInheritors(r)
    PROVE  Spared(r)'
  <1>1. TypeOK /\ Spared(r) /\ op[r].name \in Names
    BY WrittenType, Zenon DEF SpareInv, TypeInv, CheckMemberships, CheckInheritors, CheckDone
  <1>c. PICK check \in PreChecks : \E found :
          /\ CheckDone(r, check, found)
          /\ ~found => IF check = "memberships" THEN None \notin UsersEverywhere(op[r].name)
                       ELSE UsersEverywhere(op[r].name) \subseteq {None}
    BY <1>1, ChecksFindUse, Zenon DEF CheckMemberships, CheckInheritors, PreChecks
  <1>2. PICK found :
          /\ CheckDone(r, check, found)
          /\ ~found => IF check = "memberships" THEN None \notin UsersEverywhere(op[r].name)
                       ELSE UsersEverywhere(op[r].name) \subseteq {None}
    BY <1>c
  <1>3. /\ phase[r] = "precheck" /\ UNCHANGED <<store, op>>
        /\ unchecked'[r] = unchecked[r] \ {check}
        /\ blocked'[r] = (blocked[r] \/ found)
        /\ unchecked[r] \subseteq PreChecks
        /\ phase'[r] \in {"precheck", "item", "returned"}
        /\ phase'[r] = "item" => unchecked[r] = {check} /\ ~blocked[r] /\ ~found
    BY <1>1, <1>2, Zenon DEF CheckDone, Return, Goto, TypeOK
  <1>4. UsersEverywhere(op[r].name)' = UsersEverywhere(op[r].name)
    <2>1. UNCHANGED <<groups, members, replica, op>>
      BY <1>3, Zenon DEF store
    <2> QED BY <2>1, Zenon DEF UsersEverywhere, Inheritors, DeclaredIn
  <1>5. /\ usersSince'[r] \subseteq usersSince[r]
        /\ ~found => IF check = "memberships" THEN None \notin usersSince'[r]
                     ELSE usersSince'[r] \subseteq {None}
    BY <1>1, <1>2, <1>3, <1>4, UseShrinks, Zenon
  <1>6. /\ op[r].call = "delete"
        /\ ~blocked[r] =>
              /\ "memberships" \notin unchecked[r] => None \notin usersSince[r]
              /\ "inheritors" \notin unchecked[r] => usersSince[r] \subseteq {None}
    BY <1>1, <1>3, SMTT(20) DEF Spared
  <1>7. CASE check = "memberships"
    BY <1>3, <1>5, <1>6, <1>7, Zenon DEF Spared
  <1>8. CASE check = "inheritors"
    BY <1>3, <1>5, <1>6, <1>8, ZenonT(30) DEF Spared
  <1> QED BY <1>7, <1>8, SMTT(20) DEF PreChecks

LEMMA SpareStep == SpareInv /\ [Next]_vars => SpareInv'
  <1> SUFFICES ASSUME SpareInv, [Next]_vars PROVE \A q \in Requests : Spared(q)'
    BY TypeStep, Zenon DEF SpareInv
  <1>t. TypeOK /\ \A q \in Requests : Spared(q)
    BY Zenon DEF SpareInv, TypeInv
  <1>1. CASE UNCHANGED vars
    BY <1>1, <1>t, Zenon DEF vars, locals, Spared
  <1>u. Next => TrackUse
    BY Zenon DEF Next
  <1>w. ASSUME Next, NEW q \in Requests, Waits(q) PROVE Spared(q)'
    BY <1>w, <1>u, <1>t, WaitsSpared, Zenon
  <1>2. ASSUME Next, NEW r \in Requests, \A q \in Requests \ {r} : Waits(q), Spared(r)'
        PROVE  \A q \in Requests : Spared(q)'
    BY <1>2, <1>w, Zenon
  <1>3. ASSUME Next, \A q \in Requests : Waits(q) PROVE \A q \in Requests : Spared(q)'
    BY <1>3, <1>w, Zenon
  <1>4. ASSUME Next, NEW r \in Requests, Call(r) PROVE \A q \in Requests : Spared(q)'
    <2>1. phase'[r] = "org" /\ \A q \in Requests \ {r} : Waits(q)
      BY <1>4, <1>t, Zenon DEF Call, Goto, Waits, TypeOK
    <2> QED BY <2>1, <1>2, <1>4, SMTT(20) DEF Spared
  <1>5. ASSUME Next, NEW r \in Requests, RequireOrg(r) \/ GetGroup(r)
        PROVE  \A q \in Requests : Spared(q)'
    <2>1. /\ UNCHANGED op /\ phase'[r] \in {"list", "group", "precheck", "current", "returned"}
          /\ phase'[r] = "list" => op[r].call # "delete"
          /\ phase'[r] = "precheck" => op[r].call = "delete" /\ unchecked'[r] = PreChecks
      BY <1>5, <1>t, Zenon DEF RequireOrg, GetGroup, Goto, Return, TypeOK
    <2>2. \A q \in Requests \ {r} : Waits(q)
      BY <1>5, <1>t, Zenon DEF RequireOrg, GetGroup, Goto, Return, Waits, locals, TypeOK
    <2>3. Spared(r)'
      BY <2>1, Zenon DEF Spared, PreChecks
    <2> QED BY <2>2, <2>3, <1>2, <1>5, SMTT(20)
  <1>6. ASSUME Next, NEW r \in Requests, List(r) PROVE \A q \in Requests : Spared(q)'
    <2>1. /\ UNCHANGED op /\ phase[r] = "list" /\ phase'[r] \in {"item", "returned"}
          /\ \A q \in Requests \ {r} : Waits(q)
      BY <1>6, <1>t, SMTT(20) DEF List, Goto, Return, Waits, locals, TypeOK
    <2>2. Spared(r)'
      BY <2>1, <1>t, Zenon DEF Spared
    <2> QED BY <2>1, <2>2, <1>2, <1>6, Zenon
  <1>7. ASSUME Next, NEW r \in Requests, CheckMemberships(r) \/ CheckInheritors(r)
        PROVE  \A q \in Requests : Spared(q)'
    <2>1. PICK check, found : CheckDone(r, check, found)
      BY <1>7, Zenon DEF CheckMemberships, CheckInheritors
    <2>2. \A q \in Requests \ {r} : Waits(q)
      BY <2>1, <1>t, SMTT(20) DEF CheckDone, Goto, Return, Waits, TypeOK
    <2>3. Spared(r)'
      BY <1>7, CheckSpares, Zenon DEF Next
    <2> QED BY <2>2, <2>3, <1>2, <1>7, Zenon
  <1>8. ASSUME Next, NEW r \in Requests, ReadItem(r) \/ GiveUp(r)
        PROVE  \A q \in Requests : Spared(q)'
    <2>1. /\ UNCHANGED op /\ phase[r] \in {"item", "append"}
          /\ phase'[r] \in {"current", "append", "abandoned"}
          /\ \A q \in Requests \ {r} : Waits(q)
      BY <1>8, <1>t, SMTT(20) DEF ReadItem, GiveUp, Goto, Waits, locals, TypeOK
    <2>2. usersSince'[r] \subseteq usersSince[r]
      BY <2>1, <1>8, <1>t, UseShrinks, ZenonT(30) DEF Next
    <2>3. Spared(r)'
      BY <2>1, <2>2, <1>t, ZenonT(30) DEF Spared
    <2> QED BY <2>1, <2>3, <1>2, <1>8, SMTT(20)
  <1>9. ASSUME Next, NEW r \in Requests,
               \/ ReadCurrent(r) \/ AppendMismatch(r) \/ AppendGone(r) \/ ReadFails(r)
               \/ AppendCommits(r) \/ LateCommit(r)
        PROVE  \A q \in Requests : Spared(q)'
    <2>1. phase'[r] \in {"current", "returned"} /\ \A q \in Requests \ {r} : Waits(q)
      BY <1>9, <1>t, ZenonT(30) DEF ReadCurrent, AppendMismatch, AppendGone, ReadFails, AppendCommits,
                        LateCommit, Goto, Return, Waits, locals, TypeOK
    <2> QED BY <2>1, <1>2, <1>9, ZenonT(30) DEF Spared
  <1>10. ASSUME Next, UNCHANGED <<op, phase, locals>> PROVE \A q \in Requests : Spared(q)'
    BY <1>10, <1>3, Zenon DEF Waits, locals
  <1>11. CASE Next
    <2>1. \/ \E r \in Requests : Call(r) \/ Step(r) \/ ReadFails(r) \/ GiveUp(r) \/ LateCommit(r)
          \/ UNCHANGED <<op, phase, locals>>
      BY <1>11, Zenon DEF Next, MembershipWritten, OtherWriter, Replicate
    <2> QED BY <2>1, <1>4, <1>5, <1>6, <1>7, <1>8, <1>9, <1>10, <1>11, SMTT(20) DEF Step
  <1> QED BY <1>1, <1>11, Zenon

LEMMA AppendedLast ==
    ASSUME log \in Seq(Events), NEW e \in Events, log' = Append(log, e)
    PROVE  Last' = e
  <1>1. Len(log') = Len(log) + 1 /\ log'[Len(log) + 1] = e
    OBVIOUS
  <1> QED BY <1>1, Zenon DEF Last

\* No delete removes a group that a member, or one inheriting group, used all
\* the while it ran and on every replica, although the pre-checks are made one
\* after the other and on replicas (delete_group's handler).
THEOREM DeletesSpareUsedGroups == Spec => DeleteSparesUsed
  <1>1. Init => SpareInv
    <2> SUFFICES ASSUME Init PROVE \A r \in Requests : Spared(r)
      BY TypeInit, Zenon DEF SpareInv
    <2> QED BY Zenon DEF Init, Spared
  <1>2. SpareInv /\ [Next]_vars =>
          [\A r \in Requests : (Appends /\ Last'.kind = "GroupDeleted" /\ Last'.by = r)
                                  => usersSince[r] = {}]_vars
    <2> SUFFICES ASSUME SpareInv, Next, NEW r \in Requests,
                        Appends, Last'.kind = "GroupDeleted", Last'.by = r
                 PROVE  usersSince[r] = {}
      BY Zenon
    <2>1. TypeOK /\ Spared(r) /\ Len(log) \in Nat
      BY SMTT(20) DEF SpareInv, TypeInv, TypeOK
    <2>2. \/ \E q \in Requests : AppendCommits(q) \/ LateCommit(q)
          \/ OtherWriter
          \/ log' = log
      <3>1. \A q \in Requests : \A check, found : CheckDone(q, check, found) => log' = log
        BY SMTT(20) DEF CheckDone, store
      <3> QED BY <3>1, ZenonT(30) DEF Next, Step, Call, RequireOrg, GetGroup, List, CheckMemberships,
                          CheckInheritors, ReadItem, ReadCurrent, AppendMismatch, AppendGone,
                          ReadFails, GiveUp, MembershipWritten, Replicate, store
    <2>3. ASSUME NEW q \in Requests, AppendCommits(q) \/ LateCommit(q) PROVE usersSince[r] = {}
      <3>1. /\ log' = Append(log, Event(q)) /\ phase[q] \in {"append", "abandoned"}
            /\ Event(q) \in Events
        BY <2>3, WrittenType, ZenonT(30) DEF AppendCommits, LateCommit, Append_, SpareInv
      <3>2. Last' = Event(q)
        BY <2>1, <3>1, AppendedLast, SMTT(20) DEF TypeOK
      <3>3. q = r /\ op[q].call = "delete"
        BY <3>2, Zenon DEF Event
      <3> QED BY <2>1, <3>1, <3>3, ZenonT(30) DEF Spared
    <2>4. ASSUME OtherWriter PROVE FALSE
      <3> DEFINE e == [kind |-> "Other", by |-> None, name |-> None, entry |-> None]
      <3>1. e \in Events /\ log' = Append(log, e)
        BY <2>4, SMTT(20) DEF OtherWriter, Events
      <3>2. Last' = e
        BY <2>1, <3>1, AppendedLast, Zenon DEF TypeOK
      <3> QED BY <3>2, SMTT(20)
    <2>5. CASE log' = log
      BY <2>1, <2>5 DEF Appends
    <2> QED BY <2>2, <2>3, <2>4, <2>5, Zenon
  <1> QED BY <1>1, <1>2, SpareStep, PTL DEF Spec, DeleteSparesUsed

-----------------------------------------------------------------------------
(* Conditional reads.                                                      *)

\* The items whose etag is that of their config.
KeptOrgs ==
    {i \in OrgItems : i.etag = IF i.config = None THEN None ELSE ComputeEtag(i.config)}

Kept(s) == s \in [org : KeptOrgs \cup {None}, group : GroupItems \cup {None}]

\* A copy is of one item, with the etag of that item.
CopyOf(endpoint, copy) ==
    /\ endpoint \in {"show", "proxyConfig"} =>
          copy.from \in KeptOrgs /\ copy.etag = copy.from.etag
    /\ endpoint = "proxyConfig" => copy.body = copy.from.config
    /\ endpoint = "group" =>
          copy.from \in GroupItems /\ copy.etag = copy.from.etag /\ copy.body = copy.from.entry

PollerInv ==
    /\ DOMAIN client = {"endpoint", "copy", "asked", "code", "from"}
    /\ client.endpoint \in Endpoints
    /\ client.copy # None => CopyOf(client.endpoint, client.copy)
    /\ RevalidationIsSound

ReadsInv ==
    /\ puts \in 0 .. MaxWrites
    /\ Kept(primary) /\ Kept(stale)
    /\ stale.org # None => primary.org # None
    /\ PollerInv

\* Etags tell contents apart.
LEMMA EtagsDiffer ==
    ASSUME NEW c, NEW d, ComputeEtag(c) = ComputeEtag(d)
    PROVE  c = d
  BY DEF ComputeEtag

LEMMA FromKept ==
    ASSUME NEW item \in KeptOrgs
    PROVE  /\ item # None /\ FromItem(item).ok /\ FromItem(item).org = item.org
           /\ item.config = None => FromItem(item).configured = None
           /\ item.config # None =>
                 /\ FromItem(item).configured = [config |-> item.config, etag |-> item.etag]
                 /\ FromItem(item).configured # None
                 /\ item.config \in Configs /\ item.etag = ComputeEtag(item.config)
                 /\ item.etag # None
  <1>1. item \in OrgItems /\ item # None
    BY ReadsAssumption, Zenon DEF KeptOrgs
  <1>2. item.config \in Configs \cup {None} /\ item.etag \in ItemTags \cup {None}
    BY <1>1 DEF OrgItems
  <1>3. CASE item.config = None
    <2>1. item.etag = None
      BY <1>3, Zenon DEF KeptOrgs
    <2> QED BY <1>1, <1>3, <2>1 DEF FromItem
  <1>4. CASE item.config # None
    <2>1. item.etag = ComputeEtag(item.config) /\ item.config \in Configs
      BY <1>2, <1>4, Zenon DEF KeptOrgs
    <2>2. item.etag \in ItemTags /\ item.etag # None
      BY <2>1, ReadsAssumption, Zenon DEF ItemTags
    <2>3. [config |-> item.config, etag |-> item.etag] # None
      <3>1. [config |-> item.config, etag |-> item.etag] \in [config : Configs, etag : ItemTags]
        BY <2>1, <2>2
      <3> QED BY <3>1, ReadsAssumption, Zenon
    <2> QED BY <1>1, <1>4, <2>1, <2>2, <2>3 DEF FromItem
  <1> QED BY <1>3, <1>4, Zenon

\* A conditional GET answers with the representation, or says that it is the
\* one the client named.
LEMMA ConditionalAnswers ==
    ASSUME NEW raw, NEW etag, NEW body, NEW reply, reply = Conditional(raw, etag, body)
    PROVE  \/ reply.code = 200 /\ reply.etag = etag /\ reply.body = body
           \/ reply.code = 304 /\ raw # None /\ (raw.form = "wildcard" \/ raw.tag = etag)
  <1>1. CASE NotModified(CheckIfNoneMatch(ParseIfMatch(raw), etag))
    <2>1. CheckIfNoneMatch(ParseIfMatch(raw), etag) # "NotMatched"
      BY <1>1 DEF NotModified
    <2>2. ParseIfMatch(raw) # None
      BY <2>1, Zenon DEF CheckIfNoneMatch
    <2>3. raw # None /\ ParseIfMatch(raw) = raw
      BY <2>2, Zenon DEF ParseIfMatch
    <2>4. raw.form = "wildcard" \/ raw.tag = etag
      BY <2>1, <2>2, <2>3, Zenon DEF CheckIfNoneMatch
    <2>5. reply.code = 304
      BY <1>1 DEF Conditional
    <2> QED BY <2>3, <2>4, <2>5, Zenon
  <1>2. CASE ~NotModified(CheckIfNoneMatch(ParseIfMatch(raw), etag))
    BY <1>2 DEF Conditional
  <1> QED BY <1>1, <1>2, Zenon

\* What the reply to a header must be for the client to stay right: a 200
\* renews its copy, a 304 to its entity tag confirms it.
Renews(reply, from) ==
    LET copy == [etag |-> reply.etag, body |-> reply.body, from |-> from]
    IN  copy \in Copies /\ CopyOf(client.endpoint, copy)

Confirms(raw, from) ==
    /\ raw # None
    /\ raw.form = "strong" =>
          /\ client.endpoint \in {"show", "proxyConfig", "group"}
          /\ client.endpoint = "group" => from \in GroupItems
          /\ client.endpoint # "group" => from \in KeptOrgs
          /\ raw.tag = from.etag

Sound(raw, reply, from) ==
    /\ reply.code # 500
    /\ reply.code = 200 => Renews(reply, from)
    /\ reply.code = 304 => Confirms(raw, from)

LEMMA TakeKeeps ==
    ASSUME PollerInv, NEW raw \in Headers, NEW reply, NEW from, Sound(raw, reply, from),
           Take(raw, reply, from)
    PROVE  PollerInv'
  <1> DEFINE copy == [etag |-> reply.etag, body |-> reply.body, from |-> from]
  <1>1. /\ DOMAIN client' = {"endpoint", "copy", "asked", "code", "from"}
        /\ client'.endpoint = client.endpoint /\ client'.asked = raw
        /\ client'.code = reply.code /\ client'.from = from
        /\ client'.copy = IF reply.code = 200 THEN copy ELSE client.copy
    BY DEF PollerInv, Take
  <1>2. client'.endpoint \in Endpoints
    BY <1>1, Zenon DEF PollerInv
  <1>3. CASE reply.code = 200
    <2>1. client'.copy = copy /\ copy # None /\ CopyOf(client.endpoint, copy)
      <3>1. copy \in Copies /\ CopyOf(client.endpoint, copy)
        BY <1>3 DEF Sound, Renews
      <3>2. client'.copy = copy
        BY <1>1, <1>3, Zenon
      <3>3. copy # None
        BY <3>1, ReadsAssumption, Zenon
      <3> QED BY <3>1, <3>2, <3>3, Zenon
    <2>2. client'.copy.from = client'.from
      BY <1>1, <2>1
    <2>3. /\ client'.endpoint = "proxyConfig" => client'.copy.body = client'.from.config
          /\ client'.endpoint = "group" => client'.copy.body = client'.from.entry
      BY <1>1, <2>1, <2>2, Zenon DEF CopyOf
    <2>4. client'.code # 500
      BY <1>1 DEF Sound
    <2> HIDE DEF copy
    <2>5. RevalidationIsSound'
      BY <2>1, <2>2, <2>3, <2>4, Zenon DEF RevalidationIsSound
    <2> QED BY <1>1, <1>2, <2>1, <2>5, Zenon DEF PollerInv
  <1>4. CASE reply.code # 200
    <2>1. client'.copy = client.copy
      BY <1>1, <1>4, Zenon
    <2>2. client'.code # 500
      BY <1>1 DEF Sound
    <2>3. ASSUME reply.code = 304, raw.form = "strong"
          PROVE  /\ client.copy # None
                 /\ client.endpoint \in {"proxyConfig", "show", "group"} =>
                       Tagged(client.copy.from) = Tagged(from)
                 /\ client.endpoint = "proxyConfig" => client.copy.body = from.config
                 /\ client.endpoint = "group" => client.copy.body = from.entry
      <3>1. /\ client.endpoint \in {"show", "proxyConfig", "group"}
            /\ client.endpoint = "group" => from \in GroupItems
            /\ client.endpoint # "group" => from \in KeptOrgs
            /\ raw.tag = from.etag /\ raw # None
        <4>1. Confirms(raw, from)
          BY <2>3 DEF Sound
        <4> QED BY <2>3, <4>1, Zenon DEF Confirms
      <3>2. client.copy # None /\ raw.tag = client.copy.etag /\ raw.tag # None
        BY <2>3, <3>1 DEF Headers
      <3>3. CopyOf(client.endpoint, client.copy)
        BY <3>2, Zenon DEF PollerInv
      <3>4. CASE client.endpoint = "group"
        <4>1. PICK e \in GroupConfigs : from = EtagedGroup(e)
          BY <3>1, <3>4, Zenon DEF GroupItems
        <4>2. PICK d \in GroupConfigs : client.copy.from = EtagedGroup(d)
          BY <3>3, <3>4, Zenon DEF GroupItems, CopyOf
        <4>3. from.entry = e /\ from.etag = ComputeEtag(e)
          BY <4>1 DEF EtagedGroup
        <4>4. client.copy.from.entry = d /\ client.copy.from.etag = ComputeEtag(d)
          BY <4>2 DEF EtagedGroup
        <4>5. client.copy.etag = client.copy.from.etag /\ client.copy.body = client.copy.from.entry
          BY <3>3, <3>4, Zenon DEF CopyOf
        <4>6. ComputeEtag(d) = ComputeEtag(e)
          BY <3>1, <3>2, <4>3, <4>4, <4>5, Zenon
        <4>7. d = e
          BY <4>6, EtagsDiffer
        <4>8. from # None /\ client.copy.from # None
          BY <4>1, <4>2, ReadsAssumption, Zenon DEF GroupItems
        <4>9. Tagged(client.copy.from) = Tagged(from)
          BY <3>4, <4>3, <4>4, <4>7, <4>8, Zenon DEF Tagged
        <4>10. client.endpoint # "proxyConfig"
          BY <3>4
        <4> QED BY <3>2, <4>3, <4>4, <4>5, <4>7, <4>9, <4>10, Zenon
      <3>5. CASE client.endpoint # "group"
        <4>1. from \in KeptOrgs /\ client.copy.from \in KeptOrgs
              /\ client.copy.etag = client.copy.from.etag
          BY <3>1, <3>3, <3>5, Zenon DEF CopyOf
        <4>2. from.etag # None /\ client.copy.from.etag = from.etag
          BY <3>1, <3>2, <4>1, Zenon
        <4>3. from.config # None /\ client.copy.from.config # None
          BY <4>1, <4>2, Zenon DEF KeptOrgs
        <4>4. from.config = client.copy.from.config
          <5>1. from.etag = ComputeEtag(from.config)
                /\ client.copy.from.etag = ComputeEtag(client.copy.from.config)
            BY <4>1, <4>3, FromKept, Zenon
          <5> QED BY <4>2, <5>1, EtagsDiffer
        <4>5. from # None /\ client.copy.from # None
          BY <4>1, FromKept, Zenon
        <4>6. Tagged(client.copy.from) = Tagged(from)
          BY <3>5, <4>4, <4>5, Zenon DEF Tagged
        <4>7. client.endpoint = "proxyConfig" => client.copy.body = from.config
          BY <3>3, <4>4, Zenon DEF CopyOf
        <4> QED BY <3>2, <3>5, <4>6, <4>7, Zenon
      <3> QED BY <3>4, <3>5, Zenon
    <2>4. RevalidationIsSound'
      <3>1. client'.code # 200
        BY <1>1, <1>4, Zenon
      <3>2. ASSUME client'.code = 304, client'.asked.form = "strong"
            PROVE  /\ client'.copy # None
                   /\ client'.endpoint \in {"proxyConfig", "show", "group"} =>
                         Tagged(client.copy.from)' = Tagged(client.from)'
                   /\ client'.endpoint = "proxyConfig" => client'.copy.body = client'.from.config
                   /\ client'.endpoint = "group" => client'.copy.body = client'.from.entry
        <4> HIDE DEF copy
        <4>1. reply.code = 304 /\ raw.form = "strong"
          BY <1>1, <3>2, Zenon
        <4>2. Tagged(client.copy.from)' = Tagged(client.copy.from)
              /\ Tagged(client.from)' = Tagged(from)
          BY <1>1, <2>1, Zenon DEF Tagged
        <4>3. /\ client.copy # None
              /\ client.endpoint \in {"proxyConfig", "show", "group"} =>
                    Tagged(client.copy.from) = Tagged(from)
              /\ client.endpoint = "proxyConfig" => client.copy.body = from.config
              /\ client.endpoint = "group" => client.copy.body = from.entry
          BY <2>3, <4>1
        <4>4. client'.endpoint = client.endpoint /\ client'.from = from
          BY <1>1
        <4> QED BY <2>1, <4>2, <4>3, <4>4, Zenon
      <3> QED BY <2>2, <3>1, <3>2, Zenon DEF RevalidationIsSound
    <2>5. client'.copy # None => CopyOf(client'.endpoint, client'.copy)
      BY <1>1, <2>1, Zenon DEF PollerInv
    <2> QED BY <1>1, <1>2, <2>4, <2>5, Zenon DEF PollerInv
  <1> QED BY <1>3, <1>4, Zenon

\* What the reads are served.
LEMMA ServedItems ==
    ASSUME ReadsInv
    PROVE  /\ \A item \in ServedItem : item \in KeptOrgs \cup {None}
           /\ \A group \in ServedGroupItem : group \in GroupItems \cup {None}
  BY DEF ReadsInv, Kept, ServedItem, ServedGroupItem

LEMMA OrgItemTypes ==
    ASSUME NEW item \in KeptOrgs
    PROVE  /\ item \in OrgItems /\ item.org \in Orgs /\ item.keys \in SUBSET (0 .. MaxWrites)
           /\ item.config \in Configs \cup {None} /\ item.etag \in ItemTags \cup {None}
  <1>1. item \in OrgItems
    BY Zenon DEF KeptOrgs
  <1> QED BY <1>1 DEF OrgItems

LEMMA CopiesAre ==
    ASSUME NEW etag \in ItemTags \cup {None}, NEW body \in Bodies,
           NEW from \in OrgItems \cup GroupItems \cup {None}
    PROVE  [etag |-> etag, body |-> body, from |-> from] \in Copies
  BY DEF Copies

LEMMA StrongHeaders ==
    ASSUME NEW raw \in Headers, raw # None, raw.form = "strong"
    PROVE  raw.form # "wildcard"
  OBVIOUS

\* A failure changes nothing for the client.
LEMMA FailuresAreSound ==
    ASSUME NEW code \in {404, 409}, NEW raw, NEW from
    PROVE  Sound(raw, Answer(code), from)
  BY DEF Sound, Answer

\* A list is sent without a tag.
LEMMA ListsAreSound ==
    ASSUME NEW raw, NEW from, NEW body, client.endpoint \in {"keys", "groups"},
           [etag |-> None, body |-> body, from |-> from] \in Copies
    PROVE  Sound(raw, [code |-> 200, etag |-> None, body |-> body], from)
  <1> DEFINE reply == [code |-> 200, etag |-> None, body |-> body]
  <1>1. reply.code = 200 /\ reply.etag = None /\ reply.body = body
    OBVIOUS
  <1> HIDE DEF reply
  <1>2. Renews(reply, from)
    BY <1>1, SMTT(20) DEF Renews, CopyOf
  <1>3. Sound(raw, reply, from)
    BY <1>1, <1>2 DEF Sound
  <1> QED BY <1>3 DEF reply

\* A wildcard is read as one.
LEMMA WildcardsAreRead ==
    ASSUME NEW raw, ParseIfMatch(raw) # None, ParseIfMatch(raw).form = "wildcard"
    PROVE  raw # None /\ raw.form = "wildcard"
  BY SMTT(20) DEF ParseIfMatch

\* A conditional reply of an item is sound at the endpoints that have one.
LEMMA OrgAnswersAreSound ==
    ASSUME NEW raw, NEW item \in KeptOrgs, NEW body,
           \/ client.endpoint = "show" /\ body = item.org
           \/ client.endpoint = "proxyConfig" /\ body = item.config /\ item.config # None
    PROVE  Sound(raw, Conditional(raw, item.etag, body), item)
  <1> DEFINE reply == Conditional(raw, item.etag, body)
  <1>1. \/ reply.code = 200 /\ reply.etag = item.etag /\ reply.body = body
        \/ reply.code = 304 /\ raw # None /\ (raw.form = "wildcard" \/ raw.tag = item.etag)
    BY ConditionalAnswers
  <1> HIDE DEF reply
  <1>2. CASE reply.code = 200 /\ reply.etag = item.etag /\ reply.body = body
    <2> DEFINE copy == [etag |-> reply.etag, body |-> reply.body, from |-> item]
    <2>1. body \in Bodies
      BY OrgItemTypes DEF Bodies
    <2>2. copy \in Copies
      BY <1>2, <2>1, OrgItemTypes, CopiesAre
    <2>3. copy.from = item /\ copy.etag = item.etag /\ copy.body = body
      BY <1>2
    <2> HIDE DEF copy
    <2>4. CopyOf(client.endpoint, copy)
      BY <2>3 DEF CopyOf
    <2>5. reply.code # 500 /\ reply.code # 304
      BY <1>2
    <2>6. Renews(reply, item)
      BY <2>2, <2>4, Zenon DEF Renews, copy
    <2> QED BY <2>5, <2>6 DEF Sound, reply
  <1>3. CASE reply.code = 304 /\ raw # None /\ (raw.form = "wildcard" \/ raw.tag = item.etag)
    <2>1. reply.code # 500 /\ reply.code # 200
      BY <1>3
    <2>2. client.endpoint \in {"show", "proxyConfig", "group"} /\ client.endpoint # "group"
      OBVIOUS
    <2>3. raw.form = "strong" => raw.tag = item.etag
      BY <1>3
    <2>4. Confirms(raw, item)
      BY <1>3, <2>2, <2>3, Zenon DEF Confirms
    <2> QED BY <2>1, <2>4 DEF Sound, reply
  <1> QED BY <1>1, <1>2, <1>3, SMTT(20) DEF reply

LEMMA GroupAnswersAreSound ==
    ASSUME NEW raw, NEW group \in GroupItems, client.endpoint = "group"
    PROVE  Sound(raw, Conditional(raw, group.etag, group.entry), group)
  <1> DEFINE reply == Conditional(raw, group.etag, group.entry)
  <1>1. \/ reply.code = 200 /\ reply.etag = group.etag /\ reply.body = group.entry
        \/ reply.code = 304 /\ raw # None /\ (raw.form = "wildcard" \/ raw.tag = group.etag)
    BY ConditionalAnswers
  <1> HIDE DEF reply
  <1>2. CASE reply.code = 200 /\ reply.etag = group.etag /\ reply.body = group.entry
    <2> DEFINE copy == [etag |-> reply.etag, body |-> reply.body, from |-> group]
    <2>1. group.entry \in GroupConfigs /\ group.etag \in ItemTags
      <3>1. PICK e \in GroupConfigs : group = EtagedGroup(e)
        BY Zenon DEF GroupItems
      <3>2. group.entry = e /\ group.etag = ComputeEtag(e)
        BY <3>1 DEF EtagedGroup
      <3> QED BY <3>2, Zenon DEF ItemTags
    <2>2. copy \in Copies
      <3>1. group.entry \in Bodies
        BY <2>1 DEF Bodies
      <3> QED BY <1>2, <2>1, <3>1, CopiesAre
    <2>3. copy.from = group /\ copy.etag = group.etag /\ copy.body = group.entry
      BY <1>2
    <2> HIDE DEF copy
    <2>4. CopyOf(client.endpoint, copy)
      BY <2>3 DEF CopyOf
    <2>5. reply.code # 500 /\ reply.code # 304
      BY <1>2
    <2>6. Renews(reply, group)
      BY <2>2, <2>4, Zenon DEF Renews, copy
    <2> QED BY <2>5, <2>6 DEF Sound, reply
  <1>3. CASE reply.code = 304 /\ raw # None /\ (raw.form = "wildcard" \/ raw.tag = group.etag)
    <2>1. reply.code # 500 /\ reply.code # 200
      BY <1>3
    <2>2. client.endpoint \in {"show", "proxyConfig", "group"}
      OBVIOUS
    <2>3. raw.form = "strong" => raw.tag = group.etag
      BY <1>3
    <2>4. Confirms(raw, group)
      BY <1>3, <2>2, <2>3, Zenon DEF Confirms
    <2> QED BY <2>1, <2>4 DEF Sound, reply
  <1> QED BY <1>1, <1>2, <1>3, SMTT(20) DEF reply

LEMMA PollKeeps ==
    ASSUME ReadsInv, NEW raw \in Headers, Poll(raw)
    PROVE  ReadsInv'
  <1> SUFFICES PollerInv'
    BY DEF ReadsInv, Kept, Poll
  <1>1. PICK item \in ServedItem, again \in ServedItem, group \in ServedGroupItem :
          CASE client.endpoint = "show" -> Take(raw, ShowOrg(item, raw), item)
            [] client.endpoint = "proxyConfig" -> Take(raw, ProxyConfigHandler(item, raw), item)
            [] client.endpoint = "keys" -> Take(raw, ListKeysHandler(item, again), again)
            [] client.endpoint = "group" -> Take(raw, GetGroupHandler(item, group, raw), group)
            [] client.endpoint = "groups" -> Take(raw, ListGroupsHandler(item, group, raw), group)
    BY Zenon DEF Poll
  <1>2. /\ item \in KeptOrgs \cup {None} /\ again \in KeptOrgs \cup {None}
        /\ group \in GroupItems \cup {None}
    BY ServedItems, Zenon
  <1>3. PollerInv /\ client.endpoint \in Endpoints
    BY Zenon DEF ReadsInv, PollerInv
  <1>4. WithOrg(None, None) = Answer(404)
    BY DEF WithOrg
  <1>5. ASSUME NEW reply, item # None
        PROVE  WithOrg(item, reply) = reply
    BY <1>2, <1>5, FromKept, Zenon DEF WithOrg
  <1>6. ASSUME NEW reply, item = None
        PROVE  WithOrg(item, reply) = Answer(404)
    BY <1>6 DEF WithOrg
  <1>7. CASE client.endpoint = "show"
    <2>1. Take(raw, ShowOrg(item, raw), item)
      BY <1>1, <1>7
    <2>2. Sound(raw, ShowOrg(item, raw), item)
      <3>1. CASE item = None
        BY <1>6, <3>1, FailuresAreSound, SMTT(20) DEF ShowOrg
      <3>2. CASE item # None
        <4>1. ShowOrg(item, raw) = Conditional(raw, item.etag, item.org)
          <5>1. item \in KeptOrgs
            BY <1>2, <3>2
          <5>2. (IF FromItem(item).configured = None THEN None
                 ELSE FromItem(item).configured.etag) = item.etag
            <6>1. CASE item.config = None
              <7>1. item.etag = None
                BY <5>1, <6>1, Zenon DEF KeptOrgs
              <7> QED BY <5>1, <6>1, <7>1, FromKept, Zenon
            <6>2. CASE item.config # None
              <7>1. /\ FromItem(item).configured # None
                    /\ FromItem(item).configured = [config |-> item.config, etag |-> item.etag]
                BY <5>1, <6>2, FromKept, Zenon
              <7> QED BY <7>1
            <6> QED BY <6>1, <6>2
          <5> QED BY <1>5, <3>2, <5>1, <5>2, FromKept, Zenon DEF ShowOrg
        <4> QED BY <1>2, <1>7, <3>2, <4>1, OrgAnswersAreSound
      <3> QED BY <3>1, <3>2, SMTT(20)
    <2> QED BY <1>3, <2>1, <2>2, TakeKeeps
  <1>8. CASE client.endpoint = "proxyConfig"
    <2>1. Take(raw, ProxyConfigHandler(item, raw), item)
      BY <1>1, <1>8
    <2>2. Sound(raw, ProxyConfigHandler(item, raw), item)
      <3>1. CASE item = None
        BY <1>6, <3>1, FailuresAreSound, SMTT(20) DEF ProxyConfigHandler
      <3>2. CASE item # None /\ item.config = None
        <4>1. FromItem(item).configured = None
          BY <1>2, <3>2, FromKept, Zenon
        <4>2. ProxyConfigHandler(item, raw) = Answer(409)
          BY <1>5, <3>2, <4>1, Zenon DEF ProxyConfigHandler
        <4> QED BY <4>2, FailuresAreSound
      <3>3. CASE item # None /\ item.config # None
        <4>1. ProxyConfigHandler(item, raw) = Conditional(raw, item.etag, item.config)
          <5> DEFINE r == FromItem(item)
          <5>1. r.configured # None /\ r.configured = [config |-> item.config, etag |-> item.etag]
            BY <1>2, <3>3, FromKept, Zenon
          <5>2. r.configured.config = item.config /\ r.configured.etag = item.etag
            BY <5>1
          <5> QED BY <1>5, <3>3, <5>1, <5>2, Zenon DEF ProxyConfigHandler
        <4> QED BY <1>2, <1>8, <3>3, <4>1, OrgAnswersAreSound
      <3> QED BY <3>1, <3>2, <3>3
    <2> QED BY <1>3, <2>1, <2>2, TakeKeeps
  <1>9. CASE client.endpoint = "keys"
    <2>1. Take(raw, ListKeysHandler(item, again), again)
      BY <1>1, <1>9
    <2>2. Sound(raw, ListKeysHandler(item, again), again)
      <3>1. CASE item = None
        BY <1>6, <3>1, FailuresAreSound, SMTT(20) DEF ListKeysHandler
      <3>2. CASE item # None
        <4> DEFINE body == IF again = None THEN {} ELSE again.keys
        <4>1. body \in Bodies /\ again \in OrgItems \cup {None}
          BY <1>2, OrgItemTypes, SMTT(20) DEF Bodies
        <4>2. ListKeysHandler(item, again) = [code |-> 200, etag |-> None, body |-> body]
          BY <1>5, <3>2, SMTT(20) DEF ListKeysHandler
        <4> HIDE DEF body
        <4>3. [etag |-> None, body |-> body, from |-> again] \in Copies
          BY <4>1, CopiesAre, SMTT(20)
        <4>4. Sound(raw, [code |-> 200, etag |-> None, body |-> body], again)
          BY <1>9, <4>3, ListsAreSound, SMTT(20)
        <4> QED BY <4>2, <4>4, SMTT(20)
      <3> QED BY <3>1, <3>2, SMTT(20)
    <2> QED BY <1>3, <2>1, <2>2, TakeKeeps
  <1>10. CASE client.endpoint = "group"
    <2>1. Take(raw, GetGroupHandler(item, group, raw), group)
      BY <1>1, <1>10
    <2>2. Sound(raw, GetGroupHandler(item, group, raw), group)
      <3>1. CASE item = None
        BY <1>6, <3>1, FailuresAreSound, SMTT(20) DEF GetGroupHandler
      <3>2. CASE item # None /\ group = None
        BY <1>5, <3>2, FailuresAreSound DEF GetGroupHandler
      <3>3. CASE item # None /\ group # None
        BY <1>2, <1>5, <1>10, <3>3, GroupAnswersAreSound, SMTT(20) DEF GetGroupHandler
      <3> QED BY <3>1, <3>2, <3>3
    <2> QED BY <1>3, <2>1, <2>2, TakeKeeps
  <1>11. CASE client.endpoint = "groups"
    <2>1. Take(raw, ListGroupsHandler(item, group, raw), group)
      BY <1>1, <1>11
    <2>2. Sound(raw, ListGroupsHandler(item, group, raw), group)
      <3>1. CASE item = None
        BY <1>6, <3>1, FailuresAreSound, SMTT(20) DEF ListGroupsHandler
      <3>2. CASE item # None
        <4> DEFINE header == ParseIfMatch(raw)
                   body == IF group = None THEN {} ELSE {group}
        <4>1. CASE group # None /\ header # None /\ header.form = "wildcard"
          <5>1. ListGroupsHandler(item, group, raw) = Answer(304)
            BY <1>5, <3>2, <4>1, SMTT(20) DEF ListGroupsHandler
          <5>2. raw # None /\ raw.form = "wildcard"
            BY <4>1, WildcardsAreRead, Zenon
          <5> QED BY <5>1, <5>2 DEF Sound, Confirms, Answer
        <4>2. CASE ~(group # None /\ header # None /\ header.form = "wildcard")
          <5>1. ListGroupsHandler(item, group, raw) = [code |-> 200, etag |-> None, body |-> body]
            BY <1>5, <3>2, <4>2, SMTT(20) DEF ListGroupsHandler
          <5>2. body \in Bodies
            <6>1. body \in SUBSET GroupItems
              BY <1>2
            <6> HIDE DEF body
            <6> QED BY <6>1 DEF Bodies
          <5> HIDE DEF body
          <5>3. [etag |-> None, body |-> body, from |-> group] \in Copies
            BY <1>2, <5>2, CopiesAre, Zenon
          <5>4. Sound(raw, [code |-> 200, etag |-> None, body |-> body], group)
            BY <1>11, <5>3, ListsAreSound, SMTT(20)
          <5> QED BY <5>1, <5>4, SMTT(20)
        <4> QED BY <4>1, <4>2, SMTT(20)
      <3> QED BY <3>1, <3>2, SMTT(20)
    <2> QED BY <1>3, <2>1, <2>2, TakeKeeps
  <1> QED BY <1>3, <1>7, <1>8, <1>9, <1>10, <1>11, Zenon DEF Endpoints

\* What a write puts into the table.
LEMMA WrittenItems ==
    ASSUME NEW org \in Orgs, NEW config \in Configs \cup {None}, NEW keys \in SUBSET (0 .. MaxWrites)
    PROVE  ToItem(org, ConfiguredConfig(config), keys) \in KeptOrgs
  <1> DEFINE item == ToItem(org, ConfiguredConfig(config), keys)
             tag == IF config = None THEN None ELSE ComputeEtag(config)
  <1>1. item = [org |-> org, keys |-> keys, config |-> config, etag |-> tag]
    <2>1. CASE config = None
      BY <2>1 DEF ToItem, ConfiguredConfig
    <2>2. CASE config # None
      <3> DEFINE pair == [config |-> config, etag |-> ComputeEtag(config)]
      <3>1. ComputeEtag(config) \in ItemTags
        BY <2>2, Zenon DEF ItemTags
      <3>2. pair \in [config : Configs, etag : ItemTags]
        BY <2>2, <3>1
      <3>3. pair # None
        BY <3>2, ReadsAssumption, Zenon
      <3>4. ConfiguredConfig(config) = pair
        BY <2>2, Zenon DEF ConfiguredConfig
      <3>5. pair.config = config /\ pair.etag = ComputeEtag(config)
        OBVIOUS
      <3> HIDE DEF pair
      <3> QED BY <2>2, <3>3, <3>4, <3>5 DEF ToItem
    <2> QED BY <2>1, <2>2
  <1>2. tag \in ItemTags \cup {None}
    BY Zenon DEF ItemTags
  <1> HIDE DEF tag
  <1>3. item \in OrgItems /\ item.etag = tag /\ item.config = config
    BY <1>1, <1>2 DEF OrgItems
  <1> HIDE DEF item
  <1>4. item \in KeptOrgs
    BY <1>3, Zenon DEF KeptOrgs, tag
  <1> QED BY <1>4 DEF item

LEMMA FromKeptIsConfigured ==
    ASSUME NEW item \in KeptOrgs
    PROVE  FromItem(item).configured = ConfiguredConfig(item.config)
  BY FromKept, Zenon DEF ConfiguredConfig

LEMMA WritesLeaveTheClient ==
    ASSUME PollerInv, client' = client
    PROVE  PollerInv'
  BY Zenon DEF PollerInv, RevalidationIsSound, Tagged

LEMMA WriteKeeps ==
    ASSUME ReadsInv, NEW new, Kept(new), new.org # None, Write(new)
    PROVE  ReadsInv'
  <1>1. primary' = new /\ stale' = stale /\ client' = client /\ puts' \in 0 .. MaxWrites
    BY ReadsAssumption DEF Write, ReadsInv
  <1>2. PollerInv'
    BY <1>1, WritesLeaveTheClient, Zenon DEF ReadsInv
  <1>3. Kept(primary)' /\ Kept(stale)' /\ (stale.org # None => primary.org # None)'
    BY <1>1 DEF ReadsInv, Kept
  <1> QED BY <1>1, <1>2, <1>3, Zenon DEF ReadsInv

LEMMA KeptFields ==
    ASSUME ReadsInv
    PROVE  /\ primary.org \in KeptOrgs \cup {None} /\ primary.group \in GroupItems \cup {None}
           /\ stale.org \in KeptOrgs \cup {None}
           /\ \A o \in KeptOrgs : Kept([primary EXCEPT !.org = o]) /\ [primary EXCEPT !.org = o].org # None
           /\ \A g \in GroupItems \cup {None} :
                 Kept([primary EXCEPT !.group = g]) /\ [primary EXCEPT !.group = g].org = primary.org
  <1>1. \A o \in KeptOrgs : o # None
    BY FromKept, Zenon
  <1> QED BY <1>1 DEF ReadsInv, Kept

LEMMA ServedWrites ==
    ASSUME ReadsInv, NEW item \in ServedItem \ {None}
    PROVE  item \in KeptOrgs /\ primary.org \in KeptOrgs
  BY KeptFields DEF ServedItem, ReadsInv

LEMMA ReadsStep ==
    ASSUME ReadsInv, [ReadsNext]_readVars
    PROVE  ReadsInv'
  <1>1. ASSUME NEW raw \in Headers, Poll(raw)
        PROVE  ReadsInv'
    BY <1>1, PollKeeps, Zenon
  <1>2. ASSUME NEW n \in OrgNames, NEW c \in Configs \cup {None}, WriteNewOrg(n, c)
        PROVE  ReadsInv'
    <2> DEFINE o == ToItem([name |-> n, status |-> "Draft"], ConfiguredConfig(c), {})
    <2>1. o \in KeptOrgs
      BY WrittenItems DEF Orgs
    <2>2. Write([primary EXCEPT !.org = o])
      BY <1>2, Zenon DEF WriteNewOrg
    <2> HIDE DEF o
    <2> QED BY <2>1, <2>2, KeptFields, WriteKeeps, Zenon
  <1>3. ASSUME NEW n \in OrgNames, NEW c \in Configs \cup {None}, WriteUpdate(n, c)
        PROVE  ReadsInv'
    <2>1. PICK item \in ServedItem \ {None} :
            Write([primary EXCEPT !.org =
                     ToItem([item.org EXCEPT !.name = n],
                            ConfiguredConfig(IF c = None THEN item.config ELSE c), @.keys)])
      BY <1>3, Zenon DEF WriteUpdate
    <2> DEFINE config == IF c = None THEN item.config ELSE c
               o == ToItem([item.org EXCEPT !.name = n], ConfiguredConfig(config), primary.org.keys)
    <2>2. item \in KeptOrgs /\ primary.org \in KeptOrgs
      BY ServedWrites, Zenon
    <2>3. config \in Configs \cup {None} /\ item.org \in Orgs /\ primary.org.keys \in SUBSET (0 .. MaxWrites)
      BY <2>2, OrgItemTypes, Zenon
    <2>4. [item.org EXCEPT !.name = n] \in Orgs
      BY <2>3 DEF Orgs
    <2> HIDE DEF config
    <2>5. o \in KeptOrgs
      BY <2>3, <2>4, WrittenItems
    <2>6. Write([primary EXCEPT !.org = o])
      BY <2>1, Zenon DEF config
    <2> HIDE DEF o
    <2> QED BY <2>5, <2>6, KeptFields, WriteKeeps, Zenon
  <1>4. ASSUME WriteStatus
        PROVE  ReadsInv'
    <2>1. PICK item \in ServedItem \ {None} :
            Write([primary EXCEPT !.org =
                     ToItem([item.org EXCEPT !.status = "Active"], FromItem(item).configured, @.keys)])
      BY <1>4, Zenon DEF WriteStatus
    <2> DEFINE o == ToItem([item.org EXCEPT !.status = "Active"], FromItem(item).configured, primary.org.keys)
    <2>2. item \in KeptOrgs /\ primary.org \in KeptOrgs
      BY ServedWrites, Zenon
    <2>3. item.config \in Configs \cup {None} /\ item.org \in Orgs /\ primary.org.keys \in SUBSET (0 .. MaxWrites)
      BY <2>2, OrgItemTypes, Zenon
    <2>4. [item.org EXCEPT !.status = "Active"] \in Orgs
      BY <2>3 DEF Orgs
    <2>5. o \in KeptOrgs
      BY <2>2, <2>3, <2>4, WrittenItems, FromKeptIsConfigured
    <2>6. Write([primary EXCEPT !.org = o])
      BY <2>1, Zenon
    <2> HIDE DEF o
    <2> QED BY <2>5, <2>6, KeptFields, WriteKeeps, Zenon
  <1>5. ASSUME WriteKey
        PROVE  ReadsInv'
    <2> DEFINE o == ToItem(primary.org.org, FromItem(primary.org).configured, primary.org.keys \cup {puts})
    <2>1. primary.org \in KeptOrgs
      BY <1>5, KeptFields, Zenon DEF WriteKey
    <2>2. primary.org.config \in Configs \cup {None} /\ primary.org.org \in Orgs
          /\ primary.org.keys \in SUBSET (0 .. MaxWrites)
      BY <2>1, OrgItemTypes, Zenon
    <2>3. primary.org.keys \cup {puts} \in SUBSET (0 .. MaxWrites)
      BY <2>2, SMTT(20) DEF ReadsInv
    <2>4. o \in KeptOrgs
      BY <2>1, <2>2, <2>3, WrittenItems, FromKeptIsConfigured
    <2>5. Write([primary EXCEPT !.org = o])
      BY <1>5, Zenon DEF WriteKey
    <2> HIDE DEF o
    <2> QED BY <2>4, <2>5, KeptFields, WriteKeeps, Zenon
  <1>6. ASSUME NEW e \in GroupConfigs \cup {None}, WriteGroup(e)
        PROVE  ReadsInv'
    <2> DEFINE g == IF e = None THEN None ELSE EtagedGroup(e)
    <2>1. g \in GroupItems \cup {None}
      BY Zenon DEF GroupItems
    <2>2. Write([primary EXCEPT !.group = g]) /\ primary.org # None
      BY <1>6, Zenon DEF WriteGroup
    <2> HIDE DEF g
    <2>3. Kept([primary EXCEPT !.group = g]) /\ [primary EXCEPT !.group = g].org = primary.org
      BY <2>1, KeptFields, Zenon
    <2>4. [primary EXCEPT !.group = g].org # None
      BY <2>2, <2>3, Zenon
    <2> QED BY <2>2, <2>3, <2>4, WriteKeeps, Zenon
  <1>7. ASSUME CatchUp
        PROVE  ReadsInv'
    <2>1. puts' = puts /\ primary' = primary /\ client' = client
      BY <1>7 DEF CatchUp
    <2>2. PICK i \in DOMAIN primary : stale' = [stale EXCEPT ![i] = primary[i]]
      BY <1>7, Zenon DEF CatchUp
    <2>3. i \in {"org", "group"}
      BY SMTT(20) DEF ReadsInv, Kept
    <2>4. Kept(stale)' /\ (stale.org # None => primary.org # None)'
      BY <2>1, <2>2, <2>3 DEF ReadsInv, Kept
    <2>5. PollerInv'
      BY <2>1, WritesLeaveTheClient, Zenon DEF ReadsInv
    <2> QED BY <2>1, <2>4, <2>5, Zenon DEF ReadsInv, Kept
  <1>8. ASSUME UNCHANGED readVars
        PROVE  ReadsInv'
    <2>1. puts' = puts /\ primary' = primary /\ client' = client /\ stale' = stale
      BY <1>8 DEF readVars
    <2>2. PollerInv'
      BY <2>1, WritesLeaveTheClient, Zenon DEF ReadsInv
    <2> QED BY <2>1, <2>2, Zenon DEF ReadsInv, Kept
  <1> QED BY <1>1, <1>2, <1>3, <1>4, <1>5, <1>6, <1>7, <1>8, Zenon DEF ReadsNext

(* A client that revalidates its copy holds what the control plane served,  *)
(* whatever was written meanwhile and whichever replica answered, for every *)
(* set of configs and groups (get_handler, proxy_config_handler, the        *)
(* groups' get_handler).                                                    *)
THEOREM CopiesStaySound == ReadsSpec => []RevalidationIsSound
  <1>1. ReadsInit => ReadsInv
    <2> SUFFICES ASSUME ReadsInit
                 PROVE  ReadsInv
      OBVIOUS
    <2>1. puts \in 0 .. MaxWrites
      BY ReadsAssumption DEF ReadsInit
    <2>2. Kept(primary) /\ Kept(stale) /\ stale.org = None
      BY DEF ReadsInit, Kept
    <2>3. PICK e \in Endpoints : client = NoClient(e)
      BY Zenon DEF ReadsInit
    <2>4. /\ DOMAIN client = {"endpoint", "copy", "asked", "code", "from"}
          /\ client.endpoint = e /\ client.copy = None /\ client.code = 0
      BY <2>3 DEF NoClient
    <2>5. client.code # 500 /\ client.code # 200 /\ client.code # 304
      BY <2>4
    <2>6. PollerInv
      BY <2>4, <2>5, Zenon DEF PollerInv, RevalidationIsSound
    <2> QED BY <2>1, <2>2, <2>6, Zenon DEF ReadsInv
  <1>2. ReadsInv /\ [ReadsNext]_readVars => ReadsInv'
    BY ReadsStep
  <1>3. ReadsInv => RevalidationIsSound
    BY Zenon DEF ReadsInv, PollerInv
  <1> QED BY <1>1, <1>2, <1>3, PTL DEF ReadsSpec
=============================================================================
