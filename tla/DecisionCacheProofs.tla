------------------------- MODULE DecisionCacheProofs --------------------------
(***************************************************************************)
(* No decision is served beyond the bound on its age, for any number of    *)
(* proxies, evaluations and queries and any time to live and delay.        *)
(*                                                                         *)
(* The argument adds what is left of a life to the age: the sum is fixed   *)
(* when an entry is stored, and a tick moves one unit from one to the      *)
(* other.  Messages lose at most Delay on the way.                         *)
(***************************************************************************)
EXTENDS DecisionCache, TLAPS

-----------------------------------------------------------------------------
(* Types.                                                                  *)

Calls == [at : {"idle", "get", "got", "ask", "decided"},
          instance : Instances \cup {None}, query : Queries \cup {None},
          held : Decisions \cup {None}, waited : Nat]
Writes == [by : Slots, key : Keys, decision : Decisions, waited : Nat]

Shapes ==
    /\ mode \in DOMAIN Modes
    /\ policy \in [Requests -> {"allow", "deny"}]
    /\ l1 \in [Instances -> [Keys -> Entries \cup {None}]]
    /\ l2 \in [Keys -> Entries \cup {None}]
    /\ calls \in [Slots -> Calls]
    /\ \A c \in Slots : calls[c].at # "idle" =>
          calls[c].instance \in Instances /\ calls[c].query \in Queries
    /\ writes \subseteq Writes

LEMMA L2TTLType == L2TTL \in Nat
  <1>1. CASE TTL < Second
    BY <1>1, ConstantsAssumption DEF L2TTL
  <1>2. CASE ~(TTL < Second)
    <2>1. TTL \div Second \in Nat
      BY <1>2, ConstantsAssumption
    <2>2. \A a, b \in Nat : a * b \in Nat
      OBVIOUS
    <2> QED BY <1>2, <2>1, <2>2, ConstantsAssumption, Zenon DEF L2TTL
  <1> QED BY <1>1, <1>2, Zenon

LEMMA DecisionType ==
    ASSUME NEW q \in Queries, NEW v \in Verdicts
    PROVE  Decision(Asked(q), v) \in Decisions /\ CacheKey(q) \in Keys /\ Asked(q) \in Requests
  BY Zenon DEF Decision, Decisions, Requests, Keys

\* A put stores an entry and keeps or drops the others.
LEMMA PutFacts ==
    ASSUME l1 \in [Instances -> [Keys -> Entries \cup {None}]],
           NEW i \in Instances, NEW k \in Keys, NEW d \in Decisions, Put(i, k, d)
    PROVE  /\ l1' \in [Instances -> [Keys -> Entries \cup {None}]]
           /\ l1'[i][k] = [decision |-> d, left |-> TTL]
           /\ \A j \in Instances, x \in Keys :
                 \/ j = i /\ x = k
                 \/ l1'[j][x] = l1[j][x]
                 \/ l1'[j][x] = None
  <1>1. [decision |-> d, left |-> TTL] \in Entries
    BY ConstantsAssumption, Zenon DEF Entries
  <1> QED BY <1>1, Zenon DEF Put

\* A call that goes on keeps its proxy and its query.
LEMMA GotoFacts ==
    ASSUME calls \in [Slots -> Calls], NEW c \in Slots,
           NEW at \in {"idle", "get", "got", "ask", "decided"},
           NEW held \in Decisions \cup {None}, Goto(c, at, held)
    PROVE  /\ calls' \in [Slots -> Calls]
           /\ calls'[c].at = at /\ calls'[c].held = held /\ calls'[c].waited = 0
           /\ calls'[c].instance = calls[c].instance /\ calls'[c].query = calls[c].query
           /\ \A d \in Slots \ {c} : calls'[d] = calls[d]
  BY ZenonT(30) DEF Goto, Calls

LEMMA ReturnFacts ==
    ASSUME calls \in [Slots -> Calls], NEW c \in Slots, Return(c)
    PROVE  /\ calls' \in [Slots -> Calls]
           /\ calls'[c] = Idle
           /\ \A d \in Slots \ {c} : calls'[d] = calls[d]
  <1>1. Idle \in Calls
    BY Zenon DEF Idle, Calls
  <1> QED BY <1>1, Zenon DEF Return
-----------------------------------------------------------------------------
(* Lives.                                                                  *)

\* An entry is absent or lives until a fixed age.
LivesUntil(e, bound) == (e # None /\ e.left > 0) => e.decision.age + e.left <= bound

\* What Redis holds: an answer and a SETEX have carried it.
RedisBound == 2 * Delay + L2TTL

\* A call holds what Redis had, or what was just decided, or nothing.
Holds(call) ==
    /\ call.at \in {"got", "decided"} \/ call.held = None
    /\ call.at = "decided" => call.held \in Decisions
    /\ call.at = "decided" => call.held.age <= call.waited /\ call.waited <= Delay
    /\ call.at = "got" /\ call.held # None =>
          call.held.age < RedisBound + call.waited /\ call.waited <= Delay

\* A SETEX carries what an answer brought.
Carries(w) == w.waited <= Delay /\ w.decision.age <= Delay + w.waited

LifeInv ==
    /\ Shapes
    /\ \A i \in Instances, k \in Keys : LivesUntil(l1[i][k], Bound)
    /\ \A k \in Keys : LivesUntil(l2[k], RedisBound)
    /\ \A c \in Slots : Holds(calls[c]) /\ (~Tiered => calls[c].at \notin {"get", "got"})
    /\ \A w \in writes : Carries(w)

LEMMA InitLife == Init => LifeInv
  <1> SUFFICES ASSUME Init PROVE LifeInv
    BY Zenon
  <1>1. Idle \in Calls /\ Idle.at = "idle" /\ Idle.held = None
    BY Zenon DEF Idle, Calls
  <1>2. Shapes
    BY <1>1, Zenon DEF Init, Shapes
  <1>3. \A c \in Slots : Holds(calls[c]) /\ calls[c].at = "idle"
    BY <1>1, Zenon DEF Init, Holds
  <1>4. \A k \in Keys : l2[k] = None /\ \A i \in Instances : l1[i][k] = None
    BY Zenon DEF Init
  <1> QED BY <1>2, <1>3, <1>4, Zenon DEF LifeInv, LivesUntil, Init

\* Numbers that the bounds are made of.
LEMMA Bounds ==
    ASSUME mode \in DOMAIN Modes
    PROVE  /\ TTL \in Nat /\ Delay \in Nat /\ L2TTL \in Nat /\ RedisBound \in Nat /\ Bound \in Nat
           /\ Delay + TTL <= Bound
           /\ Tiered => RedisBound + Delay + TTL = Bound
  BY ConstantsAssumption, L2TTLType DEF RedisBound, Bound, Tiered

\* A step that only moves the call c.
LEMMA CallStep ==
    ASSUME LifeInv, NEW c \in Slots, calls' \in [Slots -> Calls],
           \A d \in Slots \ {c} : calls'[d] = calls[d],
           UNCHANGED <<mode, policy, l1, l2, writes>>,
           calls'[c].at # "idle" => calls'[c].instance \in Instances /\ calls'[c].query \in Queries,
           Holds(calls'[c]),
           ~Tiered => calls'[c].at \notin {"get", "got"}
    PROVE  LifeInv'
  <1>1. Shapes'
    BY Zenon DEF LifeInv, Shapes
  <1>2. Tiered' = Tiered /\ Bound' = Bound
    BY Zenon DEF Tiered, Bound
  <1>3. \A d \in Slots : Holds(calls'[d]) /\ (~Tiered => calls'[d].at \notin {"get", "got"})
    BY Zenon DEF LifeInv
  <1>4. \A w \in writes' : Carries(w)
    BY Zenon DEF LifeInv
  <1>5. /\ \A i \in Instances, k \in Keys : LivesUntil(l1'[i][k], Bound)
        /\ \A k \in Keys : LivesUntil(l2'[k], RedisBound)
    BY Zenon DEF LifeInv
  <1> QED BY <1>1, <1>2, <1>3, <1>4, <1>5, Zenon DEF LifeInv, Holds, Carries, LivesUntil

\* A step that returns from the call c with d, storing it in L1.
LEMMA StoreStep ==
    ASSUME LifeInv, NEW c \in Slots, Return(c), UNCHANGED <<mode, policy, l2>>,
           NEW i \in Instances, NEW k \in Keys, NEW d \in Decisions, Put(i, k, d),
           d.age + TTL <= Bound,
           writes' \subseteq Writes, \A w \in writes' : Carries(w)
    PROVE  LifeInv'
  <1>1. calls \in [Slots -> Calls] /\ l1 \in [Instances -> [Keys -> Entries \cup {None}]]
    BY Zenon DEF LifeInv, Shapes
  <1>2. /\ calls' \in [Slots -> Calls] /\ calls'[c] = Idle
        /\ \A x \in Slots \ {c} : calls'[x] = calls[x]
    BY <1>1, ReturnFacts, Zenon
  <1>3. /\ l1' \in [Instances -> [Keys -> Entries \cup {None}]]
        /\ l1'[i][k] = [decision |-> d, left |-> TTL]
        /\ \A j \in Instances, x \in Keys :
              \/ j = i /\ x = k
              \/ l1'[j][x] = l1[j][x]
              \/ l1'[j][x] = None
    BY <1>1, PutFacts, Zenon
  <1>4. Shapes'
    BY <1>2, <1>3, SMTT(20) DEF LifeInv, Shapes, Idle
  <1>5. Tiered' = Tiered /\ Bound' = Bound
    BY Zenon DEF Tiered, Bound
  <1>6. \A x \in Slots : Holds(calls'[x]) /\ (~Tiered => calls'[x].at \notin {"get", "got"})
    <2>1. Holds(Idle) /\ Idle.at = "idle"
      BY Zenon DEF Holds, Idle
    <2> QED BY <1>2, <2>1, Zenon DEF LifeInv
  <1>7. \A j \in Instances, x \in Keys : LivesUntil(l1'[j][x], Bound)
    BY <1>3 DEF LifeInv, LivesUntil
  <1>8. \A x \in Keys : LivesUntil(l2'[x], RedisBound)
    BY Zenon DEF LifeInv
  <1> QED BY <1>4, <1>5, <1>6, <1>7, <1>8, Zenon DEF LifeInv, Holds, Carries, LivesUntil

\* Fields of a message that waits for another tick.
LEMMA CallFields ==
    ASSUME NEW x \in Calls, Older(x.held) \in Decisions
    PROVE  /\ CallWaits(x) \in Calls
           /\ CallWaits(x).held = Older(x.held) /\ CallWaits(x).waited = x.waited + 1
           /\ CallWaits(x).at = x.at
           /\ CallWaits(x).instance = x.instance /\ CallWaits(x).query = x.query
  <1>1. /\ x = [at |-> x.at, instance |-> x.instance, query |-> x.query, held |-> x.held,
                waited |-> x.waited]
        /\ x.at \in {"idle", "get", "got", "ask", "decided"}
        /\ x.instance \in Instances \cup {None} /\ x.query \in Queries \cup {None}
        /\ x.waited \in Nat
    BY Zenon DEF Calls
  <1>2. CallWaits(x) = [at |-> x.at, instance |-> x.instance, query |-> x.query,
                        held |-> Older(x.held), waited |-> x.waited + 1]
    <2> DEFINE h == Older(x.held)
               n == x.waited + 1
    <2>1. CallWaits(x) = [x EXCEPT !.held = h, !.waited = n]
      BY Zenon DEF CallWaits
    <2> HIDE DEF h, n
    <2>2. CallWaits(x) = [at |-> x.at, instance |-> x.instance, query |-> x.query,
                          held |-> h, waited |-> n]
      BY <1>1, <2>1, Zenon
    <2> QED BY <2>2, Zenon DEF h, n
  <1> QED BY <1>1, <1>2 DEF Calls

LEMMA WriteFields ==
    ASSUME NEW x \in Writes, Older(x.decision) \in Decisions
    PROVE  /\ WriteWaits(x) \in Writes
           /\ WriteWaits(x).decision = Older(x.decision) /\ WriteWaits(x).waited = x.waited + 1
  <1>1. /\ x = [by |-> x.by, key |-> x.key, decision |-> x.decision, waited |-> x.waited]
        /\ x.by \in Slots /\ x.key \in Keys /\ x.waited \in Nat
    BY Zenon DEF Writes
  <1>2. WriteWaits(x) = [by |-> x.by, key |-> x.key, decision |-> Older(x.decision),
                         waited |-> x.waited + 1]
    <2> DEFINE d == Older(x.decision)
               n == x.waited + 1
    <2>1. WriteWaits(x) = [x EXCEPT !.decision = d, !.waited = n]
      BY Zenon DEF WriteWaits
    <2> HIDE DEF d, n
    <2>2. WriteWaits(x) = [by |-> x.by, key |-> x.key, decision |-> d, waited |-> n]
      BY <1>1, <2>1, Zenon
    <2> QED BY <2>2, Zenon DEF d, n
  <1> QED BY <1>1, <1>2 DEF Writes

LEMMA TickLife == LifeInv /\ Tick /\ UNCHANGED mode => LifeInv'
  <1> SUFFICES ASSUME LifeInv, Tick, UNCHANGED mode PROVE LifeInv'
    BY Zenon
  <1>1. Shapes /\ Tiered' = Tiered /\ Bound' = Bound
    BY Zenon DEF LifeInv, Tiered, Bound
  <1>2. /\ Delay \in Nat /\ TTL \in Nat /\ RedisBound \in Nat /\ Bound \in Nat
    BY <1>1, Bounds, Zenon DEF Shapes
  <1>3. \A d \in Decisions : Older(d) \in Decisions /\ Older(d).age <= d.age + 1
    BY <1>2 DEF Older, Decisions
  <1>4. ASSUME NEW e \in Entries \cup {None}, NEW bound \in Nat, LivesUntil(e, bound)
        PROVE  Aged(e) \in Entries \cup {None} /\ LivesUntil(Aged(e), bound)
    <2>1. CASE ~Usable(e)
      BY <1>4, <2>1, Zenon DEF Aged
    <2>2. CASE Usable(e)
      <3>1. e \in Entries /\ e.decision \in Decisions /\ e.left \in Nat /\ e.left > 0
            /\ e.decision.age \in Nat
        BY <1>4, <2>2, Zenon DEF Usable, Entries, Decisions
      <3>2. Older(e.decision) \in Decisions /\ Older(e.decision).age <= e.decision.age + 1
            /\ Older(e.decision).age \in Nat
        BY <1>3, <3>1, Zenon DEF Decisions
      <3>3. Aged(e) = [decision |-> Older(e.decision), left |-> e.left - 1]
        BY <2>2, Zenon DEF Aged
      <3>4. e.decision.age + e.left <= bound
        BY <1>4, <2>2, <3>1, Zenon DEF LivesUntil, Usable
      <3> QED BY <3>1, <3>2, <3>3, <3>4 DEF Entries, LivesUntil
    <2> QED BY <2>1, <2>2, Zenon
  <1>5. /\ l1' \in [Instances -> [Keys -> Entries \cup {None}]]
        /\ \A i \in Instances, k \in Keys : LivesUntil(l1'[i][k], Bound)
    BY <1>1, <1>2, <1>4, Zenon DEF Tick, LifeInv, Shapes
  <1>6. /\ l2' \in [Keys -> Entries \cup {None}]
        /\ \A k \in Keys : LivesUntil(l2'[k], RedisBound)
    BY <1>1, <1>2, <1>4, SMTT(20) DEF Tick, LifeInv, Shapes
  <1>7. ASSUME NEW c \in Slots
        PROVE  /\ calls'[c] \in Calls /\ Holds(calls'[c])
               /\ calls'[c].at = calls[c].at
               /\ calls'[c].instance = calls[c].instance /\ calls'[c].query = calls[c].query
    <2>1. calls[c] \in Calls /\ Holds(calls[c])
      BY <1>1, Zenon DEF LifeInv, Shapes
    <2>2. CASE ~UnderWay(c)
      BY <2>1, <2>2, Zenon DEF Tick
    <2>3. CASE UnderWay(c)
      <3>1. calls'[c] = CallWaits(calls[c])
            /\ calls[c].waited < Delay
        BY <2>3, Zenon DEF Tick
      <3>2. calls[c].held \in Decisions /\ calls[c].waited \in Nat /\ calls[c].held.age \in Nat
        BY <2>1, <2>3, Zenon DEF UnderWay, Calls, Decisions
      <3>3. /\ Older(calls[c].held) \in Decisions
            /\ Older(calls[c].held).age <= calls[c].held.age + 1
            /\ Older(calls[c].held).age \in Nat
        BY <1>3, <3>2, Zenon DEF Decisions
      <3>4. /\ calls'[c].held = Older(calls[c].held) /\ calls'[c].waited = calls[c].waited + 1
            /\ calls'[c].at = calls[c].at
            /\ calls'[c].instance = calls[c].instance /\ calls'[c].query = calls[c].query
            /\ calls'[c] \in Calls
        BY <2>1, <3>1, <3>3, CallFields, Zenon
      <3>5. Holds(calls'[c])
        <4>1. /\ calls[c].at = "got" => calls[c].held.age < RedisBound + calls[c].waited
              /\ calls[c].at = "decided" => calls[c].held.age <= calls[c].waited
              /\ calls[c].at \in {"got", "decided"}
          BY <2>1, <2>3, Zenon DEF Holds, UnderWay
        <4>2. calls'[c].waited <= Delay
          BY <1>2, <3>1, <3>2, <3>4
        <4>3. calls[c].at = "got" => calls'[c].held.age < RedisBound + calls'[c].waited
          BY <1>2, <3>2, <3>3, <3>4, <4>1
        <4>4. calls[c].at = "decided" => calls'[c].held.age <= calls'[c].waited
          BY <3>2, <3>3, <3>4, <4>1
        <4> QED BY <3>3, <3>4, <4>1, <4>2, <4>3, <4>4, Zenon DEF Holds
      <3> QED BY <3>4, <3>5, Zenon
    <2> QED BY <2>2, <2>3, Zenon
  <1>8. calls' \in [Slots -> Calls]
    BY <1>7, Zenon DEF Tick
  <1>9. writes' \subseteq Writes /\ \A w \in writes' : Carries(w)
    <2> SUFFICES ASSUME NEW v \in writes' PROVE v \in Writes /\ Carries(v)
      BY Zenon
    <2>1. PICK w \in writes : v = WriteWaits(w)
      BY Zenon DEF Tick
    <2>2. w \in Writes /\ Carries(w) /\ w.waited < Delay
      BY <1>1, Zenon DEF Tick, LifeInv, Shapes
    <2>3. w.decision \in Decisions /\ w.waited \in Nat /\ w.decision.age \in Nat
      BY <2>2, Zenon DEF Writes, Decisions
    <2>4. /\ Older(w.decision) \in Decisions /\ Older(w.decision).age <= w.decision.age + 1
          /\ Older(w.decision).age \in Nat
      BY <1>3, <2>3, Zenon DEF Decisions
    <2>5. v \in Writes /\ v.decision = Older(w.decision) /\ v.waited = w.waited + 1
      BY <2>1, <2>2, <2>4, WriteFields, Zenon
    <2> QED BY <1>2, <2>2, <2>3, <2>4, <2>5 DEF Carries
  <1>10. Shapes'
    BY <1>1, <1>5, <1>6, <1>7, <1>8, <1>9, Zenon DEF Shapes, Tick
  <1>11. \A c \in Slots : Holds(calls'[c]) /\ (~Tiered => calls'[c].at \notin {"get", "got"})
    BY <1>7, Zenon DEF LifeInv
  <1> QED BY <1>1, <1>5, <1>6, <1>9, <1>10, <1>11, Zenon DEF LifeInv, Holds, Carries, LivesUntil
-----------------------------------------------------------------------------
(* The steps of an evaluation.                                             *)

\* What a call that is not idle has.
LEMMA Running ==
    ASSUME LifeInv, NEW c \in Slots, calls[c].at # "idle"
    PROVE  /\ calls[c] \in Calls /\ calls[c].instance \in Instances
           /\ calls[c].query \in Queries /\ Key(c) \in Keys
           /\ Asked(calls[c].query) \in Requests
           /\ \A v \in Verdicts : Decision(Asked(calls[c].query), v) \in Decisions
  <1>1. calls[c] \in Calls /\ calls[c].instance \in Instances /\ calls[c].query \in Queries
    BY Zenon DEF LifeInv, Shapes
  <1>2. "deny" \in Verdicts
    BY Zenon DEF Verdicts
  <1> QED BY <1>1, <1>2, DecisionType, Zenon DEF Key

LEMMA EvaluateLife ==
    ASSUME LifeInv, UNCHANGED mode, NEW c \in Slots, NEW i \in Instances, NEW q \in Queries,
           Evaluate(c, i, q)
    PROVE  LifeInv'
  <1>1. CASE UNCHANGED <<l1, calls>>
    <2>1. Tiered' = Tiered /\ Bound' = Bound
      BY Zenon DEF Tiered, Bound
    <2>2. UNCHANGED <<mode, policy, l1, l2, calls, writes>>
      BY <1>1, Zenon DEF Evaluate
    <2>3. Shapes'
      BY <2>2, Zenon DEF LifeInv, Shapes
    <2> QED BY <2>1, <2>2, <2>3, Zenon DEF LifeInv, Holds, Carries, LivesUntil
  <1>2. CASE ~UNCHANGED <<l1, calls>>
    <2> DEFINE k == CacheKey(q)
               new == [at |-> IF Tiered THEN "get" ELSE "ask", instance |-> i, query |-> q,
                       held |-> None, waited |-> 0]
    <2>1. /\ calls' = [calls EXCEPT ![c] = new] /\ l1' = [l1 EXCEPT ![i][k] = None]
          /\ UNCHANGED <<mode, policy, l2, writes>>
      BY <1>2, Zenon DEF Evaluate
    <2>2. k \in Keys
      BY DecisionType, Zenon DEF Verdicts, Keys
    <2>3. new \in Calls /\ Holds(new) /\ (~Tiered => new.at \notin {"get", "got"})
          /\ new.instance = i /\ new.query = q
      BY Zenon DEF Calls, Holds
    <2> HIDE DEF k, new
    <2>4. /\ calls' \in [Slots -> Calls] /\ calls'[c] = new
          /\ \A d \in Slots \ {c} : calls'[d] = calls[d]
      BY <2>1, <2>3, Zenon DEF LifeInv, Shapes
    <2>5. /\ l1' \in [Instances -> [Keys -> Entries \cup {None}]]
          /\ \A j \in Instances, x \in Keys : l1'[j][x] = l1[j][x] \/ l1'[j][x] = None
      BY <2>1, <2>2, Zenon DEF LifeInv, Shapes
    <2>6. Shapes'
      BY <2>1, <2>3, <2>4, <2>5 DEF LifeInv, Shapes
    <2>7. Tiered' = Tiered /\ Bound' = Bound
      BY Zenon DEF Tiered, Bound
    <2>8. \A x \in Slots : Holds(calls'[x]) /\ (~Tiered => calls'[x].at \notin {"get", "got"})
      BY <2>3, <2>4, Zenon DEF LifeInv
    <2>9. \A j \in Instances, x \in Keys : LivesUntil(l1'[j][x], Bound)
      BY <2>5, Zenon DEF LifeInv, LivesUntil
    <2>10. (\A x \in Keys : LivesUntil(l2'[x], RedisBound)) /\ \A w \in writes' : Carries(w)
      BY <2>1, Zenon DEF LifeInv
    <2> QED BY <2>6, <2>7, <2>8, <2>9, <2>10, Zenon DEF LifeInv, Holds, Carries, LivesUntil
  <1> QED BY <1>1, <1>2, Zenon

\* The steps that change nothing but the call.
LEMMA CallsLife ==
    ASSUME LifeInv, UNCHANGED mode, NEW c \in Slots,
           RedisGet(c) \/ Miss(c) \/ GetFails(c) \/ Decide(c) \/ Cancel(c)
    PROVE  LifeInv'
  <1>1. calls \in [Slots -> Calls] /\ mode \in DOMAIN Modes
    BY Zenon DEF LifeInv, Shapes
  <1>2. UNCHANGED <<mode, policy, l1, l2, writes>>
    BY Zenon DEF RedisGet, Miss, GetFails, Decide, Cancel
  <1>3. Delay \in Nat /\ RedisBound \in Nat
    BY <1>1, Bounds, Zenon
  <1>4. CASE RedisGet(c)
    <2> DEFINE held == IF Usable(l2[Key(c)]) THEN l2[Key(c)].decision ELSE None
    <2>1. calls[c].at = "get" /\ Goto(c, "got", held)
      BY <1>4, Zenon DEF RedisGet
    <2>2. Key(c) \in Keys /\ calls[c].instance \in Instances /\ calls[c].query \in Queries
      BY <2>1, Running, Zenon
    <2>3. l2[Key(c)] \in Entries \cup {None} /\ LivesUntil(l2[Key(c)], RedisBound)
      BY <2>2, Zenon DEF LifeInv, Shapes
    <2>4. held \in Decisions \cup {None} /\ (held # None => held.age < RedisBound)
      <3>1. CASE ~Usable(l2[Key(c)])
        BY <3>1, Zenon
      <3>2. CASE Usable(l2[Key(c)])
        <4>1. /\ l2[Key(c)] \in Entries /\ held = l2[Key(c)].decision
              /\ held \in Decisions /\ l2[Key(c)].left \in Nat /\ l2[Key(c)].left > 0
          BY <2>3, <3>2, Zenon DEF Usable, Entries
        <4>2. held.age \in Nat /\ held.age + l2[Key(c)].left <= RedisBound
          BY <2>3, <3>2, <4>1, Zenon DEF LivesUntil, Usable, Decisions
        <4> HIDE DEF held
        <4> QED BY <1>3, <4>1, <4>2
      <3> QED BY <3>1, <3>2, Zenon
    <2> HIDE DEF held
    <2>5. /\ calls' \in [Slots -> Calls]
          /\ calls'[c].at = "got" /\ calls'[c].held = held /\ calls'[c].waited = 0
          /\ calls'[c].instance = calls[c].instance /\ calls'[c].query = calls[c].query
          /\ \A d \in Slots \ {c} : calls'[d] = calls[d]
      BY <1>1, <2>1, <2>4, GotoFacts, Zenon
    <2>6. held # None => held.age \in Nat
      BY <2>4, Zenon DEF Decisions
    <2>7. Holds(calls'[c])
      BY <1>3, <2>4, <2>5, <2>6 DEF Holds
    <2>8. Tiered
      BY <2>1, Zenon DEF LifeInv
    <2> QED BY <1>2, <2>2, <2>5, <2>7, <2>8, CallStep, Zenon
  <1>5. CASE Miss(c) \/ GetFails(c)
    <2>1. calls[c].at \in {"get", "got"} /\ Goto(c, "ask", None)
      BY <1>5, SMTT(20) DEF Miss, GetFails
    <2>2. calls[c].instance \in Instances /\ calls[c].query \in Queries
      BY <2>1, Running, Zenon
    <2>3. /\ calls' \in [Slots -> Calls] /\ calls'[c].at = "ask" /\ calls'[c].held = None
          /\ calls'[c].instance = calls[c].instance /\ calls'[c].query = calls[c].query
          /\ \A d \in Slots \ {c} : calls'[d] = calls[d]
      BY <1>1, <2>1, GotoFacts, Zenon
    <2>4. Holds(calls'[c])
      BY <2>3, Zenon DEF Holds
    <2> QED BY <1>2, <2>2, <2>3, <2>4, CallStep, Zenon
  <1>6. CASE Decide(c)
    <2> DEFINE a == Asked(calls[c].query)
               d == Decision(a, policy[a])
    <2>1. calls[c].at = "ask" /\ Goto(c, "decided", d)
      BY <1>6, Zenon DEF Decide
    <2>2. /\ calls[c].instance \in Instances /\ calls[c].query \in Queries
          /\ a \in Requests /\ \A v \in Verdicts : Decision(a, v) \in Decisions
      BY <2>1, Running, Zenon
    <2>3. d \in Decisions
      BY <2>2, Zenon DEF LifeInv, Shapes, Verdicts
    <2>4. d.age = 0
      BY Zenon DEF Decision
    <2> HIDE DEF d
    <2>5. /\ calls' \in [Slots -> Calls]
          /\ calls'[c].at = "decided" /\ calls'[c].held = d /\ calls'[c].waited = 0
          /\ calls'[c].instance = calls[c].instance /\ calls'[c].query = calls[c].query
          /\ \A x \in Slots \ {c} : calls'[x] = calls[x]
      BY <1>1, <2>1, <2>3, GotoFacts, Zenon
    <2>6. Holds(calls'[c])
      BY <1>3, <2>3, <2>4, <2>5 DEF Holds
    <2> QED BY <1>2, <2>2, <2>5, <2>6, CallStep, SMTT(20)
  <1>7. CASE Cancel(c)
    <2>1. /\ calls' \in [Slots -> Calls] /\ calls'[c] = Idle
          /\ \A d \in Slots \ {c} : calls'[d] = calls[d]
      BY <1>1, <1>7, ReturnFacts, Zenon DEF Cancel, Return
    <2>2. calls'[c].at = "idle" /\ Holds(calls'[c])
      BY <2>1 DEF Idle, Holds
    <2> QED BY <1>2, <2>1, <2>2, CallStep, Zenon
  <1> QED BY <1>4, <1>5, <1>6, <1>7, Zenon

\* The steps that end an evaluation and store what it found.
LEMMA StoresLife ==
    ASSUME LifeInv, UNCHANGED mode, NEW c \in Slots, Hit(c) \/ Answer(c) \/ AnswerFails(c)
    PROVE  LifeInv'
  <1>1. writes \subseteq Writes /\ (\A w \in writes : Carries(w)) /\ mode \in DOMAIN Modes
    BY Zenon DEF LifeInv, Shapes
  <1>2. UNCHANGED <<mode, policy, l2>> /\ Return(c) /\ calls[c].at # "idle"
    BY Zenon DEF Hit, Answer, AnswerFails
  <1>3. /\ TTL \in Nat /\ Delay \in Nat /\ RedisBound \in Nat /\ Bound \in Nat
        /\ Delay + TTL <= Bound
        /\ Tiered => RedisBound + Delay + TTL = Bound
    BY <1>1, Bounds, SMTT(20)
  <1>4. /\ calls[c] \in Calls /\ calls[c].instance \in Instances /\ Key(c) \in Keys
        /\ \A v \in Verdicts : Decision(Asked(calls[c].query), v) \in Decisions
        /\ Holds(calls[c])
    BY <1>2, Running, Zenon DEF LifeInv
  <1>5. CASE Hit(c)
    <2>1. /\ calls[c].at = "got" /\ calls[c].held \in Decisions /\ calls[c].held # None
          /\ Put(calls[c].instance, Key(c), calls[c].held) /\ writes' = writes /\ Tiered
          /\ calls[c].waited \in Nat
      BY <1>4, <1>5, Zenon DEF Hit, Calls, LifeInv
    <2>2. calls[c].held.age \in Nat /\ calls[c].held.age < RedisBound + calls[c].waited
          /\ calls[c].waited <= Delay
      BY <1>4, <2>1, Zenon DEF Holds, Decisions
    <2>3. calls[c].held.age + TTL <= Bound
      BY <1>3, <2>1, <2>2
    <2> QED BY <1>1, <1>2, <1>4, <2>1, <2>3, StoreStep, ZenonT(30)
  <1>6. ASSUME NEW d \in Decisions, d.age \in Nat, d.age <= Delay, Insert(c, d)
        PROVE  LifeInv'
    <2> DEFINE w == [by |-> c, key |-> Key(c), decision |-> d, waited |-> 0]
    <2>1. Put(calls[c].instance, Key(c), d) /\ writes' \subseteq writes \cup {w}
      BY <1>6, Zenon DEF Insert
    <2>2. w \in Writes /\ Carries(w)
      BY <1>3, <1>4, <1>6 DEF Writes, Carries
    <2>3. writes' \subseteq Writes /\ \A v \in writes' : Carries(v)
      BY <1>1, <2>1, <2>2, Zenon
    <2>4. d.age + TTL <= Bound
      BY <1>3, <1>6
    <2> QED BY <1>2, <1>4, <2>1, <2>3, <2>4, StoreStep, Zenon
  <1>7. CASE Answer(c)
    <2>1. calls[c].at = "decided" /\ Insert(c, calls[c].held)
      BY <1>7, Zenon DEF Answer
    <2>2. calls[c].held \in Decisions /\ calls[c].waited \in Nat
      BY <1>4, <2>1, Zenon DEF Calls, Holds
    <2>3. /\ calls[c].held.age \in Nat /\ calls[c].held.age <= calls[c].waited
          /\ calls[c].waited <= Delay
      BY <1>4, <2>1, <2>2, Zenon DEF Holds, Decisions
    <2>4. calls[c].held.age <= Delay
      BY <1>3, <2>2, <2>3
    <2> QED BY <1>6, <2>1, <2>2, <2>3, <2>4, Zenon
  <1>8. CASE AnswerFails(c)
    <2> DEFINE d == Decision(Asked(calls[c].query), "error")
    <2>1. Insert(c, d)
      BY <1>8, Zenon DEF AnswerFails
    <2>2. d \in Decisions
      BY <1>4, Zenon DEF Verdicts
    <2>3. d.age = 0
      BY Zenon DEF Decision
    <2> HIDE DEF d
    <2> QED BY <1>3, <1>6, <2>1, <2>2, <2>3, SMTT(20)
  <1> QED BY <1>5, <1>7, <1>8, Zenon

\* What Redis and the administrators do.
LEMMA OthersLife ==
    ASSUME LifeInv, UNCHANGED mode,
           \/ \E w \in writes : Setex(w) \/ SetexFails(w)
           \/ \E q \in Modes[mode].queries : ChangePolicy(Asked(q))
    PROVE  LifeInv'
  <1>1. /\ Shapes /\ Tiered' = Tiered /\ Bound' = Bound
        /\ mode \in DOMAIN Modes /\ writes \subseteq Writes
    BY Zenon DEF LifeInv, Shapes, Tiered, Bound
  <1>2. Delay \in Nat /\ L2TTL \in Nat
    BY <1>1, Bounds, Zenon
  <1>3. UNCHANGED <<l1, calls>>
    BY Zenon DEF Setex, SetexFails, ChangePolicy
  <1>4. ASSUME l2' \in [Keys -> Entries \cup {None}], \A k \in Keys : LivesUntil(l2'[k], RedisBound),
               writes' \subseteq writes, policy' \in [Requests -> {"allow", "deny"}]
        PROVE  LifeInv'
    <2>1. Shapes'
      BY <1>1, <1>3, <1>4, Zenon DEF Shapes
    <2>2. \A v \in writes' : Carries(v)
      BY <1>4, Zenon DEF LifeInv
    <2> QED BY <1>1, <1>3, <1>4, <2>1, <2>2, SMTT(20) DEF LifeInv, Holds, Carries, LivesUntil
  <1>5. ASSUME NEW w \in writes, Setex(w) PROVE LifeInv'
    <2> DEFINE e == [decision |-> w.decision, left |-> L2TTL]
    <2>1. /\ w.key \in Keys /\ w.decision \in Decisions /\ w.waited \in Nat
          /\ w.waited <= Delay /\ w.decision.age <= Delay + w.waited
      BY <1>1, Zenon DEF LifeInv, Carries, Writes
    <2>2. w.decision.age \in Nat
      BY <2>1, Zenon DEF Decisions
    <2>3. e \in Entries /\ e.decision = w.decision /\ e.left = L2TTL
      BY <1>2, <2>1, Zenon DEF Entries
    <2>4. w.decision.age + L2TTL <= RedisBound
      BY <1>2, <2>1, <2>2 DEF RedisBound
    <2> HIDE DEF e
    <2>5. LivesUntil(e, RedisBound)
      BY <2>3, <2>4, Zenon DEF LivesUntil
    <2>6. l2' = [l2 EXCEPT ![w.key] = e] /\ writes' \subseteq writes /\ policy' = policy
      BY <1>5, Zenon DEF Setex, e
    <2>7. l2' \in [Keys -> Entries \cup {None}]
      BY <1>1, <2>3, <2>6, Zenon DEF Shapes
    <2>8. \A k \in Keys : LivesUntil(l2'[k], RedisBound)
      BY <1>1, <2>1, <2>5, <2>6, Zenon DEF LifeInv, Shapes
    <2> QED BY <1>1, <1>4, <2>6, <2>7, <2>8, Zenon DEF Shapes
  <1>6. ASSUME NEW w \in writes, SetexFails(w) PROVE LifeInv'
    <2>1. l2' = l2 /\ writes' \subseteq writes /\ policy' = policy
      BY <1>6, Zenon DEF SetexFails
    <2> QED BY <1>1, <1>4, <2>1, Zenon DEF LifeInv, Shapes
  <1>7. ASSUME NEW a, ChangePolicy(a) PROVE LifeInv'
    <2>1. l2' = l2 /\ writes' = writes
      BY <1>7, Zenon DEF ChangePolicy
    <2>2. policy' \in [Requests -> {"allow", "deny"}]
      BY <1>1, <1>7, Zenon DEF ChangePolicy, Shapes
    <2> QED BY <1>1, <1>4, <2>1, <2>2, Zenon DEF LifeInv, Shapes
  <1> QED BY <1>5, <1>6, <1>7, Zenon

LEMMA NextLife == LifeInv /\ [Next]_vars => LifeInv'
  <1> SUFFICES ASSUME LifeInv, [Next]_vars PROVE LifeInv'
    BY Zenon
  <1>1. CASE UNCHANGED vars
    <2>1. UNCHANGED <<mode, policy, l1, l2, calls, writes>>
      BY <1>1, Zenon DEF vars
    <2>2. Tiered' = Tiered /\ Bound' = Bound
      BY <2>1, Zenon DEF Tiered, Bound
    <2>3. Shapes'
      BY <2>1, Zenon DEF LifeInv, Shapes
    <2> QED BY <2>1, <2>2, <2>3, Zenon DEF LifeInv, Holds, Carries, LivesUntil
  <1>2. CASE Next
    <2>1. /\ UNCHANGED mode /\ Modes[mode].slots \subseteq Slots
          /\ Modes[mode].instances \subseteq Instances /\ Modes[mode].queries \subseteq Queries
      BY <1>2, ConstantsAssumption, Zenon DEF Next, LifeInv, Shapes
    <2>2. CASE \E c \in Modes[mode].slots :
                  \/ \E i \in Modes[mode].instances, q \in Modes[mode].queries : Evaluate(c, i, q)
                  \/ Step(c) \/ GetFails(c) \/ AnswerFails(c) \/ Cancel(c)
      <3>1. PICK c \in Slots :
                  \/ \E i \in Instances, q \in Queries : Evaluate(c, i, q)
                  \/ Step(c) \/ GetFails(c) \/ AnswerFails(c) \/ Cancel(c)
        BY <2>1, <2>2, Zenon
      <3>2. CASE \E i \in Instances, q \in Queries : Evaluate(c, i, q)
        BY <2>1, <3>2, EvaluateLife, Zenon
      <3>3. CASE Step(c) \/ GetFails(c) \/ AnswerFails(c) \/ Cancel(c)
        BY <2>1, <3>3, CallsLife, StoresLife, Zenon DEF Step
      <3> QED BY <3>1, <3>2, <3>3, Zenon
    <2>3. CASE \/ \E w \in writes : Setex(w) \/ SetexFails(w)
               \/ \E q \in Modes[mode].queries : ChangePolicy(Asked(q))
      BY <2>1, <2>3, OthersLife, Zenon
    <2>4. CASE Tick
      BY <2>1, <2>4, TickLife, Zenon
    <2> QED BY <1>2, <2>2, <2>3, <2>4, Zenon DEF Next
  <1> QED BY <1>1, <1>2, Zenon

LEMMA LifeServes ==
    ASSUME LifeInv, NEW i \in Instances, NEW q \in Queries, NEW d \in Servable(i, q)
    PROVE  d.age <= Delay \/ d.age < Bound
  <1>1. /\ TTL \in Nat /\ Delay \in Nat /\ RedisBound \in Nat /\ Bound \in Nat
        /\ Tiered => RedisBound + Delay + TTL = Bound
    BY Bounds, Zenon DEF LifeInv, Shapes
  <1>2. CASE d \in {l1[i][k].decision : k \in {x \in {CacheKey(q)} : Usable(l1[i][x])}}
    <2> DEFINE e == l1[i][CacheKey(q)]
    <2>1. Usable(e) /\ d = e.decision
      BY <1>2, Zenon
    <2>2. CacheKey(q) \in Keys
      BY Zenon DEF Keys
    <2>3. e \in Entries \cup {None} /\ LivesUntil(e, Bound)
      BY <2>2, Zenon DEF LifeInv, Shapes
    <2> HIDE DEF e
    <2>4. /\ e.left \in Nat /\ e.left > 0 /\ d \in Decisions /\ d.age + e.left <= Bound
      BY <2>1, <2>3, Zenon DEF Usable, LivesUntil, Entries
    <2>5. d.age \in Nat
      BY <2>4, Zenon DEF Decisions
    <2> QED BY <1>1, <2>4, <2>5
  <1>3. CASE \E c \in Slots : calls[c].held # None /\ d = calls[c].held
    <2>1. PICK c \in Slots : calls[c].held # None /\ d = calls[c].held
      BY <1>3, Zenon
    <2>2. /\ calls[c] \in Calls /\ Holds(calls[c])
          /\ calls[c].at = "got" => Tiered
      BY Zenon DEF LifeInv, Shapes
    <2>3. d \in Decisions /\ calls[c].waited \in Nat
      BY <2>1, <2>2, Zenon DEF Calls
    <2>4. d.age \in Nat
      BY <2>3, Zenon DEF Decisions
    <2>5. CASE calls[c].at = "got"
      <3>1. d.age < RedisBound + calls[c].waited /\ calls[c].waited <= Delay /\ Tiered
        BY <2>1, <2>2, <2>5, Zenon DEF Holds
      <3> QED BY <1>1, <2>3, <2>4, <3>1
    <2>6. CASE calls[c].at = "decided"
      <3>1. d.age <= calls[c].waited /\ calls[c].waited <= Delay
        BY <2>1, <2>2, <2>6, SMTT(20) DEF Holds
      <3> QED BY <1>1, <2>3, <2>4, <3>1
    <2> QED BY <2>1, <2>2, <2>5, <2>6, Zenon DEF Holds
  <1> QED BY <1>2, <1>3, Zenon DEF Servable

-----------------------------------------------------------------------------
(* Whose decision it is.                                                   *)

\* A decision that every query with this key may be served.
For(k, d) == \A q \in Queries : CacheKey(q) = k => d.asked = Asked(q)

OwnInv ==
    /\ \A i \in Instances, k \in Keys : l1[i][k] # None => For(k, l1[i][k].decision)
    /\ \A k \in Keys : l2[k] # None => For(k, l2[k].decision)
    /\ \A c \in Slots : calls[c].held # None => For(Key(c), calls[c].held)
    /\ \A w \in writes : For(w.key, w.decision)

\* The key distinguishes whatever Verified Permissions is asked about.
LEMMA KeyTellsApart ==
    ASSUME NEW p \in Queries, NEW q \in Queries, CacheKey(p) = CacheKey(q)
    PROVE  Asked(p) = Asked(q)
  <1>1. /\ CacheKey(p).user = CacheKey(q).user /\ CacheKey(p).tenant = CacheKey(q).tenant
        /\ DOMAIN CacheKey(p).groups = DOMAIN CacheKey(q).groups
    BY Zenon
  <1> QED BY <1>1, SMTT(20) DEF CacheKey, Asked

LEMMA DecisionIsFor ==
    ASSUME NEW q \in Queries, NEW v
    PROVE  For(CacheKey(q), Decision(Asked(q), v))
  BY KeyTellsApart, Zenon DEF For, Decision

LEMMA OlderIsFor ==
    ASSUME NEW d \in Decisions, NEW k, For(k, d)
    PROVE  For(k, Older(d))
  <1>1. Older(d).asked = d.asked
    BY Zenon DEF Older, Decisions
  <1> QED BY <1>1, Zenon DEF For

\* A call that goes on with nothing, or with a decision for its query.
LEMMA GotoOwn ==
    ASSUME LifeInv, OwnInv, NEW c \in Slots, NEW at \in {"idle", "get", "got", "ask", "decided"},
           NEW held \in Decisions \cup {None}, Goto(c, at, held),
           held # None => For(Key(c), held), UNCHANGED <<l1, l2, writes>>
    PROVE  OwnInv'
  <1>1. /\ calls'[c].held = held /\ calls'[c].query = calls[c].query
        /\ \A d \in Slots \ {c} : calls'[d] = calls[d]
    BY GotoFacts DEF LifeInv, Shapes
  <1>2. \A d \in Slots : calls'[d].held # None => For(CacheKey(calls'[d].query), calls'[d].held)
    BY <1>1, Zenon DEF OwnInv, Key
  <1> QED BY <1>2 DEF OwnInv, Key, For

\* An evaluation that ends and stores a decision for its query.
LEMMA StoreOwn ==
    ASSUME LifeInv, OwnInv, NEW c \in Slots, calls[c].at # "idle", NEW d \in Decisions,
           For(Key(c), d), Put(calls[c].instance, Key(c), d), Return(c), UNCHANGED l2,
           \A w \in writes' : For(w.key, w.decision)
    PROVE  OwnInv'
  <1>1. calls[c].instance \in Instances /\ Key(c) \in Keys
    BY Running, Zenon
  <1> DEFINE i == calls[c].instance
             k == Key(c)
  <1>2. /\ l1'[i][k] = [decision |-> d, left |-> TTL]
        /\ \A j \in Instances, x \in Keys :
              \/ j = i /\ x = k
              \/ l1'[j][x] = l1[j][x]
              \/ l1'[j][x] = None
    BY <1>1, PutFacts, Zenon DEF LifeInv, Shapes
  <1>3. calls'[c].held = None /\ \A x \in Slots \ {c} : calls'[x] = calls[x]
    BY ReturnFacts DEF LifeInv, Shapes, Idle
  <1>4. \A x \in Slots : calls'[x].held # None => For(CacheKey(calls'[x].query), calls'[x].held)
    BY <1>3, Zenon DEF OwnInv, Key
  <1> HIDE DEF i, k
  <1>5. For(k, d)
    BY SMTT(20) DEF k
  <1>6. \A j \in Instances, x \in Keys : l1'[j][x] # None => For(x, l1'[j][x].decision)
    BY <1>2, <1>5, SMTT(20) DEF OwnInv
  <1> QED BY <1>4, <1>6, Zenon DEF OwnInv, Key, For

LEMMA TickOwn ==
    ASSUME LifeInv, OwnInv, Tick
    PROVE  OwnInv'
  <1>1. ASSUME NEW k \in Keys, NEW e \in Entries \cup {None}, e # None => For(k, e.decision)
        PROVE  Aged(e) # None => For(k, Aged(e).decision)
    <2>1. CASE ~Usable(e)
      BY <1>1, <2>1, Zenon DEF Aged
    <2>2. CASE Usable(e)
      <3>1. e.decision \in Decisions /\ For(k, e.decision)
        BY <1>1, <2>2, Zenon DEF Usable, Entries
      <3>2. Aged(e).decision = Older(e.decision)
        BY <2>2, Zenon DEF Aged
      <3> QED BY <3>1, <3>2, OlderIsFor, Zenon
    <2> QED BY <2>1, <2>2, Zenon
  <1>2. \A i \in Instances, k \in Keys : l1'[i][k] # None => For(k, l1'[i][k].decision)
    BY <1>1, Zenon DEF LifeInv, Shapes, OwnInv, Tick
  <1>3. \A k \in Keys : l2'[k] # None => For(k, l2'[k].decision)
    BY <1>1, Zenon DEF LifeInv, Shapes, OwnInv, Tick
  <1>4. ASSUME NEW c \in Slots, calls'[c].held # None
        PROVE  For(CacheKey(calls'[c].query), calls'[c].held)
    <2>1. calls[c] \in Calls
      BY SMTT(20) DEF LifeInv, Shapes
    <2>2. CASE ~UnderWay(c)
      BY <1>4, <2>2, Zenon DEF Tick, OwnInv, Key
    <2>3. CASE UnderWay(c)
      <3>1. calls'[c] = CallWaits(calls[c]) /\ calls[c].held \in Decisions
        BY <2>1, <2>3, SMTT(20) DEF Tick, UnderWay, Calls
      <3>2. For(CacheKey(calls[c].query), Older(calls[c].held))
        BY <2>3, <3>1, OlderIsFor, Zenon DEF OwnInv, UnderWay, Key
      <3>3. Older(calls[c].held) \in Decisions
        BY <3>1, Bounds DEF Older, Decisions
      <3>4. calls'[c].held = Older(calls[c].held) /\ calls'[c].query = calls[c].query
        BY <2>1, <3>1, <3>3, CallFields
      <3> QED BY <3>2, <3>4, SMTT(20)
    <2> QED BY <2>2, <2>3, Zenon
  <1>5. ASSUME NEW v \in writes' PROVE For(v.key, v.decision)
    <2>1. PICK w \in writes : v = WriteWaits(w)
      BY Zenon DEF Tick
    <2>2. w \in Writes /\ w.decision \in Decisions /\ For(w.key, w.decision)
      BY Zenon DEF LifeInv, Shapes, Writes, OwnInv
    <2>3. v.key = w.key /\ v.decision = Older(w.decision)
      BY <2>1, <2>2, Zenon DEF WriteWaits, Writes
    <2> QED BY <2>2, <2>3, OlderIsFor, Zenon
  <1> QED BY <1>2, <1>3, <1>4, <1>5, Zenon DEF OwnInv, Key, For

LEMMA CallsOwn ==
    ASSUME LifeInv, OwnInv, NEW c \in Slots,
           \/ \E i \in Instances, q \in Queries : Evaluate(c, i, q)
           \/ RedisGet(c) \/ Miss(c) \/ GetFails(c) \/ Decide(c) \/ Cancel(c)
    PROVE  OwnInv'
  <1>1. ASSUME NEW i \in Instances, NEW q \in Queries, Evaluate(c, i, q) PROVE OwnInv'
    <2>1. CacheKey(q) \in Keys /\ UNCHANGED <<l2, writes>>
      BY <1>1, SMTT(20) DEF Evaluate, Keys
    <2>2. \A j \in Instances, x \in Keys : l1'[j][x] = l1[j][x] \/ l1'[j][x] = None
      BY <1>1, <2>1, SMTT(20) DEF Evaluate, LifeInv, Shapes
    <2>3. \A x \in Slots : calls'[x] = calls[x] \/ calls'[x].held = None
      BY <1>1 DEF Evaluate, LifeInv, Shapes
    <2>4. \A x \in Slots : calls'[x].held # None => For(CacheKey(calls'[x].query), calls'[x].held)
      BY <2>3, Zenon DEF OwnInv, Key
    <2>5. \A j \in Instances, x \in Keys : l1'[j][x] # None => For(x, l1'[j][x].decision)
      BY <2>2, Zenon DEF OwnInv
    <2> QED BY <2>1, <2>4, <2>5, Zenon DEF OwnInv, Key, For
  <1>2. CASE RedisGet(c)
    <2>1. Key(c) \in Keys
      BY <1>2, Running, Zenon DEF RedisGet
    <2>2. l2[Key(c)] \in Entries \cup {None} /\ (l2[Key(c)] # None => For(Key(c), l2[Key(c)].decision))
      BY <2>1, ZenonT(30) DEF LifeInv, Shapes, OwnInv
    <2> DEFINE held == IF Usable(l2[Key(c)]) THEN l2[Key(c)].decision ELSE None
    <2>3. held \in Decisions \cup {None} /\ (held # None => For(Key(c), held))
      BY <2>2, Zenon DEF Usable, Entries
    <2>4. Goto(c, "got", held) /\ UNCHANGED <<l1, l2, writes>>
      BY <1>2, Zenon DEF RedisGet
    <2> HIDE DEF held
    <2> QED BY <2>3, <2>4, GotoOwn, Zenon
  <1>3. CASE Miss(c) \/ GetFails(c)
    <2>1. Goto(c, "ask", None) /\ UNCHANGED <<l1, l2, writes>>
      BY <1>3, Zenon DEF Miss, GetFails
    <2> QED BY <2>1, GotoOwn, Zenon
  <1>4. CASE Decide(c)
    <2> DEFINE a == Asked(calls[c].query)
               d == Decision(a, policy[a])
    <2>1. Goto(c, "decided", d) /\ UNCHANGED <<l1, l2, writes>> /\ calls[c].at # "idle"
      BY <1>4, Zenon DEF Decide
    <2>2. calls[c].query \in Queries /\ a \in Requests /\ \A v \in Verdicts : Decision(a, v) \in Decisions
      BY <2>1, Running, Zenon
    <2>3. d \in Decisions
      BY <2>2, Zenon DEF LifeInv, Shapes, Verdicts
    <2>4. For(Key(c), d)
      BY <2>2, DecisionIsFor, SMTT(20) DEF Key
    <2> HIDE DEF d
    <2> QED BY <2>1, <2>3, <2>4, GotoOwn, Zenon
  <1>5. CASE Cancel(c)
    <2>1. calls'[c].held = None /\ \A x \in Slots \ {c} : calls'[x] = calls[x]
      BY <1>5, ReturnFacts, Zenon DEF Cancel, Return, LifeInv, Shapes, Idle
    <2>2. \A x \in Slots : calls'[x].held # None => For(CacheKey(calls'[x].query), calls'[x].held)
      BY <2>1, Zenon DEF OwnInv, Key
    <2>3. UNCHANGED <<l1, l2, writes>>
      BY <1>5, Zenon DEF Cancel
    <2> QED BY <2>2, <2>3, Zenon DEF OwnInv, Key
  <1> QED BY <1>1, <1>2, <1>3, <1>4, <1>5, Zenon

LEMMA StoresOwn ==
    ASSUME LifeInv, OwnInv, NEW c \in Slots, Hit(c) \/ Answer(c) \/ AnswerFails(c)
    PROVE  OwnInv'
  <1>1. calls[c].at # "idle" /\ Return(c) /\ UNCHANGED l2
    BY Zenon DEF Hit, Answer, AnswerFails
  <1>2. /\ calls[c] \in Calls /\ Holds(calls[c]) /\ calls[c].query \in Queries
        /\ \A v \in Verdicts : Decision(Asked(calls[c].query), v) \in Decisions
    BY <1>1, Running, Zenon DEF LifeInv
  <1>3. calls[c].held # None => calls[c].held \in Decisions /\ For(Key(c), calls[c].held)
    BY <1>2, Zenon DEF Calls, OwnInv
  <1>4. CASE Hit(c)
    <2>1. calls[c].held # None /\ Put(calls[c].instance, Key(c), calls[c].held) /\ writes' = writes
      BY <1>4, Zenon DEF Hit
    <2> QED BY <1>1, <1>3, <2>1, StoreOwn, Zenon DEF OwnInv
  <1>5. ASSUME NEW d \in Decisions, For(Key(c), d), Insert(c, d) PROVE OwnInv'
    <2> DEFINE w == [by |-> c, key |-> Key(c), decision |-> d, waited |-> 0]
    <2>1. Put(calls[c].instance, Key(c), d) /\ writes' \subseteq writes \cup {w}
      BY <1>5, Zenon DEF Insert
    <2>2. w.key = Key(c) /\ w.decision = d
      BY SMTT(20)
    <2> HIDE DEF w
    <2>3. \A v \in writes' : For(v.key, v.decision)
      BY <1>5, <2>1, <2>2, Zenon DEF OwnInv
    <2> QED BY <1>1, <1>5, <2>1, <2>3, StoreOwn, Zenon
  <1>6. CASE Answer(c)
    <2>1. calls[c].at = "decided" /\ Insert(c, calls[c].held)
      BY <1>6, Zenon DEF Answer
    <2>2. calls[c].held \in Decisions
      BY <1>2, <2>1, Zenon DEF Holds
    <2>3. For(Key(c), calls[c].held)
      <3>1. CASE calls[c].held # None
        BY <1>3, <3>1, Zenon
      <3>2. CASE calls[c].held = None
        BY <2>2, <3>2, NoneAssumption, Zenon
      <3> QED BY <3>1, <3>2, Zenon
    <2> QED BY <1>5, <2>1, <2>2, <2>3, Zenon
  <1>7. CASE AnswerFails(c)
    <2> DEFINE d == Decision(Asked(calls[c].query), "error")
    <2>1. Insert(c, d) /\ d \in Decisions
      BY <1>2, <1>7, Zenon DEF AnswerFails, Verdicts
    <2>2. For(Key(c), d)
      BY <1>2, DecisionIsFor, SMTT(20) DEF Key
    <2> HIDE DEF d
    <2> QED BY <1>5, <2>1, <2>2, SMTT(20)
  <1> QED BY <1>4, <1>6, <1>7, Zenon

LEMMA OthersOwn ==
    ASSUME LifeInv, OwnInv,
           \/ \E w \in writes : Setex(w) \/ SetexFails(w)
           \/ \E q \in Queries : ChangePolicy(Asked(q))
    PROVE  OwnInv'
  <1>1. UNCHANGED <<l1, calls>> /\ writes' \subseteq writes
    BY ZenonT(30) DEF Setex, SetexFails, ChangePolicy
  <1>2. \A k \in Keys : l2'[k] # None => For(k, l2'[k].decision)
    <2>1. ASSUME NEW w \in writes, Setex(w)
          PROVE  \A k \in Keys : l2'[k] # None => For(k, l2'[k].decision)
      <3>1. For(w.key, w.decision)
        BY Zenon DEF OwnInv
      <3> QED BY <2>1, <3>1, Zenon DEF Setex, OwnInv, LifeInv, Shapes
    <2>2. CASE UNCHANGED l2
      BY <2>2, Zenon DEF OwnInv
    <2> QED BY <2>1, <2>2, Zenon DEF SetexFails, ChangePolicy
  <1> QED BY <1>1, <1>2 DEF OwnInv, Key, For

LEMMA NextOwn ==
    ASSUME LifeInv, OwnInv, [Next]_vars
    PROVE  OwnInv'
  <1>1. CASE UNCHANGED vars
    BY <1>1 DEF vars, OwnInv, Key, For
  <1>2. CASE Next
    <2>1. /\ Modes[mode].slots \subseteq Slots
          /\ Modes[mode].instances \subseteq Instances /\ Modes[mode].queries \subseteq Queries
      BY ConstantsAssumption, Zenon DEF LifeInv, Shapes
    <2>2. \/ \E c \in Slots :
                \/ \E i \in Instances, q \in Queries : Evaluate(c, i, q)
                \/ Step(c) \/ GetFails(c) \/ AnswerFails(c) \/ Cancel(c)
          \/ \E w \in writes : Setex(w) \/ SetexFails(w)
          \/ \E q \in Queries : ChangePolicy(Asked(q))
          \/ Tick
      BY <1>2, <2>1, Zenon DEF Next
    <2>3. ASSUME NEW c \in Slots,
                 \/ \E i \in Instances, q \in Queries : Evaluate(c, i, q)
                 \/ Step(c) \/ GetFails(c) \/ AnswerFails(c) \/ Cancel(c)
          PROVE  OwnInv'
      BY <2>3, CallsOwn, StoresOwn, Zenon DEF Step
    <2> QED BY <2>2, <2>3, OthersOwn, TickOwn, Zenon
  <1> QED BY <1>1, <1>2, SMTT(20)

LEMMA OwnServes ==
    ASSUME OwnInv, NEW i \in Instances, NEW q \in Queries, NEW d \in Servable(i, q)
    PROVE  d.asked = Asked(q)
  <1>1. CacheKey(q) \in Keys
    BY Zenon DEF Keys
  <1>2. CASE d \in {l1[i][k].decision : k \in {x \in {CacheKey(q)} : Usable(l1[i][x])}}
    BY <1>1, <1>2, SMTT(20) DEF OwnInv, Usable, For
  <1>3. CASE \E c \in Slots : calls[c].held # None /\ calls[c].query = q /\ d = calls[c].held
    BY <1>3 DEF OwnInv, Key, For
  <1> QED BY <1>2, <1>3, Zenon DEF Servable

\* No proxy serves a decision that was made for another user, tenant or set of
\* groups, or one beyond the two times to live and the delays of the messages
\* that carry it: evaluate, TieredCache::get and insert.
THEOREM ServedFresh == Spec => []ServedIsFresh
  <1>1. Init => LifeInv /\ OwnInv
    <2>1. Init => OwnInv
      BY DEF Init, OwnInv, Idle
    <2> QED BY <2>1, InitLife, SMTT(20)
  <1>2. LifeInv /\ OwnInv /\ [Next]_vars => LifeInv' /\ OwnInv'
    BY NextLife, NextOwn, Zenon
  <1>3. LifeInv /\ OwnInv => ServedIsFresh
    BY LifeServes, OwnServes, Zenon DEF ServedIsFresh
  <1> QED BY <1>1, <1>2, <1>3, PTL DEF Spec
=============================================================================
