---------------------------- MODULE DecisionCache -----------------------------
(***************************************************************************)
(* The decisions of VpPolicyEngine (authz/src/engine.rs) and the two tiers *)
(* that remember them: an LRU with a time to live in every proxy (L1,      *)
(* cache.rs) and a Redis that the proxies share (L2, tiered_cache.rs).     *)
(*                                                                         *)
(* Time is counted in ticks.  A decision carries, for the properties only, *)
(* the request it answers and its age since it was made.                   *)
(***************************************************************************)
EXTENDS Integers, Sequences, FiniteSets

CONSTANTS
    Instances,   \* the proxies
    Slots,       \* the evaluations that may run at the same time
    Queries,     \* records with user, tenant and groups (a sequence)
    Capacity,    \* cache_max_entries
    TTL,         \* cache_ttl, in ticks
    Second,      \* a second, in ticks
    Delay,       \* how many ticks an answer or a SETEX is under way
    MaxWrites,   \* how many SETEX are under way
    Modes,       \* the circumstances to explore, by name; a mode has
                 \*   tiered:    is L2 configured?
                 \*   instances: the proxies that are asked
                 \*   slots:     the evaluations that run at the same time
                 \*   queries:   what they ask
                 \*   changes:   how often the policies change
                 \*   errors:    how often a call fails
    None

ASSUME ConstantsAssumption ==
    /\ Capacity \in Nat \ {0}
    /\ TTL \in Nat
    /\ Second \in Nat \ {0}
    /\ Delay \in Nat
    /\ \A m \in DOMAIN Modes :
          /\ Modes[m].tiered \in BOOLEAN
          /\ Modes[m].instances \subseteq Instances
          /\ Modes[m].slots \subseteq Slots
          /\ Modes[m].queries \subseteq Queries
          /\ Modes[m].changes \in Nat
          /\ Modes[m].errors \in Nat

\* What Verified Permissions is asked about: build_vp_request and
\* build_vp_entities send the groups as the set of the user's parents.
Asked(q) ==
    [user |-> q.user, tenant |-> q.tenant, groups |-> {q.groups[i] : i \in DOMAIN q.groups}]

Occurrences(q, g) == Cardinality({i \in DOMAIN q.groups : q.groups[i] = g})

\* build_cache_key: equal exactly when the groups are equal once sorted.
CacheKey(q) ==
    [user |-> q.user, tenant |-> q.tenant,
     groups |-> [g \in {q.groups[i] : i \in DOMAIN q.groups} |-> Occurrences(q, g)]]

Keys == {CacheKey(q) : q \in Queries}
Requests == {Asked(q) : q \in Queries}

\* SETEX takes whole seconds, at least one.
L2TTL == (IF TTL < Second THEN 1 ELSE TTL \div Second) * Second

VARIABLES
    mode,     \* the circumstances of this behaviour
    policy,   \* what Verified Permissions decides, per request
    l1,       \* per proxy and key, the cached decision or None
    recent,   \* per proxy, the keys of L1, the most recently used first
    l2,       \* per key, the decision in Redis or None
    calls,    \* per slot, the evaluation that runs in it
    writes,   \* the SETEX under way
    changes,  \* how often the policies changed
    errors    \* how often a call failed

vars == <<mode, policy, l1, recent, l2, calls, writes, changes, errors>>

Tiered == Modes[mode].tiered
-----------------------------------------------------------------------------
Decision(asked, verdict) == [asked |-> asked, verdict |-> verdict, age |-> 0]

Idle == [at |-> "idle", instance |-> None, query |-> None, held |-> None, waited |-> 0]

Init ==
    /\ mode \in DOMAIN Modes
    /\ policy = [a \in Requests |-> "deny"]
    /\ l1 = [i \in Instances |-> [k \in Keys |-> None]]
    /\ recent = [i \in Instances |-> << >>]
    /\ l2 = [k \in Keys |-> None]
    /\ calls = [c \in Slots |-> Idle]
    /\ writes = {}
    /\ changes = 0
    /\ errors = 0

Without(s, k) == SelectSeq(s, LAMBDA x : x # k)

\* The least recently used key goes when there are too many.
Kept(order) == SubSeq(order, 1, IF Len(order) > Capacity THEN Capacity ELSE Len(order))

\* LruCache::put: the key becomes the most recently used one.
Put(i, k, d) ==
    LET kept == Kept(<<k>> \o Without(recent[i], k))
    IN /\ recent' = [recent EXCEPT ![i] = kept]
       /\ l1' = [l1 EXCEPT ![i] = [x \in Keys |->
                    IF x = k THEN [decision |-> d, left |-> TTL]
                    ELSE IF \E j \in DOMAIN kept : kept[j] = x THEN l1[i][x]
                    ELSE None]]

Goto(c, at, held) ==
    calls' = [calls EXCEPT ![c].at = at, ![c].held = held, ![c].waited = 0]

Return(c) == calls' = [calls EXCEPT ![c] = Idle]
-----------------------------------------------------------------------------
\* Mutant: elapsed() <= ttl
UsableOneLonger(e) == e # None /\ e.left >= 0

\* elapsed() < ttl
Usable(e) == e # None /\ e.left > 0

\* evaluate: AuthzCache::get.  A usable entry is served and becomes the most
\* recent, an expired one goes.  (A query without a tenant is denied before.)
Evaluate(c, i, q) ==
    LET k == CacheKey(q)
    IN /\ calls[c] = Idle
       /\ \/ /\ Usable(l1[i][k])
             /\ recent' = [recent EXCEPT ![i] = <<k>> \o Without(@, k)]
             /\ UNCHANGED <<l1, calls>>
          \/ /\ ~Usable(l1[i][k])
             /\ calls' = [calls EXCEPT ![c] =
                    [at |-> IF Tiered THEN "get" ELSE "ask", instance |-> i, query |-> q,
                     held |-> None, waited |-> 0]]
             /\ recent' = [recent EXCEPT ![i] = Without(@, k)]
             /\ l1' = [l1 EXCEPT ![i][k] = None]
       /\ UNCHANGED <<policy, l2, writes, changes, errors>>

Key(c) == CacheKey(calls[c].query)

\* Redis executes the GET: its answer is under way.
RedisGet(c) ==
    /\ calls[c].at = "get"
    /\ Goto(c, "got", IF Usable(l2[Key(c)]) THEN l2[Key(c)].decision ELSE None)
    /\ UNCHANGED <<policy, l1, recent, l2, writes, changes, errors>>

\* Mutant: a hit is inserted into both tiers.
HitInsertsBoth(c) ==
    /\ calls[c].at = "got"
    /\ calls[c].held # None
    /\ Cardinality(writes) < MaxWrites
    /\ Put(calls[c].instance, Key(c), calls[c].held)
    /\ writes' = writes \cup {[by |-> c, key |-> Key(c), decision |-> calls[c].held, waited |-> 0]}
    /\ Return(c)
    /\ UNCHANGED <<policy, l2, changes, errors>>

\* A hit is inserted into L1 and served.
Hit(c) ==
    /\ calls[c].at = "got"
    /\ calls[c].held # None
    /\ Put(calls[c].instance, Key(c), calls[c].held)
    /\ Return(c)
    /\ UNCHANGED <<policy, l2, writes, changes, errors>>

\* A miss asks Verified Permissions.
Miss(c) ==
    /\ calls[c].at = "got"
    /\ calls[c].held = None
    /\ Goto(c, "ask", None)
    /\ UNCHANGED <<policy, l1, recent, l2, writes, changes, errors>>

\* So does a GET that fails or whose answer does not parse.
GetFails(c) ==
    /\ calls[c].at \in {"get", "got"}
    /\ errors < Modes[mode].errors
    /\ errors' = errors + 1
    /\ Goto(c, "ask", None)
    /\ UNCHANGED <<policy, l1, recent, l2, writes, changes>>

\* Verified Permissions decides: its answer is under way.
Decide(c) ==
    /\ calls[c].at = "ask"
    /\ LET asked == Asked(calls[c].query)
       IN Goto(c, "decided", Decision(asked, policy[asked]))
    /\ UNCHANGED <<policy, l1, recent, l2, writes, changes, errors>>

\* TieredCache::insert: L1 at once, L2 by a task that is not waited for.
Insert(c, d) ==
    /\ Put(calls[c].instance, Key(c), d)
    /\ Tiered => Cardinality(writes) < MaxWrites
    /\ writes' = IF Tiered
                 THEN writes \cup {[by |-> c, key |-> Key(c), decision |-> d, waited |-> 0]}
                 ELSE writes

\* call_vp gets an answer.
Answer(c) ==
    /\ calls[c].at = "decided"
    /\ Insert(c, calls[c].held)
    /\ Return(c)
    /\ UNCHANGED <<policy, l2, changes, errors>>

\* call_vp gets an SDK error: a deny, which is cached as well.
AnswerFails(c) ==
    /\ calls[c].at \in {"ask", "decided"}
    /\ errors < Modes[mode].errors
    /\ errors' = errors + 1
    /\ LET d == Decision(Asked(calls[c].query), "error")
       IN Insert(c, d)
    /\ Return(c)
    /\ UNCHANGED <<policy, l2, changes>>

\* The caller goes away: the future is dropped at its await.
Cancel(c) ==
    /\ calls[c] # Idle
    /\ calls' = [calls EXCEPT ![c] = Idle]
    /\ UNCHANGED <<policy, l1, recent, l2, writes, changes, errors>>

\* Redis executes a SETEX, in whatever order.
Setex(w) ==
    /\ l2' = [l2 EXCEPT ![w.key] = [decision |-> w.decision, left |-> L2TTL]]
    /\ writes' = writes \ {w}
    /\ UNCHANGED <<policy, l1, recent, calls, changes, errors>>

\* A SETEX fails, which is only logged.
SetexFails(w) ==
    /\ errors < Modes[mode].errors
    /\ errors' = errors + 1
    /\ writes' = writes \ {w}
    /\ UNCHANGED <<policy, l1, recent, l2, calls, changes>>

\* An administrator changes what is allowed.
ChangePolicy(a) ==
    /\ changes < Modes[mode].changes
    /\ changes' = changes + 1
    /\ policy' = [policy EXCEPT ![a] = IF @ = "allow" THEN "deny" ELSE "allow"]
    /\ UNCHANGED <<l1, recent, l2, calls, writes, errors>>

\* No decision that is still served is older than this.
Bound == IF Tiered THEN TTL + L2TTL + 3 * Delay ELSE TTL + Delay

\* Ages beyond the bound are not told apart.
Older(d) == [d EXCEPT !.age = IF @ > Bound THEN @ ELSE @ + 1]

\* The age of an expired entry no longer matters.
Aged(e) == IF Usable(e) THEN [decision |-> Older(e.decision), left |-> e.left - 1] ELSE e

UnderWay(c) == calls[c].at \in {"got", "decided"} /\ calls[c].held # None

\* A call whose answer, and a SETEX that, is under way for one more tick.
CallWaits(call) == [call EXCEPT !.held = Older(@), !.waited = @ + 1]
WriteWaits(w) == [w EXCEPT !.decision = Older(@), !.waited = @ + 1]

\* A tick passes; nothing is under way for longer than Delay.
Tick ==
    /\ \A c \in Slots : UnderWay(c) => calls[c].waited < Delay
    /\ \A w \in writes : w.waited < Delay
    /\ l1' = [i \in Instances |-> [k \in Keys |-> Aged(l1[i][k])]]
    /\ l2' = [k \in Keys |-> Aged(l2[k])]
    /\ calls' = [c \in Slots |-> IF UnderWay(c) THEN CallWaits(calls[c]) ELSE calls[c]]
    /\ writes' = {WriteWaits(w) : w \in writes}
    /\ UNCHANGED <<policy, recent, changes, errors>>

Step(c) == RedisGet(c) \/ Hit(c) \/ Miss(c) \/ Decide(c) \/ Answer(c)

Next ==
    /\ \/ \E c \in Modes[mode].slots :
             \/ \E i \in Modes[mode].instances, q \in Modes[mode].queries : Evaluate(c, i, q)
             \/ Step(c)
             \/ GetFails(c) \/ AnswerFails(c) \/ Cancel(c)
       \/ \E w \in writes : Setex(w) \/ SetexFails(w)
       \/ \E q \in Modes[mode].queries : ChangePolicy(Asked(q))
       \/ Tick
    /\ UNCHANGED mode

Spec == Init /\ [][Next]_vars

\* Time passes, and what is under way arrives.
Fairness ==
    /\ WF_vars(Tick /\ UNCHANGED mode)
    /\ \A c \in Slots : WF_vars(Step(c) /\ UNCHANGED mode)
    /\ WF_vars(\E w \in writes : Setex(w) /\ UNCHANGED mode)

FairSpec == Spec /\ Fairness
-----------------------------------------------------------------------------
Verdicts == {"allow", "deny", "error"}
Decisions == [asked : Requests, verdict : Verdicts, age : Nat]
Entries == [decision : Decisions, left : Nat]

ASSUME NoneAssumption == None \notin Decisions

\* The variables have their types, and L1 holds at most Capacity keys,
\* exactly those whose order of use it knows.
TypeOK ==
    /\ mode \in DOMAIN Modes
    /\ policy \in [Requests -> {"allow", "deny"}]
    /\ l1 \in [Instances -> [Keys -> Entries \cup {None}]]
    /\ l2 \in [Keys -> Entries \cup {None}]
    /\ calls \in [Slots -> [at : {"idle", "get", "got", "ask", "decided"},
                            instance : Instances \cup {None}, query : Queries \cup {None},
                            held : Decisions \cup {None}, waited : Nat]]
    /\ writes \subseteq [by : Slots, key : Keys, decision : Decisions, waited : Nat]
    /\ changes \in Nat
    /\ errors \in Nat
    /\ \A i \in Instances :
          /\ recent[i] \in Seq(Keys)
          /\ Len(recent[i]) = Cardinality({k \in Keys : l1[i][k] # None})
          /\ Len(recent[i]) <= Capacity
          /\ \A k \in Keys : l1[i][k] # None <=> \E j \in DOMAIN recent[i] : recent[i][j] = k

\* The decisions an evaluation of q on proxy i may serve: a usable entry of
\* L1, or what has come from Redis or Verified Permissions.
Servable(i, q) ==
    {l1[i][k].decision : k \in {x \in {CacheKey(q)} : Usable(l1[i][x])}}
    \cup {calls[c].held : c \in {x \in Slots : /\ calls[x].held # None
                                               /\ calls[x].instance = i /\ calls[x].query = q}}

\* What an evaluation serves was decided for the same user, tenant and groups,
\* although the cache key sorts the groups; and it is never older than both
\* times to live and the three messages that may carry it (answer, SETEX, GET),
\* although a hit in L2 starts a new time to live in L1.
ServedIsFresh ==
    \A i \in Instances, q \in Queries : \A d \in Servable(i, q) :
       d.asked = Asked(q) /\ (d.age <= Delay \/ d.age < Bound)

Agrees(d) == d.verdict = policy[d.asked]

\* Once policies stop changing and calls stop failing, every decision that can
\* still be served is eventually the policy's, on every proxy: neither an error
\* that was cached as a deny nor an old decision survives.
Settles ==
    <>[](/\ \A i \in Instances, k \in Keys : Usable(l1[i][k]) => Agrees(l1[i][k].decision)
         /\ \A k \in Keys : Usable(l2[k]) => Agrees(l2[k].decision))
=============================================================================
