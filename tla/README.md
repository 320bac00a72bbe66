# ForgeGuard in TLA+

A model of ForgeGuard: the control plane with the event log and everything that
is written through it, the authorization model and the engines that decide by it,
the data plane that enforces the decisions, and the commands that bring a
deployment up. TLC instances check it; TLAPS proofs cover what matters most for
every size. File references are relative to the repository root.

## 1. The system

ForgeGuard keeps a multi-tenant authorization model in a *control plane* and
enforces it in a *data plane* (a proxy, or a middleware inside the customer's
service). The control plane is itself a host of the data plane's pipeline.

| Part | State | Operations | Interacts with |
|---|---|---|---|
| Event log (`event_log.rs`) | counter, events, state items of one organization in DynamoDB | `append`, `append_with_delete`, `events_after`, `latest_revision` | every writer below |
| Organization writes (`handlers/mod.rs`, `lifecycle.rs`, `model_event_store`) | META item: record and signing keys | create, update, activate, suspend, restore | event log, key writes (same item) |
| Request-signing keys (`handlers/keys.rs`, `signing_key.rs`) | key list inside META | generate, revoke, rotate, with a retry loop | organization writes |
| Event-signing key (`ensure_signing_key`), `verify-events` | one item per organization; signed envelopes | read, mint if absent, sign, verify from outside | every first writer, auditors |
| RBAC groups (`handlers/groups`, `model_event_store/groups.rs`) | GROUP# items, USER# rows | create, update, delete with validation and pre-checks | event log, inheritance resolver |
| Inheritance resolver (`authz-core/src/rbac`) | none (a recursive function) | `resolve_inherits` | groups, configuration, control-plane engine |
| Model plane (`handlers/principals`, `promotions`, `events`) | principal and promotion items | upsert, tombstone, list, events cursor with long poll, `fold_at` | event log, organization status |
| Conditional reads (`etag.rs`, read handlers) | a client's copy and its etag | GET with If-None-Match | the writers above |
| In-memory stores (`in_memory.rs`, `store/mod.rs`) | maps, log, read model | the same calls, lock by lock | development deployments |
| Spine, model, embedded engine (`core/src`, `authz-core/src/store`, `engine_cedar`) | versioned models | add, move, write, `decide` link by link | Cedar |
| Decision cache (`authz/src/engine.rs`, `cache.rs`, `tiered_cache.rs`) | L1 LRU per proxy, L2 Redis | evaluate, insert, expiry | Verified Permissions, Redis |
| Pipeline and hosts (`proxy-core`, `proxy`, `forgeguard-axum`) | one call per request | identity, membership, decision, forward or reject | resolvers, engine, sink |
| JWKS cache (`authn/src/jwks.rs`) | keys and their time, two locks | `get_key`, fetch | the token issuer |
| Control-plane service (`app.rs`, `engine_cp`) | route tables, compiled RBAC model | route, resolve, decide, run a handler | pipeline, membership store |
| Policies (`cedar/`, `cli/src/policies`) | a policy store | validate, sync, test | Verified Permissions |
| Configuration and start (`http/src/config*`, `proxy/src/main.rs`) | the running proxy's settings | load, override, validate, build | all of the data plane |
| Seeding (`xtask/…/seed`), user schemas | pools, rows, items | sweep, create, write; schema changes | Cognito, DynamoDB |
| Names (`core/src`) | none | parse, print, derive | everywhere |

What makes it hard:

* *Optimistic appends.* An append reads a counter and then sends one
  transaction over three items; racing appends cancel each other and start
  over; a transaction whose answer is lost may commit later.
* *Read, decide, write in separate awaits.* Handlers read an item, decide, and
  only then append; other requests run in between. Only callers that send
  `X-Fg-If-Revision` are protected by a precondition.
* *Eventually consistent reads.* Some reads set `consistent_read`, others may be
  served by a replica that lags: the gate of most handlers, the list of groups,
  pages of events and of promotions, conditional reads.
* *Shared items.* The META item carries the record and the keys, and each of its
  writers replaces all of it.
* *Caches.* Decisions in two tiers with their own clocks, an asynchronous write
  to the second, errors that are cached like decisions; keys of the issuer behind
  two locks, refreshed by whoever misses.
* *A decision is several awaits.* Identity, membership and policy are answered one
  after the other while their sources change, and the client may go away at any of
  them; a chain of delegation is decided link by link while writers go on.
* *The same thing computed twice.* Flags for a request and for the debug page, the
  check of group nesting, the translation of a query for `policies test` and for the
  proxy, core's walks and the store's.
* *Commands of many calls.* A sync or a seed that fails half-way is run again, or
  beside another one.

## 2. Modules

| Module | Models | Refines / uses |
|---|---|---|
| `AtomicLog` | what a caller of the event log may rely on: one indivisible append, true answers | |
| `EventLog` | `append`, `append_with_delete`: counter read, transaction, cancellation reasons, retries, lost answers, late commits | implements `AtomicLog` |
| `OrgWrites` | the writers of META, await by await | an append is one step, justified by `EventLog` |
| `EventAudit` | event kinds, envelopes, canonical bytes, signatures, stored form, `verify-events` | |
| `Inherits` | what it means that an inheritance resolves | |
| `InheritanceWalker` | `resolve_inherits` and its recursion, step by step | checked against `Inherits` |
| `Groups` | the group handlers | `Inherits` for validation, one-step append |
| `ModelPlane` | principals, promotions, events cursor, minimum revision, `fold_at` | one-step append |
| `ConditionalReads` | the read endpoints, etags, item codecs | |
| `MemoryStore` | the in-memory model store, lock by lock | |
| `Spine` | the tree of org units | |
| `EmbeddedEngine` | the model of one revision with its constructors and mutators, the versioned store, `CedarEngine::decide` | `Spine` |
| `Access` | memberships, delegation, selectors, visibility as recursion | checked against definitions, and against `EmbeddedEngine` |
| `DecisionCache` | `evaluate`, `call_vp`, `AuthzCache`, `TieredCache` | |
| `Options`, `Routes`, `Flags`, `Cors`, `Authn` | matching, flag resolution, CORS, credentials and signatures, as operators | |
| `Pipeline` | `evaluate_pipeline`, one operator per await | `Routes`, `Flags`, `Authn` |
| `DataPlane` | the proxy and the axum layer around concurrent calls of the pipeline | `Pipeline`, `Cors` |
| `JwksCache` | the issuer's keys: lookups, locks, fetches, expiry | |
| `ControlPlane` | route tables, router, compiled model, engine, membership and key stores | composed with `DataPlane` |
| `Names`, `Vocabulary` | parsers, printers, derived identifiers; names written and read back | |
| `Cedar` | policies, their compilation and what the result decides | `Names` |
| `PolicySync` | `policies validate`, `sync` and `test` by several operators | `Cedar`, `Config` |
| `Config`, `Startup` | the configuration file, its validation, the started proxy | `Routes`, `Cors`, `Cedar` |
| `Seed` | attribute schemas and their changes; the seed command call by call | `Inherits` |
| `*Proofs`, `ModelPlaneSteps` | theorems about the module of that name (`EventLogProofs` also `EventAudit`; `GroupsProofs` also `ConditionalReads`; `AccessProofs`: `InheritanceWalker`, `Spine` and `EmbeddedEngine`; `DataPlaneProofs`: `DataPlane` and `JwksCache`; `ModelPlaneSteps` continues `ModelPlaneProofs`) | |
| `MC*` | instances for TLC | |

Composition is by abstraction and by INSTANCE or EXTENDS. `EventLog` shows that its
many steps implement `AtomicLog`, and the modules above it take the append as one
step. `AccessProofs` shows that `resolve_inherits` computes `Resolves`, and `Groups`
validates with `Resolves`. `ControlPlane` runs the steps of `DataPlane` with answers
that its own stores and its own engine compute, where `DataPlane` alone leaves them
open.

**Modes.** A run may explore several circumstances (which operations, how many at a
time, with or without lag and faults) or several components. A variable `mode` picks
one at the start and never changes, so each is as large as it needs to be, and a
property that only some circumstances allow says so.

### EventLog

`counter`, `events` and `items` are the DynamoDB items; a request has `op` (its
arguments), `phase` (its await), `attempt`, `current` (the counter it read), and
`txn`, the fate of its latest transaction, which is independent of the request:
`Commit` and `Cancel` are DynamoDB's steps and happen at any time after the
transaction was sent, also after the caller gave up (`CallFails`). `Cancel` reports
the third reason exactly when the state item's condition failed, as the loop in
`append` (lines 309–325) expects, and also cancels without cause (transaction
conflicts) when `Faulty`. The envelope's content is the request it came from.

### OrgWrites, EventAudit

A request is `get → (revision) → ensureKey → (putKey) → readKeys → append` for
organization calls and `readItem → ensureKey → revision → append` in a loop for key
calls, in the order of the awaits of `update_handler`, `transition_handler`,
`append_org_state` and `append_org_keys`. `replica` is an older META item that
`OrgStore::get` may still see. Keys are named by the request that minted them and a
signature by its key. Statuses `Deleting` and `Deleted` exist in `OrgStatus`, but no
handler of this repository reaches them.

`EventAudit` has what `OrgWrites` abstracts: the envelope, which of its fields are
signed, what the item stores of it and what `envelope_from_item` derives anew, and the
auditor who fetches events and keys over HTTP. Append and minting are one step each
there. The actor is not covered by the signature, as in the code.

### Inherits, InheritanceWalker, Groups

`Inherits` defines resolution without an algorithm: the least closed set around a
role must be declared and contain no set in which everybody inherits from somebody
of the set. `InheritanceWalker` unfolds the recursion of `collect` into the variable
`stack`; each loop iteration is a step. `Groups` has the awaits of the three
handlers: organization, group, list with duplicate check and validation, the two
joined pre-checks of a delete in either order, the consistent item read that decides
about a no-op, and the append. The textual checks of an entry (name, description,
action format) are one flag, `valid`. The seed command writes and deletes the USER# rows
beside the log (`MembershipWritten`). A group is listed by one such row at most, which the
paged scan of `count_memberships_for_group` reads once, with its page.

### ModelPlane, ConditionalReads, MemoryStore

`log` and `items` (the state items after every event, the last one is the current
state), and `replicas`, each of which has applied a prefix of the log. A slot runs
one request after the other; `consumers[c]` and `walks[c]` are the clients that keep
a cursor in the events and in the promotions. `EventsAfter` returns what the query
may return: the full page, or a shorter one where DynamoDB cuts it. `Poll` is one
tick of the long poll; as reads take time the deadline may come after fewer ticks
than `WATCH_DEADLINE / WATCH_TICK`. `fold_at` is `Target`, `Collect` (a page) and
`Fold`. `ChangeStatus` stands for the transitions of `OrgWrites`: the status it goes by is
any the organization once had (`WasOnce`), since `transition_handler` may have read an
older record.

`ConditionalReads` has one client that polls an endpoint with the etag it was given,
one organization and one group, writers that replace the items and a replica that
serves an older one. `MemoryStore` takes every call of the in-memory store apart at
its locks (last revision, push, map, read model); its comments call the missing
atomicity acceptable for a development double, and the property asks for no more.

### Spine, EmbeddedEngine, Access

A spine is a function from units to their parent edges; `Loaded`, `CanAdd` and the
move with its checks are `Spine::try_new`, `add` and `reparent`. A model is a record of
spine, principals, sets, grants and promotions, and `history` the sequence of models by
revision. `decide` is one step per await: it pins a revision, takes the links of the
chain one at a time with a slice read at that revision, and answers with a record or an
error. Cedar's evaluation is a library: `Authorized` says what the engine relies on,
applied to the entities and policies that `translate.rs` builds. `Access` has the
recursive walks of `core`, for TLC only; `SubtreeVisible` and `Resolve` have the refusals
of `subtree_visible` and of a selector for another organization.

### DecisionCache

Time is counted in ticks. An L1 entry has the time it has left (`TTL`), an L2 entry
the whole seconds SETEX gives it (`L2TTL`, at least one second). A decision carries
the request it was made for and its age, which only the properties look at. GET,
IsAuthorized and SETEX take up to `Delay` ticks; SETEX runs in a task nobody waits
for, so writes arrive in any order. An evaluation may be dropped at any await.

### Pipeline, DataPlane, ControlPlane, JwksCache

A call of the pipeline is a record whose `pc` names what it awaits; `Begin`,
`Identified`, `Joined` and `Decided` take it from one await to the next or to its
outcome, with every early return of `evaluate_pipeline`. `DataPlane` runs several of
them in a proxy or an axum application: filters, forwarding, upstream answers and
failures, headers and their signature, enforcement modes, the sink, and a client that
disconnects while its call waits (hyper drops the future). What membership store and
engine answer is open there. `ControlPlane` answers the same awaits from its own state:
membership rows that change and may be malformed, revocable keys, and the compiled
model of `forgeguard.toml`; a handler is named by entity and verb, and every route of
`app.rs` is tried. A memory deployment with authentication has no membership resolver
and denies every user, as in the code. Paths are sequences of segments (percent
decoding and `{*rest}` are left out); the `matchit` router is external. The proxy inserts
the headers of the identity and removes none: `AppSeesTheCaller` says for each identity
header that the application gets the identity's value, or, where the identity has none,
what the client sent.

`JwksCache` takes `get_key` and `fetch_jwks` apart at their two locks. The issuer
rotates its keys; a fetch takes up to `MaxFlight`, or for ever for a lookup that is not
in `Answered`, since the code sets no client timeout.

### Names, Cedar, PolicySync, Config, Startup, Seed

Names are sequences of tokens, so that separators inside ids are seen. `Cedar` compiles
policies and schema as `compile.rs` and `schema.rs` do and says what Verified Permissions
decides by the result. `PolicySync` runs the commands of several operators call by call
against one store, which is immediately consistent and a set of policies (`sync` never
deletes); any call may fail. What the file means (`Covers`, `Says`) is stated for the groups
of the request; where nested groups would add to them the documents and the code differ
(section 6), and `SyncedDecisionsFollowConfig` goes by the request's own groups. Schema and
decisions are compared in a store where one configuration was synced alone. `Config` follows the document section by section to the
first error, and the collect-all validator; `Startup` builds what the proxy serves by.
`Seed` is one operator whose every call may fail before or after its effect; the order
of listings is open, eventually consistent queries are not modelled.

## 3. What TLC checks

Every run explores its instance completely. A name in parentheses is the property;
the comment above its definition states it in words.

| Run | Instance | What it shows |
|---|---|---|
| `event_log` | 3 appends of any kind on one item, with and without `expected` 0 or 1, 2 attempts, faults; the requests are interchangeable | replaying the log yields the items (`StateIsReplay`), answers are and stay true (`TrueAnswers`), the steps implement `AtomicLog` (`ImplementsAtomicLog`) |
| `org_writes` | modes: any 3 requests at once with lag and faults; the same on fresh reads; any 4 requests one after the other; 4 requests contending for the keys with 2 attempts | every event carries the one published key (`SignedByPublishedKey`), answers are true (`AnswersAreTrue`), a conditional update is exact, requests one at a time keep to the lifecycle and to the fold (`SerialSteps`), no request is stuck or gives up without contention (`EveryRequestProceeds`) |
| `org_lifecycle` (violated) | a rename races an activation | finding 1 |
| `org_revoked` (violated) | a key generation races a revocation | finding 2 |
| `groups` | modes: create, change, delete and inherit under lag, faults and a membership row that comes and goes; two groups that come to inherit from each other; a group deleted while another inherits from it; all shapes over two names one call at a time | answers are true of the log, a delete spares a group that stays in use (`DeleteSparesUsed`), careful writers (each with `X-Fg-If-Revision`, or one at a time, on consistent reads) keep every inheritance resolvable (`CarefulWritesResolve`) |
| `model_plane` | modes: two writers; a writer behind a stale gate with failing calls; a consumer over two lagging replicas and short pages; consumers from several cursors, `u64::MAX` included; a pager and a tombstone; demands; historical reads over lagging and over fresh replicas; fair | answers are true of some moment of the request, a consumer misses and repeats nothing (`ConsumerSeesLog`) and catches up, a historical read returns the state at its revision or fails (`FoldIsHistory`), every request ends (`EveryoneProceeds`) |
| `decision_cache` | modes: two evaluations in one proxy; two proxies on one Redis; failing calls; two queries that compete for one L1 slot; three queries without L2; and three appends of `EventLog` with three attempts and no faults; fair | no decision is served beyond the sum of both times to live and the delays, or for another query (`ServedIsFresh`); when policies and failures stop, all that can be served is what the policy says (`Settles`); every append returns, and succeeds when the ceiling is at least the number of writers (`EveryCallReturns`) |
| `access` | modes: spines of up to four units under all adds and moves, and lists that `try_new` refuses; three sets with every membership, cycles included; the engine under writes of every kind with chains, pinned queries and an unquotable name, up to revision 4; `resolve_inherits` on all graphs of three declared roles and an undeclared one | the spine stays a tree (`SpineIsTree`), the walks of core and store agree (`WalksAgree`), decisions and errors are those of the pinned revision (`AnswersReplay`) and rest on grants or the snapshot (`RecordsAreFounded`), `resolve_inherits` is right (`ResultIsRight`) |
| `data_plane` | modes: proxy, open proxy and axum host with two concurrent requests of every kind; two lookups racing over three key sets, one of them perhaps never answered; the control plane in four deployments with a request for every route and caller | what reaches an application was decided for its caller (`ForwardsAreDecided`), reported once, carries that caller's identity (`AppSeesTheCaller`), flags are explained as they are evaluated, answers allow their origin, keys are fresh, no lookup waits for another's fetch, and a control-plane handler runs exactly for the callers granted it (`HandlersRunAsGranted`) |
| `deploy` | modes: names; two operators, three policy jobs over four files; over 300 configuration documents with overrides; three in-memory calls, two at a time; schema changes; three seed runs over five files; a polling client; two event writers and an auditor | names survive printing and parsing; a completed sync decides as configured; `policies test` predicts the proxy; a started proxy is the one configured; the in-memory stores follow their log; a completed seed is as declared; accepted schema changes keep users valid; revalidated copies are what was served; events verify from outside |
| `policy_patterns` (violated) | a policy for `a:*:a` | finding 3 |
| `seed_teardown` (violated) | a sweep cut short | finding 4 |

**Bounds.** Three requests are the fewest that let one win, one lose and one meet
the loser's late commit; two attempts reach the retry and the exhausted loop; four
sequential requests reach create, change, conflict and repair. In `ModelPlane`
`Limit` 1 and `FoldPageSize` 2 make every listing and fold take several pages, and
logs of up to six events leave room for a page that is full, short and empty. In
`DecisionCache` one slot of capacity forces evictions, a TTL of one tick under a
second of two exercises the rounding up of SETEX, and two writes under way arrive
in either order. `MaxRevision` of `ModelPlane` stands for `u64::MAX`, so that
saturation is reached. In `EmbeddedEngine` four revisions let a write fall between any
two links of a chain of three. Two slots of the data plane are two requests that meet
in every await; `MaxClock` 3 lets a key set expire and be fetched twice over. Three seed
runs are one that fails, one that repairs and one with another file; three policy jobs are two operators
who overlap and a repetition. Three events let an append lose its number twice.
The proofs below do not depend on these bounds.

**Deadlock** is not checked where requests are finitely many, or the log is bounded,
and everything has returned. The runs of the cache, which never stops, and of the data
plane check it; there the hosts may stutter only when every call is at rest
(`AtRest`), and the key cache and the control plane, whose bounds end them, always.

## 4. Fairness

* Calls to DynamoDB and Verified Permissions return: the AWS SDK has its own
  timeouts, and the model lets a call fail (`CallFails`, `Fails`) wherever it may
  succeed. So a request in an await is not there for ever (weak fairness of `Client`,
  `Database`, `Step`).
* A consumer of the events keeps asking (`Begin`, `Take`): the liveness of
  `ModelPlane` speaks about such a consumer only.
* Replicas catch up (`Replicate`): DynamoDB's reads are *eventually* consistent.
* Time passes (`Tick`) and a SETEX that was sent arrives or fails (`Setex`).
* In `JwksCache` the scheduler runs a lookup that can run (`LocalStep`), and the issuer
  answers the lookups in `Answered`; of the others nothing is assumed, which is what
  `LookupsAreIndependent` is about.

Nothing is assumed about other writers, about the order of requests, or about the
number of failures. An append of `ModelPlane` waits only when the bound on the log
is reached, and `EveryoneProceeds` names this case. `EveryRequestProceeds` of
`OrgWrites` needs no fairness: it says that a request in flight can always take its
next step and that its only loop is counted.

## 5. What is proved

All theorems hold for every value of the constants that satisfies the named
assumption of the module (natural bounds, well-formed modes, `None` distinct from
data). Each is an inductive invariant, and the steps are `Init => Inv`,
`Inv /\ [Next]_vars => Inv'` and `Inv => Property`.

**EventLogProofs.** `IInv` is the type invariant, the log properties and, per
request, `CallInv`: phase, outcome and transaction agree; a transaction is sent only
for a revision the caller accepts; and the log holds the event of a request, once and
at the number after the counter value it read, exactly when its transaction
committed. It is needed because `GapFree` alone does not say that a call whose answer
was lost has at most one event. From it: `TypeCorrect`, `LogGapFree`, `ReplayIsState`,
`LogRespectsGuards`, `RetriesAppendOnce`, `AnswersAreTrue`, the action property
`LogAppendOnly` and the refinement `LogIsAtomic`, which justifies the one-step append
of the other modules.

`HonestLogsVerify` is about the content of the log, for any organizations, writers and
kinds. `AuditInv` says that a writer which has built an event built it for the number it
will ask for, with the key of its organization (which is never replaced), that every
stored item is the stored form of such an event, and that the events an auditor has
fetched are a part of the log without a gap. `BuiltVerifies` then takes one event through
signing, storing, reading back and checking; it needs that a kind is read back from its
wire name (`WireNames`).

**OrgWritesProofs.** For any number of concurrent requests, with lagging reads, lost
answers and late commits: `EventsVerify`, `AnswersStayTrue` and
`ConditionalUpdatesAreExact`. `WritesInv` says of every request that it follows the
path of its call (`OnPath`), that it has an event only once it has returned
(`Answering`), that past `ensure_signing_key` it holds the published key (`Keyed`),
that nobody lists a key before the request minting it has logged something
(`Unminted`), that what it will write is what its call promises (`Promising`), and that
what a conditional update has read is what is stored while the revision it demands is
the latest one (`Current`). The last conjunct is the reason for the precondition: an
unconditional update has no such fact, and findings 1 and 2 are what happens then.
`SerialRequestsAreSafe` adds that requests that run one at a time keep to the lifecycle,
revive no revoked key and keep the item equal to the fold: with one request in flight
(`Alone`) what it has decided still follows from the stored item (`Fresh`), and an
append changes the last event of its own kinds only (`LastAfter`).

**AccessProofs.** *resolve_inherits.* For every list of entries and every target it
answers right (`WalkResult`), collects no action twice (`WalkOnce`) and uses the last
entry of a name (`WalkLastEntry`). `WalkInv` says that `visiting` is the set of the roles
of the stack, which is a path of the graph (`Visiting`, `WalkPath`); every frame's earlier
actions and parents are done (`Progress`); a finished role's parents are finished and its
actions collected (`Finished`); and nothing outside the target's reach is touched
(`Within`). A cycle is then a set in which everybody has a parent, and a finished walk is
a closed set that has none, which is `Resolves`.

*Spine.* `SpineStaysTree` and `SpineMovesOneSubtree`: whatever `try_new` accepts is a
tree, any adds and moves leave it one, and they change the path of no unit outside the one
they add or move. Ancestry is defined as the least upward-closed set, which makes the
induction over paths a fact about sets. That the climbs of `try_new` find every cycle
(`LoadedIsGrounded`) takes the climb for every number of steps: it exists and goes up one
edge at a time (`ClimbingExists`, `ClimbSteps`), shown by a least number for which it does
not.

*Engine.* `EngineAnswersReplay`: every record and every error of `decide` is what the
pinned revision gives, since history only grows, a revision is pinned once, and the links
before the next one were allowed at it (`Halfway`).

**GroupsProofs.** `TypeCorrect`, and `CarefulWritersKeepInheritance`: if replicas do
not lag and every write carries the precondition, or writes do not overlap, each
stored set of groups resolves. The invariant says that what a running request has
read is what is stored as long as the revision it expects is still the latest one
(`Informed`, `Guarded`), so that the validation is valid when the append happens;
`PutKeepsFlat` and `DeleteKeepsFlat` do the graph part. Whatever lags, fails or
overlaps: `GroupAnswersStayTrue` (a success names the event of its request, and until it
has returned a request has none, `Truthful`), and `DeletesSpareUsedGroups`, for which
`Spared` says that a delete that went on after a pre-check found no use of the kind the
check looks for, so that none has lasted since the delete began.

`CopiesStaySound` is about the readers. `ReadsInv` says that every stored item, on the
primary and on the replica, has the etag of its own config (`Kept`), and that a copy has
the etag and the body of the item it came from (`CopyOf`). Every reply is `Sound`, one lemma
per kind of endpoint: a 200 renews the copy, a 304 to an entity tag is about an item with
that tag, and no item that a writer left makes a handler answer 500. `ReadsAssumption` is
that no content is `None`; that two contents with one etag are equal is the abstraction of
the hash (`ComputeEtag`).

**ModelPlaneProofs, ModelPlaneSteps.** `ConsumersSeeLog`. `PlaneInv` says that replicas
hold prefixes, that a request for events reads the part of the log behind its consumer's
cursor (`Reads`), and that a consumer has received the part of the log from its start to
its cursor (`Received`). `PagesContinue` covers lag, short pages and the saturated
cursor; `ContinuesStays` an append; `ContinuesJoin` the page a client takes.
`ItemsAreTheFold` and `ResponsesAreTrue`: `HistoryInv` says that the items of each
revision are the fold of that many events, and `Told` says of every request what its
reads so far have told it of the log since it began, operation by operation
(`UpsertTold`, `TombstoneTold`, `EventsTold`, `DemandTold`, `ListTold`, `FoldTold`), and
of a listing taken page by page that it has seen whatever was promoted throughout and is
behind its cursor (`WalkTold`). Nothing in `Told` mentions the present beyond the length
of the log, so that an append by somebody else keeps it; this is the reason why answers
are true of some moment of the request and not of its end. What is counted (pages by
the number of smaller ids, the fold by the length of the log) rests on `Counting`, facts
of finite sets and numbers that the last lemmas derive from the library.

**DataPlaneProofs.** *Keys.* `KeysAreFresh`, for any lookups, rotations, failures and
delays. `JwksInv` says that every cached key was published one flight before the cache's
time stamp or later (`CachedAt`), also while a lookup has replaced the keys and not yet
the stamp (`StampInv`); that what a fetch brings was published when the issuer took the
request (`FlightInv`); and that a key which the fetch of a lookup brought is in the cache
until another fetch replaces it (`HeldInv`). It assumes a non-empty list of key sets and
natural times (`JwksAssumption`).

*Requests.* `ForwardsStayDecided`, `DecisionsStayReported` and `FlagsStayExplained`, for
every configuration of the two hosts, any number of concurrent requests and whatever
key cache, membership store and engine answer. `DataPlaneInv` says of every call, by the
await it is in, what its earlier phases have settled (`AtIdentity`, `AtMember`,
`AtPolicy`, `Passed`), that its flags are those of its identity (`Explained`), that its
effect and status follow from the decision and its mode (`Effective`), and of the sink
that it holds an entry of a call exactly when the call has a decision (`Reported`).
`Piped` is the same fact inside a handler, between one phase and the next; there is one
lemma per phase (`BeginPiped`, `IdentifiedPiped`, `JoinedPiped`, `DecidedPiped`).
`HostsAssumption` says that a credential, a membership or a decision is not `None` (the
`Some` of the code) and that a host is the proxy or the layer in one of its two modes.

**DecisionCacheProofs.** `ServedFresh`: the age of a decision plus the time its entry
has left is bounded, by the delay and the L2 time for an L2 entry, by that and the L1
time for an L1 entry (`LivesUntil`); calls and writes under way carry a bound with
the time they waited (`Holds`, `Carries`). A tick moves one unit from the time left to
the age, so the sum stays. A second invariant (`OwnInv`) says that a decision is kept
under the key of the query it was made for.

**Only model-checked.** Liveness (every property with `<>` or `~>`) and
`EveryRequestProceeds`, which uses ENABLED: out of the prover's reach. What recursive
operators compute: the walks of `Access`, the parsers and printers of `Names`, the
compiler of `Cedar`, the calls of `Seed`. What `SelectSeq`, itself a recursion over data, leaves of a
list of headers: `AppSeesTheCaller` and `AnswersAllowTheirOrigin`. `RecordsAreFounded`,
which is stated with the walks of `Access`. `HandlersRunAsGranted`, which holds for the route
table and the model of `forgeguard.toml` and no others; `StoreFollowsLog`; and the commands
that bring a deployment up, whose properties are about many cases rather than many steps.

## 6. Findings

1. **An update undoes a lifecycle transition** (`org_lifecycle`). `update_handler`
   reads the organization, and writes all of it back without a precondition unless the
   client sends one; an activation in between is overwritten and the organization is
   Draft again, against `crates/core/src/org.rs:15`.
2. **A revoked key becomes active again** (`org_revoked`). `append_org_keys` reads the
   keys before it reads the revision that it then expects; a revocation between the
   two reads is overwritten by the older list, against `signing_key.rs:180`.
3. **A wildcard in one position allows every action** (`policy_patterns`). The compiler
   drops the action constraint of a statement as soon as one pattern has a wildcard, against
   `forgeguard.example.toml:285`.
4. **A sweep that is cut short is not recoverable** (`seed_teardown`). The user is deleted
   before its membership rows, which are found only through the user, against
   `seed/teardown.rs:11`.

Along the way, not stated as runs:

* two POSTs of one group may both answer 201, and two first upserts of a principal too;
* a demanded revision may be missing from a page that a lagging replica serves
  (`docs/brief.md:173`, `event_log.rs:457`);
* the gate of a write may be served by a replica that does not know of a suspension yet;
* principal sets inside sets are selected but not parented, so that a nested grant does
  not allow (`translate.rs:122` and its contract at line 9);
* the etag of `GET /organizations/{org_id}` is the config's, so that a new name or
  status is a 304 too; the table of proxy-config responses omits the 409 for Draft;
* a membership row of an earlier seed keeps its groups when the file changes them;
  `seed.toml` announces a USER_SCHEMA row that no code writes;
* behind the proxy the client's own `x-fg-tenant-id` and `x-fg-groups` stay on a request
  whose identity has no tenant or no groups, and all identity headers on one without an
  identity (`proxy.rs:240`), while `examples/todo-app/README.md:146` says "The proxy asserts
  each user's tenant";
* with `*` as the only CORS origin, answers other than those to a preflight name the
  request's origin and have no `Vary`, while `cors.rs:148` says "the response is identical
  for all origins";
* `forgeguard.example.toml:278` gives a policy to groups that include its groups "via
  `member_groups`", and its tests at lines 374–387 expect it; the query of a request carries
  the groups without parents (`authz/src/translate.rs:162`), so that nesting adds nothing;
* `compile_all_to_cedar` accepts a member group that is not declared, which
  `check_group_references` (`http/src/validate.rs:79`) refuses; otherwise the two agree
  (`NestingIsChecked`);
* `segment.rs:93` and `cedar_ident.rs:17` say that every segment gives a valid Cedar
  identifier; one that starts with a digit does not (`NamesAreFaithful` says exactly when);
* `forgeguard.example.toml` offers `default_policy = "allow"` and `client_ip_source =
  "x-real-ip"`, which the parser refuses, and a provider `anonymous` (line 57), which is
  skipped.

## 7. Not modelled

`PROJECT.json` lists every part with its reason. In short:

* Cedar, cryptography, DynamoDB, Redis, Cognito and Verified Permissions are external,
  and appear as what the code relies on.
* Tenant extraction is a library of string functions that nothing calls. The audit, SDK,
  FFI and back-office crates are empty.
* The control plane's `main` reads the environment and builds the router that
  `ControlPlane` models; the developer and release tasks start other programs and keep no
  state; the example application is an upstream with a list of its own.
* Of modelled parts: the paged list of organizations, whose order is that of a scan;
  the hash behind rollout percentages, a given function; the hit and miss counters; log lines.
* Poisoned locks, percent decoding and catch-all routes.

About a third of the lines under `src/` are inline tests, which are read with the code
but not modelled.

## 8. Plan

1. Proofs: `StoreFollowsLog` of the in-memory store, and the composition of `ControlPlane`
   with the invariant of `DataPlane`.
2. `JwksCache` composed with the pipeline through the bearer resolver, instead of beside it.
3. Snapshot publication, once a store publishes more than one snapshot.
