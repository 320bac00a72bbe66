-------------------------------- MODULE Seed --------------------------------
(***************************************************************************)
(* `cargo xtask control-plane seed` (xtask, control_plane/seed): checks a  *)
(* seed file, sweeps the seeded users of the dashboard pool, and writes    *)
(* the organizations, groups and users of the file.  Every call to Cognito *)
(* or DynamoDB may fail, before or after its effect, and ends the run; the *)
(* operator runs the command again, with the same file or another.         *)
(*                                                                         *)
(* An organization id and a username are sequences of the parts between    *)
(* dashes, an e-mail address is a sequence of one part.                    *)
(*                                                                         *)
(* First, the attributes an organization's users may have (authn-core,     *)
(* user_schema): what a schema accepts, and which changes of a schema are  *)
(* accepted once the organization has left Draft.  A schema is two         *)
(* functions, from the standard attributes to whether they are required    *)
(* and from the custom ones to their AttrType.  Of a value only its length *)
(* matters.                                                                *)
(***************************************************************************)
EXTENDS Options, Naturals, FiniteSets, SequencesExt

CONSTANTS CustomAttrNames, \* the texts CustomAttrName accepts
          Schemas,      \* the schemas tried
          AttrMaps,     \* the attribute maps tried
          SeedFiles,    \* the files: sequences of SeedOrg
          SeedFlags,    \* pairs of --dynamodb-endpoint and --dynamodb-table
          WellFormed,   \* the texts that pass as names of groups and pools and between dashes
          Alphabet,     \* the group names in alphabetical order
          DashboardPool,
          PoolsAtFirst, \* the subs, numbered from 1, by pool and username
          RowsAtFirst,  \* membership rows
          MaxRuns

VARIABLES change,       \* the last schema change tried, None at first
          world,        \* Cognito and the DynamoDB table
          attempt,      \* the run under way, or how the last one ended
          attempts

seedVars == <<world, attempt, attempts>>

-----------------------------------------------------------------------------
(* User attribute schemas.                                                 *)

StandardAttrNames ==
    {"address", "birthdate", "family_name", "gender", "given_name", "locale", "middle_name", "name",
     "nickname", "phone_number", "picture", "preferred_username", "profile", "website", "zoneinfo"}

IsCustomAttrName(name) == name \in CustomAttrNames

AttrType(min, max, required) == [min |-> min, max |-> max, required |-> required]

Schema(standard, custom) == [standard |-> standard, custom |-> custom]

-----------------------------------------------------------------------------
(* validate_attributes: every field error of an attribute map.              *)

FieldError(field, reason) == [field |-> field, reason |-> reason]

AlwaysAccepted == {"email", "email_verified"}

CollectMissingRequired(schema, attrs) ==
    {FieldError(n, "MissingRequired") :
        n \in ({s \in DOMAIN schema.standard : schema.standard[s]}
               \cup {c \in DOMAIN schema.custom : schema.custom[c].required}) \ DOMAIN attrs}

CheckStringBounds(key, length, ty) ==
    IF ty.min # None /\ length < ty.min THEN {FieldError(key, "TooShort")}
    ELSE IF ty.max # None /\ length > ty.max THEN {FieldError(key, "TooLong")}
    ELSE {}

ClassifyProvidedKey(schema, key, length) ==
    IF key \in AlwaysAccepted \cup (StandardAttrNames \cap DOMAIN schema.standard) THEN {}
    ELSE IF IsCustomAttrName(key) /\ key \in DOMAIN schema.custom
         THEN CheckStringBounds(key, length, schema.custom[key])
    ELSE {FieldError(key, "Unknown")}

ValidateAttributes(schema, attrs) ==
    CollectMissingRequired(schema, attrs)
        \cup UNION {ClassifyProvidedKey(schema, key, attrs[key]) : key \in DOMAIN attrs}

-----------------------------------------------------------------------------
(* diff_schema: the custom attributes a change adds, and the violations of  *)
(* append-only that make it an error.                                       *)

CheckCustomAttrCompat(name, old, new) ==
    {FieldError(name, reason) :
        reason \in (IF old.required # new.required THEN {"RequiredToggled"} ELSE {})
                   \cup (IF <<old.min, old.max>> # <<new.min, new.max>>
                         THEN {"LengthBoundsChanged"} ELSE {})}

(* Mutant: an attribute that keeps its name counts as unchanged.            *)
CustomViolationsRemovedOnly(old, new) ==
    {FieldError(name, "Removed") : name \in DOMAIN old.custom \ DOMAIN new.custom}

CustomViolations(old, new) ==
    {FieldError(name, "Removed") : name \in DOMAIN old.custom \ DOMAIN new.custom}
        \cup UNION {CheckCustomAttrCompat(name, old.custom[name], new.custom[name]) :
                        name \in DOMAIN old.custom \cap DOMAIN new.custom}

SchemaDelta(added, violations) == [added |-> added, violations |-> violations]

DiffSchema(old, new, status) ==
    SchemaDelta(DOMAIN new.custom \ DOMAIN old.custom,
                IF status = "draft" THEN {}
                ELSE (IF old.standard # new.standard
                      THEN {FieldError("standard", "StandardMapEdited")} ELSE {})
                     \cup CustomViolations(old, new))

(* schema_to_cognito_attrs: the custom attributes, marked with the prefix   *)
(* that makes them custom; the standard ones are fixed with the pool.       *)
SchemaToCognitoAttrs(schema) == {<<"custom:", name>> : name \in DOMAIN schema.custom}

-----------------------------------------------------------------------------
SchemaInit == change = None

ChangeSchema ==
    /\ change = None
    /\ \E old, new \in Schemas, status \in {"draft", "active", "suspended"} :
          change' = [old |-> old, new |-> new, status |-> status, diff |-> DiffSchema(old, new, status)]

(* A change that an organization beyond Draft may make to its schema        *)
(* leaves what validate_attributes says of every attribute map as it was,   *)
(* but for the attributes the change adds: those were unknown before unless *)
(* they have the name of a standard one, and are the only ones a user can   *)
(* newly lack (diff_schema is append-only in the sense of                   *)
(* validate_attributes).                                                    *)
AcceptedChangesKeepUsers ==
    change # None /\ change.status # "draft" /\ change.diff.violations = {} =>
        \A attrs \in AttrMaps :
            LET before == ValidateAttributes(change.old, attrs)
                after  == ValidateAttributes(change.new, attrs)
                Kept(errors) == {e \in errors : e.field \notin change.diff.added}
            IN  /\ Kept(before) = Kept(after)
                /\ \A e \in before \ Kept(before) :
                      e.reason = "Unknown" \/ e.field \in DOMAIN change.old.standard

-----------------------------------------------------------------------------
(* The seed file.                                                          *)

SeedUser(email, groups, attributes) == [email |-> email, groups |-> groups, attributes |-> attributes]

SeedOrg(id, name, pool, schema, users, groups) ==
    [id |-> id, name |-> name, pool |-> pool, schema |-> schema, users |-> users, groups |-> groups]

(* The items: of an organization, always Draft, and of a membership.        *)
OrgItem(org) == [name |-> org.name, status |-> "draft"]

MembershipRow(user) == [email |-> user.email, groups |-> user.groups]

RbacEntry(name, inherits) == [name |-> name, inherits |-> inherits]

Inheritance == INSTANCE Inherits WITH Names <- ToSet(Alphabet)

-----------------------------------------------------------------------------
(* Phase 0.                                                                 *)

(* seed_user_schema_to_domain. *)
SchemaConverts(schema) ==
    /\ DOMAIN schema.standard \subseteq StandardAttrNames
    /\ \A name \in DOMAIN schema.custom : IsCustomAttrName(name)

(* validate_seed_groups: the names, then resolve_inherits for each, which   *)
(* goes by the last entry of a name.                                        *)
Parents(entries) ==
    [n \in {e.name : e \in ToSet(entries)} |->
        ToSet(entries[CHOOSE i \in DOMAIN entries :
                        /\ entries[i].name = n
                        /\ \A j \in DOMAIN entries : entries[j].name = n => j =< i].inherits)]

ValidateSeedGroups(entries) ==
    /\ \A e \in ToSet(entries) : e.name \in WellFormed
    /\ Inheritance!AllResolve(Parents(entries))

UserPasses(org, user) ==
    /\ ValidateAttributes(org.schema, user.attributes) = {}
    /\ ToSet(user.groups) \subseteq WellFormed

(* Mutant: the groups are left to write_groups.                             *)
PreflightValidateNoGroups(file) ==
    \A org \in ToSet(file) :
        /\ ToSet(org.id) \cup {org.pool} \subseteq WellFormed
        /\ SchemaConverts(org.schema)
        /\ \A user \in ToSet(org.users) : UserPasses(org, user)

PreflightValidate(file) ==
    \A org \in ToSet(file) :
        /\ ToSet(org.id) \cup {org.pool} \subseteq WellFormed
        /\ SchemaConverts(org.schema)
        /\ \A user \in ToSet(org.users) : UserPasses(org, user)
        /\ ValidateSeedGroups(org.groups)

(* DynamoTarget::from_cli_args: both flags or neither.                      *)
TargetParses(flags) == (flags[1] = None) = (flags[2] = None)

(* is_seeded_username: the id of an organization of the file, a dash, more. *)
IsSeededUsername(username, file) ==
    \E org \in ToSet(file) : IsStrictPrefix(org.id, username)

-----------------------------------------------------------------------------
(* What follows the sweep is one straight line of calls, written here as    *)
(* the list of them.                                                        *)

Sorted(entries) ==
    FlattenSeq([k \in DOMAIN Alphabet |-> SelectSeq(entries, LAMBDA e : e.name = Alphabet[k])])

EachOrg(file, calls) == FlattenSeq([i \in DOMAIN file |-> calls[file[i]]])

PoolCalls(org) ==
    (IF DOMAIN org.schema.custom = {} THEN <<>> ELSE <<[call |-> "attributes", org |-> org]>>)
        \o [i \in DOMAIN org.users |-> [call |-> "user", org |-> org, user |-> org.users[i]]]

GroupCalls(org) ==
    LET entries == Sorted(org.groups)
    IN  [i \in DOMAIN entries |-> [call |-> "group", org |-> org, entry |-> entries[i]]]

Reseed(file) ==
    LET orgs == ToSet(file)
    IN  EachOrg(file, [org \in orgs |-> <<[call |-> "org", org |-> org]>>])
            \o <<[call |-> "validate"]>>
            \o EachOrg(file, [org \in orgs |-> GroupCalls(org)])
            \o EachOrg(file, [org \in orgs |-> PoolCalls(org)])

-----------------------------------------------------------------------------
NoAttempt == [pc |-> "idle", file |-> <<>>, matches |-> {}, sub |-> None, page |-> {}, read |-> {},
              plan |-> <<>>, outcome |-> None, before |-> None]

SeedInit ==
    /\ world = [pools |-> PoolsAtFirst, attributes |-> [p \in DOMAIN PoolsAtFirst |-> {}],
                rows |-> RowsAtFirst, orgs |-> <<>>, groups |-> <<>>,
                subs |-> Cardinality(UNION {Range(PoolsAtFirst[p]) : p \in DOMAIN PoolsAtFirst})]
    /\ attempt = NoAttempt
    /\ attempts = 0

SeedEnded(outcome) == [attempt EXCEPT !.pc = "idle", !.outcome = outcome]

(* A call: it works, or it fails with or without its effect, which is       *)
(* fatal.                                                                   *)
Call(w, next) ==
    /\ \/ world' = w /\ attempt' = next
       \/ world' \in {world, w} /\ attempt' = SeedEnded("failed")
    /\ UNCHANGED attempts

Without(f, keys) == [k \in DOMAIN f \ keys |-> f[k]]

(* build_seed_context and preflight_validate; 1Password may not answer.     *)
StartSeed ==
    /\ attempt.pc = "idle" /\ attempts < MaxRuns
    /\ attempts' = attempts + 1
    /\ \E file \in SeedFiles, flags \in SeedFlags :
          LET begun == [NoAttempt EXCEPT !.file = file, !.before = world]
          IN  \/ attempt' = [begun EXCEPT !.outcome = "not started"]
              \/ /\ TargetParses(flags) /\ file # <<>>
                 /\ attempt' = IF PreflightValidate(file) THEN [begun EXCEPT !.pc = "list"]
                               ELSE [begun EXCEPT !.outcome = "invalid"]
    /\ UNCHANGED world

(* teardown_users.  The matches are taken in any order, not in that of      *)
(* their names.                                                             *)
Swept(matches) ==
    [attempt EXCEPT !.matches = matches, !.sub = None, !.page = {}, !.read = {},
                    !.pc = IF matches = {} THEN "reseed" ELSE "delete",
                    !.plan = IF matches = {} THEN Reseed(attempt.file) ELSE <<>>]

ListUsers ==
    /\ attempt.pc = "list"
    /\ Call(world, Swept({u \in DOMAIN world.pools[DashboardPool] : IsSeededUsername(u, attempt.file)}))

DeleteUser ==
    /\ attempt.pc = "delete"
    /\ \E u \in attempt.matches :
          LET sub == world.pools[DashboardPool][u]
          IN  Call([world EXCEPT !.pools[DashboardPool] = Without(@, {u})],
                   IF sub = None THEN Swept(attempt.matches \ {u})
                   ELSE [attempt EXCEPT !.matches = @ \ {u}, !.sub = sub, !.pc = "query"])

(* delete_membership_rows: a page of the rows, then each of them.           *)
QueryRows ==
    /\ attempt.pc = "query"
    /\ LET left == {k \in DOMAIN world.rows : k[1] = attempt.sub} \ attempt.read
       IN  \E page \in SUBSET left :
              /\ page # {} \/ left = {}
              /\ Call(world, IF page = {} THEN Swept(attempt.matches)
                             ELSE [attempt EXCEPT !.pc = "rows", !.page = page, !.read = @ \cup page])

DeleteRow ==
    /\ attempt.pc = "rows"
    /\ \E k \in attempt.page :
          Call([world EXCEPT !.rows = Without(@, {k})],
               [attempt EXCEPT !.page = @ \ {k}, !.pc = IF attempt.page = {k} THEN "query" ELSE "rows"])

-----------------------------------------------------------------------------
NextCall(call) == attempt.pc = "reseed" /\ attempt.plan # <<>> /\ Head(attempt.plan).call = call

Done == [attempt EXCEPT !.pc = "reseed", !.plan = Tail(@), !.sub = None]

Put(f, key, value) == [k \in DOMAIN f \cup {key} |-> IF k = key THEN value ELSE f[k]]

(* write_orgs: an unconditional PutItem, always as Draft.                   *)
PutOrg ==
    /\ NextCall("org")
    /\ LET org == Head(attempt.plan).org
       IN  Call([world EXCEPT !.orgs = Put(@, org.id, OrgItem(org))], Done)

(* write_groups: every organization's groups are validated once more.       *)
ValidateGroups ==
    /\ NextCall("validate")
    /\ attempt' = IF \A org \in ToSet(attempt.file) : ValidateSeedGroups(org.groups)
                  THEN Done ELSE SeedEnded("invalid")
    /\ UNCHANGED <<world, attempts>>

PutSeedGroup ==
    /\ NextCall("group")
    /\ LET c == Head(attempt.plan)
       IN  Call([world EXCEPT !.groups = Put(@, <<c.org.id, c.entry.name>>, c.entry)], Done)

(* sync_pool_custom_attrs.  A list with a known attribute is refused, with  *)
(* or without adding the others; that counts as success.                    *)
SyncPoolCustomAttrs ==
    /\ NextCall("attributes")
    /\ LET org == Head(attempt.plan).org
           new == SchemaToCognitoAttrs(org.schema)
           added == [world EXCEPT !.attributes[org.pool] = @ \cup new]
       IN  \/ Call(added, Done)
           \/ new \cap world.attributes[org.pool] # {} /\ Call(world, Done)

(* AdminCreateUser issues a new sub.                                        *)
AdminCreateUser(pool, email) ==
    [world EXCEPT !.pools[pool] = Put(@, email, world.subs + 1), !.subs = @ + 1]

(* provision_user.  The client's own retry of a lost answer finds the user  *)
(* it has just created.                                                     *)
CreateUser ==
    /\ NextCall("user")
    /\ LET c       == Head(attempt.plan)
           created == AdminCreateUser(c.org.pool, c.user.email)
           exists  == [attempt EXCEPT !.pc = "get"]
       IN  IF ValidateAttributes(c.org.schema, c.user.attributes) # {}
           THEN attempt' = SeedEnded("invalid") /\ UNCHANGED <<world, attempts>>
           ELSE IF c.user.email \in DOMAIN world.pools[c.org.pool]
           THEN Call(world, exists)
           ELSE \/ Call(created, [attempt EXCEPT !.pc = "row", !.sub = world.subs + 1])
                \/ world' = created /\ attempt' = exists /\ UNCHANGED attempts

AdminGetUser(pool, email) == world.pools[pool][email]

GetUser ==
    /\ attempt.pc = "get"
    /\ LET c == Head(attempt.plan)
       IN  Call(world, [attempt EXCEPT !.pc = "row", !.sub = AdminGetUser(c.org.pool, c.user.email)])

(* attribute_not_exists(#sk): an existing row stays, which counts as        *)
(* success.                                                                 *)
PutRow ==
    /\ attempt.pc = "row"
    /\ LET c   == Head(attempt.plan)
           key == <<attempt.sub, c.org.id>>
       IN  IF key \in DOMAIN world.rows THEN Call(world, Done)
           ELSE Call([world EXCEPT !.rows = Put(@, key, MembershipRow(c.user))], Done)

SeedComplete ==
    /\ attempt.pc = "reseed" /\ attempt.plan = <<>>
    /\ attempt' = SeedEnded("complete")
    /\ UNCHANGED <<world, attempts>>

SeedNext ==
    \/ StartSeed \/ ListUsers \/ DeleteUser \/ QueryRows \/ DeleteRow
    \/ PutOrg \/ ValidateGroups \/ PutSeedGroup
    \/ SyncPoolCustomAttrs \/ CreateUser \/ GetUser \/ PutRow \/ SeedComplete

-----------------------------------------------------------------------------
OrgIsSeeded(org) ==
    /\ org.id \in DOMAIN world.orgs
    /\ world.orgs[org.id] = OrgItem(org)
    /\ \A e \in ToSet(org.groups) :
          /\ <<org.id, e.name>> \in DOMAIN world.groups
          /\ ToSet(world.groups[<<org.id, e.name>>].inherits) = Parents(org.groups)[e.name]
    /\ \A user \in ToSet(org.users) :
          /\ user.email \in DOMAIN world.pools[org.pool]
          /\ LET key == <<world.pools[org.pool][user.email], org.id>>
             IN  key \in DOMAIN world.rows /\ world.rows[key].email = user.email

(* Whatever earlier runs were cut short by a failing call, a run that       *)
(* reports completion leaves the organizations of its file as Draft, their  *)
(* groups as declared, every declared user in its pool with a membership    *)
(* row under the sub it has there, and no user to sweep (seed/mod.rs,       *)
(* users.rs); and a file that fails validation has changed nothing          *)
(* (groups.rs, preflight_validate).                                         *)
SeededAsDeclared ==
    /\ attempt.outcome = "complete" =>
         /\ \A org \in ToSet(attempt.file) : OrgIsSeeded(org)
         /\ \A u \in DOMAIN world.pools[DashboardPool] : ~IsSeededUsername(u, attempt.file)
    /\ attempt.outcome = "invalid" => world = attempt.before

(* A sweep that was cut short is repaired by running the seed again: after  *)
(* a run that reports completion no membership row is left of a user that   *)
(* was deleted (teardown.rs).                                               *)
TeardownIsRecoverable ==
    attempt.outcome = "complete" =>
        \A k \in DOMAIN world.rows :
            \E pool \in DOMAIN world.pools : \E u \in DOMAIN world.pools[pool] : world.pools[pool][u] = k[1]
=============================================================================
