-------------------------- MODULE ConditionalReads --------------------------
(***************************************************************************)
(* The read endpoints of the control plane and their conditional GETs       *)
(* (crates/control-plane etag.rs, the get, list and proxy-config handlers   *)
(* of handlers/, with the item codecs of dynamo_store and groups/codec.rs): *)
(* a client polls one endpoint with If-None-Match, writers replace the      *)
(* items, and reads may be served by a replica that lags.                   *)
(*                                                                          *)
(* One organization with one group.  A write is one step here; OrgWrites    *)
(* and Groups have the steps inside it.  So is a read: a handler that first *)
(* looks for the organization finds one that is never deleted again.        *)
(***************************************************************************)
EXTENDS Naturals, Options

CONSTANTS Configs,     \* proxy configurations
          OrgNames,    \* names of the organization
          GroupConfigs,\* contents of the group
          MaxWrites    \* how many writes there are

VARIABLES primary,  \* the META item and the GROUP# item, or None
          stale,    \* older ones that a replica may still serve
          puts,     \* how many writes there were
          client    \* the polling client: its endpoint, its copy and the last answer

readVars == <<primary, stale, puts, client>>

Endpoints == {"proxyConfig", "show", "group", "groups", "keys"}
-----------------------------------------------------------------------------
(* Etags and items.                                                         *)

(* compute_etag and compute_group_etag: a hash of the content, quoted.      *)
ComputeEtag(content) == [quoted |-> content]

(* to_item: config and etag are written together, or neither is.            *)
ToItem(org, configured, keys) ==
    [org |-> org, keys |-> keys,
     config |-> IF configured = None THEN None ELSE configured.config,
     etag |-> IF configured = None THEN None ELSE configured.etag]

(* from_item: one of the two without the other is an integrity error.       *)
FromItem(item) ==
    IF (item.config = None) # (item.etag = None) THEN [ok |-> FALSE]
    ELSE [ok |-> TRUE, org |-> item.org,
          configured |-> IF item.config = None THEN None
                         ELSE [config |-> item.config, etag |-> item.etag]]

ConfiguredConfig(config) ==
    IF config = None THEN None ELSE [config |-> config, etag |-> ComputeEtag(config)]

EtagedGroup(entry) == [entry |-> entry, etag |-> ComputeEtag(entry)]

Orgs == [name : OrgNames, status : {"Draft", "Active"}]
ItemTags == {ComputeEtag(content) : content \in Configs \cup GroupConfigs}
OrgItems == [org : Orgs, keys : SUBSET (0 .. MaxWrites), config : Configs \cup {None},
             etag : ItemTags \cup {None}]
GroupItems == {EtagedGroup(entry) : entry \in GroupConfigs}

(* What a client keeps of an answer.                                        *)
Bodies == Orgs \cup Configs \cup GroupConfigs \cup (SUBSET (0 .. MaxWrites)) \cup (SUBSET GroupItems)
Copies == [etag : ItemTags \cup {None}, body : Bodies, from : OrgItems \cup GroupItems \cup {None}]

(* Rust's Some of anything is not None.                                     *)
ASSUME ReadsAssumption ==
    /\ MaxWrites \in Nat
    /\ None \notin Configs /\ None \notin GroupConfigs /\ None \notin ItemTags
    /\ None \notin [config : Configs, etag : ItemTags]
    /\ None \notin OrgItems /\ None \notin GroupItems /\ None \notin Copies

(* parse_if_match, of the header or its absence.                            *)
ParseIfMatch(raw) == IF raw # None /\ raw.form = "blank" THEN None ELSE raw

(* Mutant: any entity tag matches a stored representation.                  *)
CheckIfNoneMatchLoose(header, stored) ==
    IF header = None THEN "NotMatched"
    ELSE IF header.form = "wildcard" THEN IF stored = None THEN "WildcardOnDraft" ELSE "WildcardMatched"
    ELSE IF stored # None THEN "Matched" ELSE "NotMatched"

(* check_if_none_match                                                      *)
CheckIfNoneMatch(header, stored) ==
    IF header = None THEN "NotMatched"
    ELSE IF header.form = "wildcard" THEN IF stored = None THEN "WildcardOnDraft" ELSE "WildcardMatched"
    ELSE IF header.tag = stored THEN "Matched" ELSE "NotMatched"
-----------------------------------------------------------------------------
(* Reads.  No OrgStore read asks for consistency.                           *)
ServedItem == {primary.org, stale.org}
ServedGroupItem == {primary.group, stale.group}

NotModified(outcome) == outcome \in {"Matched", "WildcardMatched"}

(* The answer of a conditional GET: 304 with the etag, or 200 with the body.*)
Conditional(raw, etag, body) ==
    IF NotModified(CheckIfNoneMatch(ParseIfMatch(raw), etag))
    THEN [code |-> 304, etag |-> etag, body |-> None]
    ELSE [code |-> 200, etag |-> etag, body |-> body]

Answer(code) == [code |-> code, etag |-> None, body |-> None]

(* store.get(org_id) and what every handler makes of a failure.             *)
WithOrg(item, answer) ==
    IF item = None THEN Answer(404)
    ELSE IF ~FromItem(item).ok THEN Answer(500)
    ELSE answer

(* get_handler: the body is the organization, the etag that of its config.  *)
ShowOrg(item, raw) ==
    LET r == FromItem(item)
    IN  WithOrg(item,
            Conditional(raw, IF r.configured = None THEN None ELSE r.configured.etag, r.org))

(* proxy_config_handler: 409 for an organization without one.               *)
ProxyConfigHandler(item, raw) ==
    LET r == FromItem(item)
    IN  WithOrg(item, IF r.configured = None THEN Answer(409)
                      ELSE Conditional(raw, r.configured.etag, r.configured.config))

(* list_keys_handler: looks for the organization, then reads the item again.*)
ListKeysHandler(item, again) ==
    WithOrg(item, [code |-> 200, etag |-> None, body |-> IF again = None THEN {} ELSE again.keys])

(* The groups' get_handler.                                                 *)
GetGroupHandler(item, group, raw) ==
    WithOrg(item, IF group = None THEN Answer(404) ELSE Conditional(raw, group.etag, group.entry))

(* The groups' list_handler: only a wildcard is looked at, and it matches   *)
(* as soon as there is a group.                                             *)
ListGroupsHandler(item, group, raw) ==
    LET header == ParseIfMatch(raw)
    IN  WithOrg(item,
            IF group # None /\ header # None /\ header.form = "wildcard" THEN Answer(304)
            ELSE [code |-> 200, etag |-> None, body |-> IF group = None THEN {} ELSE {group}])
-----------------------------------------------------------------------------
NoClient(e) == [endpoint |-> e, copy |-> None, asked |-> None, code |-> 0, from |-> None]

ReadsInit ==
    /\ primary = [org |-> None, group |-> None]
    /\ stale = primary
    /\ puts = 0
    /\ client \in {NoClient(e) : e \in Endpoints}

(* What the client sends: nothing, a wildcard, blanks, or the tag it has.   *)
Headers ==
    {None, [form |-> "wildcard"], [form |-> "blank"]}
    \cup {[form |-> "strong", tag |-> t] :
             t \in IF client.copy = None THEN {} ELSE {client.copy.etag} \ {None}}

(* The client takes an answer made from item and group: a 200 replaces its  *)
(* copy, which also remembers, as a history, what it was made from.         *)
Take(raw, answer, from) ==
    client' = [client EXCEPT
        !.asked = raw, !.code = answer.code, !.from = from,
        !.copy = IF answer.code = 200
                 THEN [etag |-> answer.etag, body |-> answer.body, from |-> from] ELSE @]

Poll(raw) ==
    /\ \E item, again \in ServedItem, group \in ServedGroupItem :
          CASE client.endpoint = "show" -> Take(raw, ShowOrg(item, raw), item)
            [] client.endpoint = "proxyConfig" -> Take(raw, ProxyConfigHandler(item, raw), item)
            [] client.endpoint = "keys" -> Take(raw, ListKeysHandler(item, again), again)
            [] client.endpoint = "group" -> Take(raw, GetGroupHandler(item, group, raw), group)
            [] client.endpoint = "groups" -> Take(raw, ListGroupsHandler(item, group, raw), group)
    /\ UNCHANGED <<primary, stale, puts>>
-----------------------------------------------------------------------------
(* Writes.                                                                  *)
Write(new) ==
    /\ puts < MaxWrites
    /\ new # primary
    /\ primary' = new
    /\ puts' = puts + 1
    /\ UNCHANGED <<stale, client>>

(* create_org                                                               *)
WriteNewOrg(n, c) ==
    /\ primary.org = None
    /\ Write([primary EXCEPT !.org =
                ToItem([name |-> n, status |-> "Draft"], ConfiguredConfig(c), {})])

(* update_handler: the record it was served, with the body's fields, under  *)
(* the keys of the stored item; the etag is computed again.                 *)
WriteUpdate(n, c) ==
    \E item \in ServedItem \ {None} :
        LET config == IF c = None THEN item.config ELSE c
        IN  /\ <<n, config>> # <<item.org.name, item.config>>
            /\ Write([primary EXCEPT !.org =
                        ToItem([item.org EXCEPT !.name = n], ConfiguredConfig(config), @.keys)])

(* transition_handler: the configured pair is carried over as it was read.  *)
WriteStatus ==
    \E item \in ServedItem \ {None} :
        /\ item.org.status = "Draft"
        /\ Write([primary EXCEPT !.org =
                    ToItem([item.org EXCEPT !.status = "Active"], FromItem(item).configured, @.keys)])

(* append_org_keys: a key is generated, named by the write.                 *)
WriteKey ==
    /\ primary.org # None
    /\ Write([primary EXCEPT !.org =
                ToItem(@.org, FromItem(@).configured, @.keys \cup {puts})])

(* put_group and delete_group                                               *)
WriteGroup(e) ==
    /\ primary.org # None
    /\ Write([primary EXCEPT !.group = IF e = None THEN None ELSE EtagedGroup(e)])

(* DynamoDB: a replica catches up with an item.                             *)
CatchUp ==
    /\ \E i \in DOMAIN primary : stale' = [stale EXCEPT ![i] = primary[i]]
    /\ UNCHANGED <<primary, puts, client>>

ReadsNext ==
    \/ \E raw \in Headers : Poll(raw)
    \/ \E n \in OrgNames, c \in Configs \cup {None} : WriteNewOrg(n, c) \/ WriteUpdate(n, c)
    \/ WriteStatus \/ WriteKey
    \/ \E e \in GroupConfigs \cup {None} : WriteGroup(e)
    \/ CatchUp

ReadsSpec == ReadsInit /\ [][ReadsNext]_readVars
-----------------------------------------------------------------------------
(* The part of an item that its etag stands for.                            *)
Tagged(item) ==
    IF item = None THEN None
    ELSE IF client.endpoint = "group" THEN item.entry ELSE item.config

(* A client that revalidates its copy holds what the control plane served:  *)
(* after a 304 to its own entity tag, and after a 200, the copy was made of *)
(* the same config, or group, as the item that was looked at, however often *)
(* the content changed to and fro and whichever replica answered.  Of the   *)
(* organization's own page this says no more than that the config is the    *)
(* same: its etag is the config's, and a new name or status is a 304 too    *)
(* (get_handler, proxy_config_handler).  Items always read back: no 500.    *)
RevalidationIsSound ==
    /\ client.code # 500
    /\ (client.code = 200 \/ (client.code = 304 /\ client.asked.form = "strong")) =>
          /\ client.copy # None
          /\ client.endpoint \in {"proxyConfig", "show", "group"} =>
                Tagged(client.copy.from) = Tagged(client.from)
          /\ client.endpoint = "proxyConfig" => client.copy.body = client.from.config
          /\ client.endpoint = "group" => client.copy.body = client.from.entry
=============================================================================
