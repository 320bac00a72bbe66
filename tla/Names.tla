------------------------------- MODULE Names --------------------------------
(***************************************************************************)
(* The names of the domain and their text forms (crates/core/src): segments,*)
(* native ids, qualified actions and patterns, entity references, both      *)
(* kinds of FGRN, flag names, selectors, and the identifiers derived from   *)
(* them for Cedar.  A text is a sequence of tokens; a token is a lowercase  *)
(* word, a digit, an uppercase letter or one punctuation character.  A      *)
(* parser returns None where the code returns an error.                     *)
(***************************************************************************)
EXTENDS Naturals, SequencesExt, Options

CONSTANTS Lower, Digits, Upper     \* the tokens that are not punctuation

SplitN(text, sep, n) ==
    FoldLeft(LAMBDA parts, t : IF t = sep /\ Len(parts) < n THEN Append(parts, <<>>)
                               ELSE [parts EXCEPT ![Len(parts)] = Append(@, t)],
             << <<>> >>, text)

Split(text, sep) == SplitN(text, sep, Len(text) + 1)

(* split("::"): the leftmost, non-overlapping pairs of colons separate.     *)
SplitColons(text) ==
    FoldLeft(LAMBDA parts, t :
                 LET part == parts[Len(parts)]
                 IN  IF t = ":" /\ part # <<>> /\ Last(part) = ":"
                     THEN Append([parts EXCEPT ![Len(parts)] = Front(part)], <<>>)
                     ELSE [parts EXCEPT ![Len(parts)] = Append(@, t)],
             << <<>> >>, text)

Joined(parts, sep) ==
    FoldLeft(LAMBDA text, part : text \o sep \o part, Head(parts), Tail(parts))

-----------------------------------------------------------------------------
(* Segments and native ids.                                                 *)

IsSegment(text) ==
    /\ text # <<>>
    /\ text[1] \in Lower \cup Digits
    /\ Last(text) # "-"
    /\ ~\E i \in 1 .. Len(text) - 1 : text[i] = "-" /\ text[i + 1] = "-"
    /\ ToSet(text) \subseteq Lower \cup Digits \cup {"-"}

(* UserId, TenantId, GroupName and the other ids that define_id! makes.      *)
IsTypedId(text) == IsSegment(text)

ParseSegment(text) == IF IsSegment(text) THEN text ELSE None

IsNativeId(text) == text # <<>> /\ ToSet(text) \cap {" ", ":", "*"} = {}

-----------------------------------------------------------------------------
(* Actions, action patterns and references to Cedar entities.               *)

ReservedNamespaces == {<<"iam">>, <<"forgeguard">>}

ParseNamespace(text) == IF text \in ReservedNamespaces THEN None ELSE ParseSegment(text)

QualifiedAction(namespace, entity, action) ==
    [namespace |-> namespace, entity |-> entity, action |-> action]

ParseQualifiedAction(text) ==
    LET parts == SplitN(text, ":", 4)
    IN  IF /\ Len(parts) = 3
           /\ ParseNamespace(parts[1]) # None /\ IsSegment(parts[2]) /\ IsSegment(parts[3])
        THEN QualifiedAction(parts[1], parts[2], parts[3]) ELSE None

ActionText(qa) == Joined(<<qa.namespace, qa.entity, qa.action>>, <<":">>)

(* A position of a pattern; the wildcard is << "*" >>.                      *)
Wildcard == <<"*">>

ParsePatternSegment(text) == IF text = Wildcard THEN Wildcard ELSE ParseSegment(text)

ParseActionPattern(text) ==
    LET parts == SplitN(text, ":", 4)
    IN  IF Len(parts) = 3 /\ \A i \in 1 .. 3 : ParsePatternSegment(parts[i]) # None
        THEN QualifiedAction(parts[1], parts[2], parts[3]) ELSE None

SegmentMatches(pattern, segment) == pattern = Wildcard \/ pattern = segment

PatternMatches(pattern, qa) ==
    /\ SegmentMatches(pattern.namespace, qa.namespace)
    /\ SegmentMatches(pattern.action, qa.action)
    /\ SegmentMatches(pattern.entity, qa.entity)

CedarEntityRef(namespace, entity, id) == [namespace |-> namespace, entity |-> entity, id |-> id]

ParseCedarEntityRef(text) ==
    LET parts == SplitColons(text)
    IN  IF Len(parts) = 3 /\ \A i \in 1 .. 3 : IsSegment(parts[i])
        THEN CedarEntityRef(parts[1], parts[2], parts[3]) ELSE None

AsCedarStr(ref) == Joined(<<ref.namespace, ref.entity, ref.id>>, <<":", ":">>)

-----------------------------------------------------------------------------
(* Cedar identifiers.                                                       *)

ToCedarIdent(segment) == [i \in DOMAIN segment |-> IF segment[i] = "-" THEN "_" ELSE segment[i]]

IsCedarIdent(text) ==
    /\ text # <<>>
    /\ text[1] \in Lower \cup Upper \cup {"_"}
    /\ ToSet(text) \subseteq Lower \cup Upper \cup Digits \cup {"_"}

CedarNamespace(project) == ToCedarIdent(project)

CedarEntityType(namespace, entity) ==
    ToCedarIdent(namespace) \o <<"_", "_">> \o ToCedarIdent(entity)

Qualified(project, name) == CedarNamespace(project) \o <<":", ":">> \o name

VpActionType(project) == Qualified(project, <<"Action">>)

VpActionId(qa) == Joined(<<qa.namespace, qa.entity, qa.action>>, <<"-">>)

CedarActionRef(qa, project) == <<VpActionType(project), VpActionId(qa)>>

VpEntityType(qa, project) == Qualified(project, CedarEntityType(qa.namespace, qa.entity))

-----------------------------------------------------------------------------
(* The six-position FGRN of the Verified Permissions era.  None is "-", a   *)
(* position that does not apply.                                            *)

VpFgrn(project, tenant, namespace, type, id) ==
    LET Show(segment) == IF segment = None THEN <<"-">> ELSE segment
    IN  [project |-> project, tenant |-> tenant, namespace |-> namespace, type |-> type, id |-> id,
         raw |-> Joined(<< <<"fgrn">>, Show(project), Show(tenant), namespace, type, id>>, <<":">>)]

ParseFgrnSegment(text) == ParsePatternSegment(text)

ParseVpFgrn(text) ==
    LET parts       == SplitN(text, ":", 6)
        Optional(t) == IF t = <<"-">> THEN None ELSE ParseFgrnSegment(t)
    IN  IF /\ Len(parts) = 6 /\ parts[1] = <<"fgrn">>
           /\ \A i \in {2, 3} : parts[i] = <<"-">> \/ ParseFgrnSegment(parts[i]) # None
           /\ \A i \in 4 .. 6 : ParseFgrnSegment(parts[i]) # None
        THEN [project |-> Optional(parts[2]), tenant |-> Optional(parts[3]),
              namespace |-> parts[4], type |-> parts[5], id |-> parts[6], raw |-> text]
        ELSE None

UserFgrn(project, tenant, user)       == VpFgrn(project, tenant, <<"iam">>, <<"user">>, user)
MachineFgrn(project, tenant, user)    == VpFgrn(project, tenant, <<"iam">>, <<"machine">>, user)
GroupFgrn(project, tenant, group)     == VpFgrn(project, tenant, <<"iam">>, <<"group">>, group)
PolicyFgrn(project, policy)           == VpFgrn(project, None, <<"forgeguard">>, <<"policy">>, policy)
ResourceFgrn(project, tenant, ref)    == VpFgrn(project, tenant, ref.namespace, ref.entity, ref.id)

-----------------------------------------------------------------------------
(* The four-position FGRN.                                                  *)

FgrnKinds == {<<"orgunit">>, <<"principal">>, <<"principal", "-", "set">>, <<"resource">>}

NewFgrn(organization, kind, id, type, native) ==
    [organization |-> organization, kind |-> kind, id |-> id, type |-> type, native |-> native,
     raw |-> Joined(<< <<"fgrn">>, organization, kind, id>>, <<":">>)]

IdFgrn(organization, kind, id) == NewFgrn(organization, kind, id, None, None)

ResourceIdFgrn(organization, type, native) ==
    NewFgrn(organization, <<"resource">>, type \o <<"/">> \o native, type, native)

(* Mutant: the resource id is split at its last slash.                      *)
ResourcePartsLast(id) ==
    LET parts == Split(id, "/")
    IN  IF Len(parts) < 2 THEN << >> ELSE <<Joined(Front(parts), <<"/">>), Last(parts)>>

ResourceParts(id) == LET parts == SplitN(id, "/", 2) IN IF Len(parts) = 2 THEN parts ELSE <<>>

ParseFgrn(text) ==
    LET parts == SplitN(text, ":", 4)
        id    == parts[4]
        pair  == ResourceParts(id)
    IN  IF ~(Len(parts) = 4 /\ parts[1] = <<"fgrn">> /\ IsSegment(parts[2]) /\ parts[3] \in FgrnKinds)
        THEN None
        ELSE IF parts[3] # <<"resource">>
        THEN IF IsNativeId(id) THEN [IdFgrn(parts[2], parts[3], id) EXCEPT !.raw = text] ELSE None
        ELSE IF pair # <<>> /\ IsSegment(pair[1]) /\ IsNativeId(pair[2]) /\ IsNativeId(id)
        THEN [NewFgrn(parts[2], parts[3], id, pair[1], pair[2]) EXCEPT !.raw = text] ELSE None

-----------------------------------------------------------------------------
(* Flag names and selectors.                                                *)

FlagName(namespace, name) == [namespace |-> namespace, name |-> name]

ParseFlagName(text) ==
    LET parts == SplitN(text, ":", 2)
    IN  IF Len(parts) = 2
        THEN IF ParseNamespace(parts[1]) # None /\ IsSegment(parts[2])
             THEN FlagName(parts[1], parts[2]) ELSE None
        ELSE IF IsSegment(text) THEN FlagName(None, text) ELSE None

FlagNameText(flag) ==
    IF flag.namespace = None THEN flag.name ELSE Joined(<<flag.namespace, flag.name>>, <<":">>)

Selector(organization, path, scope) ==
    [organization |-> organization, path |-> path, scope |-> scope]

SubtreeMark == <<"/", "*", "*">>

ParseSelector(text) ==
    LET stripped == IsSuffix(SubtreeMark, text)
        body     == SubSeq(text, 3, Len(text) - (IF stripped THEN 3 ELSE 0))
        parts    == Split(body, ".")
    IN  IF \/ ~IsPrefix(<<"org", ":">>, text) \/ "/" \in ToSet(body)
           \/ ~IsSegment(parts[1]) \/ \E i \in 2 .. Len(parts) : ~IsNativeId(parts[i])
        THEN None ELSE Selector(parts[1], Tail(parts), IF stripped THEN "Subtree" ELSE "Node")

SelectorText(selector) ==
    <<"org", ":">> \o Joined(<<selector.organization>> \o selector.path, <<".">>)
    \o (IF selector.scope = "Subtree" THEN SubtreeMark ELSE <<>>)
=============================================================================
