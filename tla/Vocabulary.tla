----------------------------- MODULE Vocabulary -----------------------------
(***************************************************************************)
(* Names written down and read back.  A name is built from parts that are   *)
(* already valid, and printed, or it is read from text that somebody typed  *)
(* (serde, headers, configuration and stored events all go through text).   *)
(***************************************************************************)
EXTENDS Names

CONSTANTS Segments,     \* valid segments to build names from
          NativeIds,    \* valid native ids
          Parts         \* fragments, valid or not, that typed texts join

VARIABLES name,         \* the name at hand: its form, value and text
          earlier       \* the name before it

nameVars == <<name, earlier>>

Parse(form, text) ==
    CASE form = "action"   -> ParseQualifiedAction(text)
      [] form = "ref"      -> ParseCedarEntityRef(text)
      [] form = "vpfgrn"   -> ParseVpFgrn(text)
      [] form = "fgrn"     -> ParseFgrn(text)
      [] form = "flag"     -> ParseFlagName(text)
      [] form = "selector" -> ParseSelector(text)

Text(form, value) ==
    CASE form = "action"   -> ActionText(value)
      [] form = "ref"      -> AsCedarStr(value)
      [] form = "vpfgrn"   -> value.raw
      [] form = "fgrn"     -> value.raw
      [] form = "flag"     -> FlagNameText(value)
      [] form = "selector" -> SelectorText(value)

Namespaces == {s \in Segments : ParseNamespace(s) # None}

(* The values the constructors of each form make.  A selector is only ever  *)
(* read.                                                                    *)
Constructible(form) ==
    CASE form = "action" -> {QualifiedAction(n, e, a) : n \in Namespaces, e, a \in Segments}
      [] form = "ref"    -> {CedarEntityRef(n, e, i) : n, e, i \in Segments}
      [] form = "vpfgrn" ->
            {MachineFgrn(p, t, u) : p, t, u \in Segments}
            \cup {UserFgrn(p, t, u) : p, t, u \in Segments}
            \cup {GroupFgrn(p, t, g) : p, t, g \in Segments}
            \cup {PolicyFgrn(p, n) : p, n \in Segments}
            \cup {ResourceFgrn(p, t, CedarEntityRef(n, e, i)) :
                     p \in Segments, t \in Segments, n \in Namespaces, e \in Segments, i \in Segments}
      [] form = "fgrn"   ->
            {IdFgrn(o, k, i) : o \in Segments, k \in FgrnKinds \ {<<"resource">>}, i \in NativeIds}
            \cup {ResourceIdFgrn(o, t, i) : o, t \in Segments, i \in NativeIds}
      [] form = "flag"   -> {FlagName(n, s) : n \in Namespaces \cup {None}, s \in Segments}

BuiltForms == {"action", "ref", "vpfgrn", "fgrn", "flag"}

(* Texts somebody may type: fragments between separators, after the prefix  *)
(* the form starts with.                                                    *)
Typed(form) ==
    CASE form \in {"action", "flag"} ->
            {Joined(p, <<":">>) : p \in UNION {[1 .. n -> Parts] : n \in 1 .. 4}}
      [] form = "ref"      -> {Joined(p, <<":", ":">>) : p \in UNION {[1 .. n -> Parts] : n \in 2 .. 4}}
                              \cup {Joined(<<p, q, r>>, <<":">>) : p, q, r \in Parts}
      [] form = "vpfgrn"   -> {Joined(<< <<"fgrn">>, p, q, r, s, p>>, <<":">>) : p, q, r, s \in Parts}
      [] form = "fgrn"     -> {Joined(<< <<"fgrn">>, p, k, q>>, <<":">>) :
                                  p \in Parts, k \in FgrnKinds \cup {<<"user">>}, q \in Parts}
      [] form = "selector" -> {<<"org", ":">> \o Joined(p, <<".">>) \o e :
                                  p \in UNION {[1 .. n -> Parts] : n \in 1 .. 3},
                                  e \in {<<>>, SubtreeMark, <<"/", "*">>}}

TypedForms == BuiltForms \cup {"selector"}

NamesInit == name = None /\ earlier = None

Build(form) ==
    \E v \in Constructible(form) :
        /\ name' = [form |-> form, value |-> v, text |-> Text(form, v)]
        /\ earlier' = name

Read(form) ==
    \E t \in Typed(form) :
        /\ name' = [form |-> form, value |-> Parse(form, t), text |-> t]
        /\ earlier' = None

NamesNext ==
    \/ name = None /\ \E form \in BuiltForms : Build(form)
    \/ name = None /\ \E form \in TypedForms : Read(form)
    \/ name # None /\ name.form = "action" /\ earlier = None /\ name.value # None /\ Build("action")

-----------------------------------------------------------------------------
(* Printing and parsing are inverse: a name built from valid parts reads    *)
(* back as itself, all its derived fields included, and a text that parses  *)
(* prints as it was typed (the Display and FromStr pairs of crates/core).   *)
(* Two actions get the same Cedar entity type only when they agree on       *)
(* namespace and entity ("unambiguous because Segment forbids underscores", *)
(* cedar_ident.rs), and the action id tells namespaces apart for the same   *)
(* entity and verb (vp_action_id).  The type is a Cedar identifier when the *)
(* namespace starts with a letter; a segment may also start with a digit,   *)
(* which no identifier does.                                                *)
NamesAreFaithful ==
    /\ name # None /\ name.value # None =>
         Parse(name.form, name.text) = name.value /\ Text(name.form, name.value) = name.text
    /\ name # None /\ name.form = "action" /\ name.value # None =>
         (name.value.namespace[1] \in Lower
             <=> IsCedarIdent(CedarEntityType(name.value.namespace, name.value.entity)))
    /\ name # None /\ earlier # None =>
         LET a == name.value
             b == earlier.value
         IN  /\ CedarEntityType(a.namespace, a.entity) = CedarEntityType(b.namespace, b.entity)
                => a.namespace = b.namespace /\ a.entity = b.entity
             /\ VpActionId(a) = VpActionId(b) /\ a.entity = b.entity /\ a.action = b.action => a = b

=============================================================================
