----------------------------- MODULE ModelRouting -----------------------------
(***************************************************************************)
(* The names of models: which names the plugin advertises under its        *)
(* settings, which it claims from the host's router, and which upstream    *)
(* model a name stands for.  A name is the sequence of its segments        *)
(* between slashes, so that a namespace in front of it is a prefix of the  *)
(* sequence; the empty sequence is the empty string.                       *)
(***************************************************************************)
EXTENDS Sequences, SequencesExt

CONSTANTS
    Segments,    \* what may stand between two slashes of a name
    Catalog,     \* the upstream model ids
    ModelMaps    \* the configured models: a sequence of [alias, name]

Namespace == <<"cmdc">>               \* Provider, and the default prefix
OldNamespace == <<"commandcode-go">>
NoName == <<>>
NoSegment == ""                       \* what follows a slash at the end

\* Every id of models_catalog.go is a name, and none starts with a namespace of
\* the plugin.
ASSUME CatalogAssumption ==
    /\ {NoSegment} \cup Range(Namespace) \cup Range(OldNamespace) \subseteq Segments
    /\ Catalog \subseteq Seq(Segments) \ {NoName, <<NoSegment>>}
    /\ \A id \in Catalog : id[1] \notin Range(Namespace) \cup Range(OldNamespace)
    /\ ModelMaps \in Seq([alias : Seq(Segments), name : Seq(Segments)])

\* prefix(): the default, or the setting without a slash at its end.
Prefix(setting) ==
    IF setting = <<>> THEN Namespace
    ELSE IF Last(setting) = NoSegment THEN Front(setting) ELSE setting

\* strings.CutPrefix(name, ns + "/") with something left.
HasNamespace(name, ns) == IsStrictPrefix(ns, name) /\ name # Append(ns, NoSegment)
Cut(name, ns) == IF HasNamespace(name, ns) THEN SubSeq(name, Len(ns) + 1, Len(name)) ELSE name

\* ensureIndexes: a later entry replaces an earlier one with its alias.
NameOf(entry) == IF entry.name = NoName THEN entry.alias ELSE entry.name
Aliases == {entry.alias : entry \in Range(ModelMaps)} \ {NoName}
Claims == Aliases \cup ({NameOf(entry) : entry \in Range(ModelMaps)} \ {NoName})

ByAlias(alias) == NameOf(ModelMaps[SelectLastInSeq(ModelMaps, LAMBDA entry : entry.alias = alias)])

\* Mutant of UpstreamModel: the plugin's own namespace is not taken off a name
\* that was listed before the prefix was changed.
UpstreamPrefixOnly(prefix, model) ==
    LET bare == Cut(Cut(model, prefix), OldNamespace)
    IN  IF bare \in Aliases THEN ByAlias(bare) ELSE bare

\* Mutant of UpstreamModel: the alias is not looked up.
UpstreamUnmapped(prefix, model) == Cut(Cut(Cut(model, prefix), Namespace), OldNamespace)

UpstreamModel(prefix, model) ==
    LET bare == Cut(Cut(Cut(model, prefix), Namespace), OldNamespace)
    IN  IF bare \in Aliases THEN ByAlias(bare) ELSE bare

\* Router.owned before it asks claimsModel.
InNamespace(prefix, model) == \E ns \in {prefix, Namespace, OldNamespace} : HasNamespace(model, ns)

\* ModelProvider.models, with the id each name is there for.
Advertised(showPrefix, includeBare, prefix) ==
    LET Offer(name, id) == [name |-> name, id |-> id]
        prefixed == {Offer(prefix \o id, id) : id \in Catalog}
        bare == {Offer(id, id) : id \in Catalog}
    IN  IF showPrefix THEN prefixed \cup (IF includeBare THEN bare ELSE {}) ELSE bare
=============================================================================
