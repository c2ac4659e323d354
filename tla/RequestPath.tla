----------------------------- MODULE RequestPath -----------------------------
(***************************************************************************)
(* The way of a request: a client lists the models, asks for one of them   *)
(* or for an alias, the router claims it or not, the executor builds the   *)
(* envelope: it converts the messages and resolves the model.  Each reads  *)
(* the settings it needs by themselves, each under its own short lock,     *)
(* while an administrator changes them.                                    *)
(***************************************************************************)
EXTENDS ModelRouting, MessageTranslation

CONSTANTS
    Settings,    \* what the administrator may choose: [prefix, showPrefix, bare, replay]
    Requests,    \* the conversations of a client
    MaxUpdates   \* bound: how often the settings are changed

ASSUME PathAssumption ==
    /\ MaxUpdates \in Nat
    /\ Requests \subseteq Seq(TurnsOfClients)
    /\ Settings \subseteq [prefix : Seq(Segments), showPrefix : BOOLEAN, bare : BOOLEAN, replay : Modes]

VARIABLES
    settings, updates,
    pc,
    view,       \* the settings the call has read so far
    listed,     \* what models() has answered
    asked,      \* the name the client asks for, the model meant by it, and whether it is an alias
    requested,  \* the model the host puts beside the body, the name or nothing
    owned,      \* what the router has answered
    upstream,   \* the model of the envelope
    steady      \* history: no change of settings since the listing began

path == <<settings, updates, pc, view, listed, asked, requested, owned, upstream, steady>>
vars == <<path, translation>>

Init ==
    /\ settings \in Settings /\ updates = 0
    /\ pc = "list"
    /\ view = settings
    /\ listed = {}
    /\ asked = [name |-> NoName, id |-> NoName, alias |-> FALSE]
    /\ requested = NoName
    /\ owned = FALSE /\ upstream = NoName /\ steady = TRUE
    /\ conversation \in Requests
    /\ TranslationInit

-----------------------------------------------------------------------------
\* handleSettings, update: all of them under one lock.
UpdateSettings(new) ==
    /\ updates < MaxUpdates /\ updates' = updates + 1
    /\ new # settings /\ settings' = new
    /\ steady' = FALSE
    /\ UNCHANGED <<pc, view, listed, asked, requested, owned, upstream, translation>>

Follows(stage, after) == pc = stage /\ pc' = after
Looks(field) == view' = [view EXCEPT ![field] = settings[field]]
Administration == <<settings, updates, steady>>

\* models() reads showPrefix, then includeBareModels ...
ListShowPrefix ==
    /\ Follows("list", "listBare") /\ Looks("showPrefix")
    /\ UNCHANGED <<listed, asked, requested, owned, upstream, translation>> /\ UNCHANGED Administration

ListBare ==
    /\ Follows("listBare", "listPrefix") /\ Looks("bare")
    /\ UNCHANGED <<listed, asked, requested, owned, upstream, translation>> /\ UNCHANGED Administration

\* ... and then the prefix.
ListPrefix ==
    /\ Follows("listPrefix", "ask") /\ Looks("prefix")
    /\ listed' = Advertised(view.showPrefix, view.bare, Prefix(settings.prefix))
    /\ UNCHANGED <<asked, requested, owned, upstream, translation>> /\ UNCHANGED Administration

\* The client asks for a listed model or for an alias of the configuration; the
\* host passes the name on beside the body, or leaves it to the body.
Ask ==
    /\ Follows("ask", "route")
    /\ \/ \E offer \in listed : asked' = [name |-> offer.name, id |-> offer.id, alias |-> FALSE]
       \/ \E alias \in Aliases : asked' = [name |-> alias, id |-> ByAlias(alias), alias |-> TRUE]
    /\ requested' \in {NoName, asked'.name}
    /\ UNCHANGED <<view, listed, owned, upstream, translation>> /\ UNCHANGED Administration

\* owned() reads the prefix; the candidates are the requested model and the
\* model of the body, and a blank one is passed over.  They are the same name,
\* so each setting is read for both at once.
Candidates == {requested, asked.name} \ {NoName}

\* Mutant of Route: only the host's name is looked at.
RouteRequestedOnly ==
    /\ Follows("route", "routeBare") /\ Looks("prefix")
    /\ owned' = (requested # NoName /\ (InNamespace(Prefix(settings.prefix), requested) \/ requested \in Claims))
    /\ UNCHANGED <<listed, asked, requested, upstream, translation>> /\ UNCHANGED Administration

Route ==
    /\ Follows("route", "routeBare") /\ Looks("prefix")
    /\ owned' = \E model \in Candidates : InNamespace(Prefix(settings.prefix), model) \/ model \in Claims
    /\ UNCHANGED <<listed, asked, requested, upstream, translation>> /\ UNCHANGED Administration

\* claimsModel reads includeBareModels, and showPrefix if that is off.
ClaimBare ==
    /\ Follows("routeBare", "routeShow") /\ Looks("bare")
    /\ owned' = (owned \/ (settings.bare /\ Candidates \cap Catalog # {}))
    /\ UNCHANGED <<listed, asked, requested, upstream, translation>> /\ UNCHANGED Administration

ClaimShown ==
    /\ Follows("routeShow", "execute") /\ Looks("showPrefix")
    /\ owned' = (owned \/ (~settings.showPrefix /\ Candidates \cap Catalog # {}))
    /\ UNCHANGED <<listed, asked, requested, upstream, translation>> /\ UNCHANGED Administration

\* The host executes what the router claims, and what it has registered.
\* convertMessages reads the replay mode once ...
BeginTranslation ==
    /\ Follows("execute", "translate")
    /\ mode' = settings.replay
    /\ UNCHANGED <<view, listed, asked, requested, owned, upstream>> /\ UNCHANGED Administration
    /\ UNCHANGED <<conversation, pos, toolNames, system, messages>>

\* Mutant of Translate: the replay mode is read for every turn.
TranslateRereads ==
    /\ pc = "translate"
    /\ SystemTurn \/ AssistantTurn(settings.replay) \/ ToolTurn \/ UserTurn
    /\ UNCHANGED path

Translate ==
    /\ pc = "translate"
    /\ SystemTurn \/ AssistantTurn(mode) \/ ToolTurn \/ UserTurn
    /\ UNCHANGED path

\* ... and upstreamModel the prefix after that; a blank model is taken from the
\* body.
Resolve ==
    /\ pos > Len(conversation) /\ Follows("translate", "sent") /\ Looks("prefix")
    /\ upstream' = UpstreamModel(Prefix(settings.prefix), IF requested = NoName THEN asked.name ELSE requested)
    /\ UNCHANGED <<listed, asked, requested, owned, translation>> /\ UNCHANGED Administration

Next ==
    \/ \E new \in Settings : UpdateSettings(new)
    \/ ListShowPrefix \/ ListBare \/ ListPrefix \/ Ask
    \/ Route \/ ClaimBare \/ ClaimShown
    \/ BeginTranslation \/ Translate \/ Resolve

Spec == Init /\ [][Next]_vars

-----------------------------------------------------------------------------
(* Properties                                                              *)

TypeOK ==
    /\ settings \in Settings /\ updates \in 0..MaxUpdates
    /\ view \in [prefix : {s.prefix : s \in Settings}, showPrefix : BOOLEAN, bare : BOOLEAN,
                 replay : Modes]
    /\ owned \in BOOLEAN /\ steady \in BOOLEAN
    /\ pos \in 1..(Len(conversation) + 1)
    /\ toolNames \in [Ids -> Names \cup {NoFunction}]
    /\ \A k \in DOMAIN messages :
          /\ messages[k].parts # <<>>
          /\ \A part \in Range(messages[k].parts) :
                part.type \in {"tool-call", "tool-result"} \/ (part.id = NoId /\ part.name = NoFunction)

\* The configuration may map an id of the catalogue on to another model.
StandsFor(id) == IF id \in Aliases THEN ByAlias(id) ELSE id

\* As long as the settings do not change, every model the plugin lists is
\* claimed by its router, and sent upstream under the id it is listed for or the
\* one that is mapped to (plugin.go:117-154, router.go:23-46, config.go:231-266).
\* One listed name is claimed but not sent under its id: a bare id that starts
\* with the prefix, which upstreamModel takes off (config.go:237).
ListedIsServed ==
    pc = "sent" /\ steady /\ ~asked.alias =>
        /\ owned
        /\ \/ upstream = StandsFor(asked.id)
           \/ asked.name = asked.id /\ HasNamespace(asked.name, Prefix(settings.prefix))

\* A name under the plugin's own namespace is served by the id behind it however
\* the settings have changed since it was listed (config.go:240): only the names
\* under a prefix of the administrator's go stale.
OwnNamespaceNeverStale ==
    pc = "sent" /\ ~asked.alias /\ asked.id \notin Aliases /\ asked.name = Namespace \o asked.id
      /\ (HasNamespace(asked.name, Prefix(view.prefix)) => Prefix(view.prefix) = Namespace)
        => owned /\ upstream = asked.id

\* An alias of the configuration is claimed, and stands for the last model it is
\* mapped to (config.go:204-227), when it starts with no namespace.
AliasIsServed ==
    pc = "sent" /\ asked.alias /\ ~InNamespace(Prefix(view.prefix), asked.name)
        => owned /\ upstream = asked.id

\* config.go:62: an alias stands for the model it is mapped to.
EveryAliasIsServed == pc = "sent" /\ asked.alias => upstream = asked.id

\* The last call with an id before message k is for the function; there is none
\* when the function is NoFunction, or a call without a name.
CallsOf(j, id) == {i \in DOMAIN messages[j].parts :
                      messages[j].parts[i].type = "tool-call" /\ messages[j].parts[i].id = id}

NamedBefore(k, id, function) ==
    \/ function = NoFunction /\ \A j \in 1..(k - 1) : CallsOf(j, id) = {}
    \/ \E j \in 1..(k - 1) : \E last \in CallsOf(j, id) :
          /\ messages[j].parts[last].name = function
          /\ \A i \in CallsOf(j, id) : i <= last
          /\ \A later \in (j + 1)..(k - 1) : CallsOf(later, id) = {}

\* A tool result carries the name of the call it answers: the last one before it
\* with its id; "unknown" when there is none (translator.go:182-185, 243-246).
ResultNamesItsCall ==
    \A k \in DOMAIN messages :
        LET result == messages[k].parts[1]
        IN  result.type = "tool-result" =>
                \E function \in Names \cup {NoFunction} :
                    /\ IF result.id = NoId THEN function = NoFunction
                                           ELSE NamedBefore(k, result.id, function)
                    /\ result.name = (IF function = NoFunction THEN "unknown" ELSE function)

\* The converted messages keep the order of the turns, and every turn that says
\* or shows anything upstream understands is among them with all of it: each
\* call, each user part, each assistant text (translator.go:195-262).
Said(turn) ==
    CASE turn.role = "user" -> Len(ContentParts(turn.content))
      [] turn.role = "tool" -> 1
      [] turn.role = "assistant" -> Len(Texts(turn.content)) + Len(turn.calls)
      [] OTHER -> 0

Replayed(parts) == {i \in DOMAIN parts : parts[i].type \in {"reasoning", "replayed"}}

TurnsKept ==
    /\ \A j, k \in DOMAIN messages : j < k => messages[j].turn < messages[k].turn
    /\ \A t \in 1..(pos - 1) : Said(conversation[t]) > 0 =>
          \E k \in DOMAIN messages :
              /\ messages[k].turn = t /\ messages[k].role = conversation[t].role
              /\ Len(messages[k].parts)
                    = Said(conversation[t]) + Cardinality(Replayed(messages[k].parts))

\* All turns of a request replay reasoning in the same way: as a part, as a
\* block before the first text unless that one starts with a block already, as
\* both or not at all; and a message has at most one such part and at most one
\* such block.  Changing the mode does not split a request (translator.go:186,
\* 199-221).  It says nothing of what the reasoning is: a reasoning that comes in
\* two fields, different in white space, is joined to itself (translator.go:343),
\* and one the client quotes in a later text is not looked for.
TypesOf(t) == {part.type : part \in UNION {Range(messages[k].parts) :
                  k \in {j \in DOMAIN messages : messages[j].turn = t}}}

StartsWithThought(texts) == texts # <<>> /\ texts[1] = "thought"

ReplaysAs(turn, types, how) ==
    /\ "reasoning" \in types <=> how \in {"standard", "both"}
    /\ types \cap {"injected", "replayed"} # {}
          <=> how \in {"inject", "both"} /\ ~StartsWithThought(Texts(turn.content))

AtMostOne(parts, types) ==
    \A i, j \in DOMAIN parts : parts[i].type \in types /\ parts[j].type \in types => i = j

ReplaysOnce(parts) == AtMostOne(parts, {"reasoning"}) /\ AtMostOne(parts, {"injected", "replayed"})

OneReplayMode ==
    /\ \A k \in DOMAIN messages : ReplaysOnce(messages[k].parts)
    /\ \E how \in Modes : \A t \in 1..(pos - 1) :
          LET turn == conversation[t]
          IN  turn.role = "assistant" /\ HasReasoning(turn) => ReplaysAs(turn, TypesOf(t), how)
=============================================================================
