-------------------------- MODULE MessageTranslation --------------------------
(***************************************************************************)
(* Translator.convertMessages: the turns of an OpenAI conversation become  *)
(* messages of typed parts, one turn per step.  A text is only told apart  *)
(* by whether it starts with a <thought> block, was given one here         *)
(* ("injected"), or consists of one alone ("replayed").                    *)
(***************************************************************************)
EXTENDS Naturals, Sequences, SequencesExt

CONSTANTS
    Ids,     \* ids of tool calls
    NoId,    \* the empty id
    Names,   \* names of functions
    NoFunction

\* The turns of a client; "developer" counts as "system", any unknown role as "user".
Roles == {"system", "user", "assistant", "tool"}
Calls == [id : Ids \cup {NoId}, name : Names \cup {NoFunction}]
Contents == {"text", "thought", "image", "remote", "thinking", "blank"}
TurnsOfClients == [role : Roles, content : Seq(Contents), reasoning : BOOLEAN,
                   calls : Seq(Calls), id : Ids \cup {NoId}]

ASSUME EmptyAssumption == NoId \notin Ids /\ NoFunction \notin Names

VARIABLES
    conversation,   \* the turns of the request
    pos,            \* the turn to convert next
    mode,           \* replayMode, read before the first turn
    toolNames,      \* the function each call id belongs to
    system,         \* the texts of the system prompt
    messages        \* what has been converted, with the turn it comes from

translation == <<conversation, pos, mode, toolNames, system, messages>>

Modes == {"both", "standard", "inject", "off"}

Part(type) == [type |-> type, id |-> NoId, name |-> NoFunction]
CallPart(call) == [type |-> "tool-call", id |-> call.id, name |-> call.name]
ResultPart(id, name) == [type |-> "tool-result", id |-> id, name |-> name]
Parts(types) == [i \in DOMAIN types |-> Part(types[i])]

\* What is left of a content without the parts of some kinds, in its order.
Without(content, kinds) ==
    LET kept[n \in 0..Len(content)] ==
            IF n = 0 THEN <<>>
            ELSE IF content[n] \in kinds THEN kept[n - 1] ELSE Append(kept[n - 1], content[n])
    IN  kept[Len(content)]

\* contentParts: empty texts and reasoning are left out, a remote image becomes
\* a text that refers to it.
ContentParts(content) ==
    LET kept == Without(content, {"thinking", "blank"})
    IN  [i \in DOMAIN kept |-> IF kept[i] = "remote" THEN "text" ELSE kept[i]]

\* extractTexts: system and assistant turns keep their texts only.
Texts(content) == Without(ContentParts(content), {"image"})

\* extractReasoning has found something to replay.
HasReasoning(turn) == turn.reasoning \/ "thinking" \in Range(turn.content)

\* The replayed reasoning goes before the first text, unless one is there.
Injected(texts) ==
    IF texts = <<>> THEN <<"replayed">>
    ELSE IF texts[1] = "thought" THEN texts
    ELSE <<"injected">> \o Tail(texts)

AssistantParts(turn, replay) ==
    LET standard == HasReasoning(turn) /\ replay \in {"standard", "both"}
        inject == HasReasoning(turn) /\ replay \in {"inject", "both"}
        texts == IF inject THEN Injected(Texts(turn.content)) ELSE Texts(turn.content)
    IN  (IF standard THEN <<Part("reasoning")>> ELSE <<>>)
          \o Parts(texts) \o [i \in DOMAIN turn.calls |-> CallPart(turn.calls[i])]

\* Mutant of Recorded: the first call of an id keeps it.
RecordedOnce(names, calls) ==
    [id \in Ids |->
        LET first == SelectInSeq(calls, LAMBDA call : call.id = id)
        IN  IF names[id] # NoFunction \/ first = 0 THEN names[id] ELSE calls[first].name]

\* A call with an id is remembered for its result; a later one takes the id over.
Recorded(names, calls) ==
    [id \in Ids |->
        LET last == SelectLastInSeq(calls, LAMBDA call : call.id = id)
        IN  IF last = 0 THEN names[id] ELSE calls[last].name]

Turn == conversation[pos]
Message(parts) == [turn |-> pos, role |-> Turn.role, parts |-> parts]

\* Mutant of Emits: a turn of one part is taken for an empty one.
EmitsLong(parts) == messages' = (IF Len(parts) > 1 THEN Append(messages, Message(parts)) ELSE messages)

\* Mutant of Emits: a turn with nothing to say is sent as well.
EmitsAll(parts) == messages' = Append(messages, Message(parts))

\* A message without parts is left out.
Emits(parts) == messages' = (IF parts # <<>> THEN Append(messages, Message(parts)) ELSE messages)

Takes(role) ==
    /\ pos <= Len(conversation)
    /\ Turn.role = role
    /\ pos' = pos + 1
    /\ UNCHANGED <<conversation, mode>>

SystemTurn ==
    /\ Takes("system")
    /\ system' = system \o Texts(Turn.content)
    /\ UNCHANGED <<toolNames, messages>>

AssistantTurn(replay) ==
    /\ Takes("assistant")
    /\ Emits(AssistantParts(Turn, replay))
    /\ toolNames' = Recorded(toolNames, Turn.calls)
    /\ UNCHANGED system

ToolTurn ==
    /\ Takes("tool")
    /\ LET known == IF Turn.id = NoId THEN NoFunction ELSE toolNames[Turn.id]
       IN  Emits(<<ResultPart(Turn.id, IF known = NoFunction THEN "unknown" ELSE known)>>)
    /\ UNCHANGED <<toolNames, system>>

UserTurn ==
    /\ Takes("user")
    /\ Emits(Parts(ContentParts(Turn.content)))
    /\ UNCHANGED <<toolNames, system>>

TranslationInit ==
    /\ pos = 1 /\ mode = "off"
    /\ toolNames = [id \in Ids |-> NoFunction]
    /\ system = <<>> /\ messages = <<>>
=============================================================================
