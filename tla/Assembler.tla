----------------------------- MODULE Assembler -----------------------------
(***************************************************************************)
(* assembleNonStreaming (executor.go): the same upstream body folded into  *)
(* one chat-completion response, for a request that did not ask for a      *)
(* stream: first the fold of the events (FoldEvent), then the response     *)
(* that is made of it (Response).  Pure: no state outlives the call.       *)
(* White space at the edges of a fragment that also holds something else   *)
(* is below the grain of the model: TrimSpace drops blank fragments whole. *)
(***************************************************************************)
EXTENDS ChatEvents, Sequences

\* tools and toolOrder are `calls`, and the names of the calls apart.
EmptyFold == [content |-> <<>>, reasoning |-> <<>>, calls |-> <<>>,
              names |-> [id \in ToolIds \cup {NoId} |-> 0],
              finish |-> "stop", usage |-> NoUsage, at |-> 0]

\* touch: the position of the call with this id, a new last one if there is none.
Slot(calls, id) ==
    IF \E i \in DOMAIN calls : calls[i].id = id
    THEN CHOOSE i \in DOMAIN calls : calls[i].id = id
    ELSE Len(calls) + 1

Touch(calls, id) ==
    IF Slot(calls, id) \in DOMAIN calls THEN calls
    ELSE Append(calls, [id |-> id, args |-> <<>>])

AddArgs(calls, id, k) ==
    [Touch(calls, id) EXCEPT ![Slot(calls, id)].args = Append(@, k)]

\* Mutant of WithInput: the input of a complete call always counts.
WithInputAgain(calls, id, k) == AddArgs(calls, id, k)

\* The input of a complete call counts only when no fragment came before it.
WithInput(calls, id, k) ==
    IF Touch(calls, id)[Slot(calls, id)].args = <<>> THEN AddArgs(calls, id, k)
                                                     ELSE Touch(calls, id)

\* The first name a start or a complete call gives stays; a delta gives none.
WithName(names, e, k) ==
    IF names[e.id] = 0 /\ e.type \in StartTypes \cup {"tool-call"}
    THEN [names EXCEPT ![e.id] = NameIn(e, k)]
    ELSE names

FoldEvent(acc, e) ==
    LET k == acc.at + 1
        r == [acc EXCEPT !.at = k, !.names = WithName(acc.names, e, k)]
    IN CASE e.type = "text-delta" /\ e.payload ->
               [r EXCEPT !.content = Append(@, k)]
         [] e.type = "reasoning-delta" /\ e.payload ->
               [r EXCEPT !.reasoning = Append(@, k)]
         [] \/ e.type \in StartTypes
            \/ e.type \in DeltaTypes \cup {"tool-call"} /\ ~e.payload ->
               [r EXCEPT !.calls = Touch(@, e.id)]
         [] e.type \in DeltaTypes /\ e.payload ->
               [r EXCEPT !.calls = AddArgs(@, e.id, k)]
         [] e.type = "tool-call" /\ e.payload ->
               [r EXCEPT !.calls = WithInput(@, e.id, k)]
         [] e.type = "finish" ->
               [r EXCEPT !.finish = IF e.reason = "" THEN @ ELSE MapFinishReason(e.reason),
                         !.usage  = IF e.total THEN UsageBlock(k, TRUE, e.reasoned)
                                    ELSE IF e.usage THEN UsageBlock(k, FALSE, e.reasoned) ELSE @]
         [] e.type = "finish-step" /\ e.usage /\ acc.usage = NoUsage ->
               [r EXCEPT !.usage = UsageBlock(k, FALSE, e.reasoned)]
         [] OTHER -> r

Fold(events) ==
    LET folded[n \in 0..Len(events)] ==
            IF n = 0 THEN EmptyFold ELSE FoldEvent(folded[n - 1], events[n])
    IN  folded[Len(events)]

-----------------------------------------------------------------------------
\* "{}", where a position would name a fragment.
EmptyObject == <<0>>

\* Arguments without the white space at both ends, "{}" if nothing is left.
Trimmed(args, events) ==
    LET solid == {i \in DOMAIN args : ~events[args[i]].blank}
    IN IF solid = {} THEN EmptyObject
       ELSE SubSeq(args, CHOOSE i \in solid : \A j \in solid : i <= j,
                         CHOOSE i \in solid : \A j \in solid : j <= i)

\* The tokens of a block, three zeros (NoUsage) without one; the reasoning
\* tokens are not reported.
Tokens(block) == [block EXCEPT !.reasoned = FALSE]

Response(acc, events) ==
    [content   |-> acc.content,
     reasoning |-> acc.reasoning,
     calls     |-> [i \in DOMAIN acc.calls |->
                      [id   |-> acc.calls[i].id,
                       name |-> acc.names[acc.calls[i].id],
                       arguments |-> Trimmed(acc.calls[i].args, events)]],
     finish    |-> acc.finish,
     usage     |-> Tokens(acc.usage)]

Assemble(events) == Response(Fold(events), events)
=============================================================================
