----------------------------- MODULE ChatClient ----------------------------
(***************************************************************************)
(* An OpenAI chat-completions client: it folds the chunks it receives into *)
(* one message, appending content and argument fragments and addressing    *)
(* tool calls by their index.  It is outside this repository; only what    *)
(* the chunks of executor.go rely on is here.                              *)
(***************************************************************************)
EXTENDS ChatEvents, Sequences

EmptyMessage == [content |-> <<>>, reasoning |-> <<>>, calls |-> <<>>,
                 finish |-> "", usage |-> NoUsage, orphan |-> FALSE]

(***************************************************************************)
(* The client's fold.  An argument fragment for an index nobody opened, or *)
(* a call opened out of order, is an orphan the client cannot place.       *)
(***************************************************************************)
Receive(m, f) ==
    LET n == f.index + 1
        done == [m EXCEPT !.finish = IF f.finish = "" THEN @ ELSE f.finish]
    IN CASE f.kind = "content"   -> [done EXCEPT !.content = Append(@, f.src)]
         [] f.kind = "reasoning" -> [done EXCEPT !.reasoning = Append(@, f.src)]
         [] f.kind = "usage"     -> [done EXCEPT !.usage = f.usage]
         [] f.kind = "open" /\ n \in DOMAIN m.calls -> done
         [] f.kind = "open" /\ n = Len(m.calls) + 1 ->
               [done EXCEPT !.calls = Append(@, [call |-> f.call, args |-> <<>>])]
         [] f.kind = "args" /\ n \in DOMAIN m.calls ->
               [done EXCEPT !.calls[n].args = Append(@, f.src)]
         [] f.kind \in {"role", "finish"} -> done
         [] OTHER -> [done EXCEPT !.orphan = TRUE]

\* The message after all the frames.
ClientMessage(frames) ==
    LET received[n \in 0..Len(frames)] ==
            IF n = 0 THEN EmptyMessage ELSE Receive(received[n - 1], frames[n])
    IN  received[Len(frames)]

\* The name of the call with this index: the first one a frame gives it (the
\* name of a later event is a later position), 0 while there is none.
NamesGiven(frames, index) ==
    {frames[j].name : j \in {i \in DOMAIN frames :
                               frames[i].kind = "open" /\ frames[i].index = index}} \ {0}
ToolName(frames, index) ==
    LET given == NamesGiven(frames, index)
    IN IF given = {} THEN 0 ELSE CHOOSE k \in given : \A other \in given : k <= other
=============================================================================
