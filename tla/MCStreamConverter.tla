------------------------- MODULE MCStreamConverter ------------------------
(***************************************************************************)
(* Instance of StreamAgreement, and with it of StreamConverter, for TLC:   *)
(* every kind of line in a short body, and longer bodies of the lines an   *)
(* expected body is made of.                                               *)
(***************************************************************************)
EXTENDS StreamAgreement, TLC

CONSTANT MaxLines    \* bound on the length of a body of lines of any kind

ExpectedInputs ==
    TextEvents({TRUE})
      \cup NamedToo(ToolEvents({"tool-input-start"}, ToolIds, {FALSE}))
      \cup BlankToo(ToolEvents({"tool-input-delta"}, ToolIds, {TRUE}))
      \cup NamedToo(ToolEvents({"tool-call"}, ToolIds, {TRUE}))
      \cup StepEvents \cup FinishEvents({"tool_use"})

AllInputs ==
    ExpectedInputs
      \cup ToolEvents({"tool-input-start"}, {NoId}, {FALSE})
      \cup ToolEvents({"tool-input-delta"}, {NoId}, {TRUE})
      \cup ToolEvents({"tool-input-delta"}, ToolIds, {FALSE})
      \cup {[e EXCEPT !.named = TRUE] : e \in ToolEvents({"tool-input-delta"}, ToolIds, {TRUE})}
      \cup {Plain("text-delta"), Plain("tool-result"), Plain("error"), Plain("finish")}

ToolIdSymmetry == Permutations(ToolIds)

Unmarked(e) == ~e.named /\ ~e.blank /\ ~e.reasoned

\* Lines that carry nothing.
Empty(e) == e.type \in TextTypes \cup DeltaTypes \cup IgnoredByStream /\ ~e.payload

\* Bodies of fewer than MaxLines lines of any kind, with marks, which only an
\* expected body tells apart, if they are expected; of MaxLines lines the same,
\* but nothing empty and no text beside the marks; longer ones only if they are
\* expected, with neither marks nor text.
BodyConsidered ==
    LET unmarked == \A i \in DOMAIN seen' : Unmarked(seen'[i])
        full     == \A i \in DOMAIN seen' : ~Empty(seen'[i])
        textless == \A i \in DOMAIN seen' : seen'[i].type \notin TextTypes
    IN CASE Len(seen') < MaxLines -> unmarked \/ SoFar(seen')
         [] Len(seen') = MaxLines -> (unmarked /\ full) \/ (textless /\ SoFar(seen'))
         [] OTHER                 -> unmarked /\ textless /\ SoFar(seen')

MixedSpec == Init /\ [][Next /\ BodyConsidered]_vars
=============================================================================
