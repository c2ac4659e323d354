-------------------------- MODULE StreamAgreement --------------------------
(***************************************************************************)
(* The two readers of one upstream body: the converter (ExecuteStream) and *)
(* the assembler (Execute).  For a body upstream writes as the comments of *)
(* executor.go expect it, what they tell a client differs in three places  *)
(* only.  For any body, what a client puts together from the frames so far *)
(* is the refinement mapping under which the converter implements          *)
(* ChatCompletion.                                                         *)
(***************************************************************************)
EXTENDS StreamConverter, ChatClient, Assembler

ToolTypes == StartTypes \cup DeltaTypes \cup {"tool-call"}

\* No line of a body is one upstream is not expected to write there: every
\* tool event has an id, a complete call repeats fragments already sent and a
\* name already given, which a start does, the finish comes last and nothing
\* failed.
SoFar(s) ==
    \A k \in DOMAIN s :
        /\ s[k].type # "error"
        /\ s[k].type \in ToolTypes => s[k].id # NoId
        /\ s[k].type \in DeltaTypes => s[k].payload
        /\ s[k].type = "tool-call" =>
              \E j \in DOMAIN s : j < k /\ s[j].type \in DeltaTypes /\ s[j].id = s[k].id
        /\ s[k].type \in DeltaTypes \cup {"tool-call"} /\ s[k].named =>
              \E j \in DOMAIN s : /\ j < k /\ s[j].type \in StartTypes
                                  /\ s[j].id = s[k].id /\ s[j].named
        /\ s[k].type = "finish" => k = Len(s)

OneUsage(s) == \A j, k \in DOMAIN s : s[j].usage /\ s[k].usage => j = k
FinishUsage(s) ==
    Len(s) # 0 /\ s[Len(s)].type = "finish" /\ (s[Len(s)].usage \/ s[Len(s)].total)

\* A body as upstream is expected to write it, with one usage block, or
\* several and the last with the finish.
AsExpected(s) == SoFar(s) /\ (OneUsage(s) \/ FinishUsage(s))

\* The calls of a streaming client, with arguments trimmed and defaulted as
\* the assembler does it: the client itself holds the fragments as they came.
Calls(m, events) ==
    [i \in DOMAIN m.calls |-> [id   |-> m.calls[i].call[1],
                               name |-> ToolName(out, i - 1),
                               arguments |-> Trimmed(m.calls[i].args, events)]]

\* A streaming client and a non-streaming one get the same content, reasoning
\* and finish reason, the same calls by id, name and order, and the same input,
\* output and total tokens (frames and finalize against assembleNonStreaming).
\* What they get differs in this and in nothing else: the arguments of the
\* second are trimmed, with "{}" for none; it is told zero tokens where the
\* first is told nothing; and only the first is told of reasoning tokens.
BothReadersAgree ==
    doneSent /\ AsExpected(seen) =>
        LET m == ClientMessage(out)
            r == Assemble(seen)
        IN /\ m.content = r.content /\ m.reasoning = r.reasoning
           /\ Calls(m, seen) = r.calls
           /\ m.finish = r.finish /\ Tokens(m.usage) = r.usage
           /\ ~m.orphan

-----------------------------------------------------------------------------
\* The ids of calls in a body: those of upstream, the empty one of a delta,
\* and those minted for the lines of the body.
CallsOfBody == (ToolIds \X {0}) \cup ({NoId} \X (0..MaxEvents))

Client == INSTANCE ChatCompletion WITH
    CallIds <- CallsOfBody,
    at      <- Len(seen),
    message <- ClientMessage(out),
    closed  <- doneSent

\* What a client puts together from the frames, at every point of the body,
\* follows ChatCompletion (streamState.frames, finalize).
ClientSpec == Client!Spec
=============================================================================
