-------------------------- MODULE StreamConverter -------------------------
(***************************************************************************)
(* convertEventStream (executor.go): the fold of one buffered upstream     *)
(* body into the frames of an OpenAI chunk stream.  One Line(e) step is    *)
(* one call of streamState.line; Finalize is the call that ends the fold.  *)
(*                                                                         *)
(* The converter runs alone (its state is local to the request), so the    *)
(* only nondeterminism is the body: any sequence of at most MaxEvents      *)
(* lines of Inputs, complete or cut anywhere.  A frame's rendering (model, *)
(* id, created, JSON) is left out; a marshalling failure cannot occur for  *)
(* these types.  `seen` is a history variable for the properties.          *)
(***************************************************************************)
EXTENDS ChatEvents, Sequences

CONSTANTS
    Inputs,     \* the upstream lines considered
    MaxEvents   \* bound on the number of lines of one body

\* Usage blocks come on finish-step and finish, totalUsage on finish only.
\* (A block on another event is dropped before the finish and taken after it.)
ASSUME InputsAssumption ==
    /\ Inputs \subseteq Event
    /\ \A e \in Inputs : /\ e.usage => e.type \in {"finish-step", "finish"}
                         /\ e.total => e.type = "finish"

ASSUME MaxEventsAssumption == MaxEvents \in Nat

VARIABLES
    seen,       \* history: the lines consumed so far
    roleSent, toolOpen, toolIndex, usage, finished, doneSent,  \* streamState
    out         \* the frames emitted so far

vars == <<seen, roleSent, toolOpen, toolIndex, usage, finished, doneSent, out>>

\* The key of toolOpen: an upstream id, the empty id of a delta without one,
\* or the id minted (a fresh UUID) for a start event without one, which is
\* named by the position of that event.
CallId == (ToolIds \cup {NoId}) \X Nat
NoCall == <<NoId, 0>>

Kinds == {"role", "content", "reasoning", "open", "args", "finish", "usage"}
Frame == [kind : Kinds, src : Nat, index : Nat, call : CallId,
          name : Nat, finish : FinishReasons \cup {""},
          usage : [src : Nat, total : BOOLEAN, reasoned : BOOLEAN]]

Chunk(kind, src) == [kind |-> kind, src |-> src, index |-> 0, call |-> NoCall,
                     name |-> 0, finish |-> "", usage |-> NoUsage]
OpenFrame(c, i, e, k) ==
    [Chunk("open", k) EXCEPT !.call = c, !.index = i, !.name = NameIn(e, k)]
ArgsFrame(i, k)      == [Chunk("args", k) EXCEPT !.index = i]
FinishFrame(reason)  == [Chunk("finish", 0) EXCEPT !.finish = reason]
ErrorFrame(k)        == [Chunk("content", k) EXCEPT !.finish = "stop"]
UsageFrame(u)        == [Chunk("usage", 0) EXCEPT !.usage = u]

Init ==
    /\ seen = <<>> /\ out = <<>>
    /\ roleSent = FALSE /\ finished = FALSE /\ doneSent = FALSE
    /\ toolOpen = [c \in {} |-> 0] /\ toolIndex = 0
    /\ usage = NoUsage

\* The position of the line being consumed.
now == Len(seen) + 1

\* Mutant of Led: roleSent is not looked at.
LedAgain == Append(out, Chunk("role", 0))

\* The frames so far, led by the role delta (roleFrame).
Led == IF roleSent THEN out ELSE Append(out, Chunk("role", 0))

\* Mutant of WithCall: a call looked up again gets a new index.
WithCallRenewed(c) == [d \in DOMAIN toolOpen \cup {c} |->
                          IF d = c THEN toolIndex ELSE toolOpen[d]]

\* toolOpen once call c has been looked up and, if new, given the next index.
WithCall(c) == [d \in DOMAIN toolOpen \cup {c} |->
                   IF d \in DOMAIN toolOpen THEN toolOpen[d] ELSE toolIndex]

\* Mutant of TookCall: the next index is not advanced.
TookCallInPlace(c) == toolOpen' = WithCall(c) /\ UNCHANGED toolIndex

TookCall(c) == /\ toolOpen' = WithCall(c)
               /\ toolIndex' = IF c \in DOMAIN toolOpen THEN toolIndex
                                                        ELSE toolIndex + 1

-----------------------------------------------------------------------------
(***************************************************************************)
(* streamState.frames, by event type.                                      *)
(***************************************************************************)
\* Mutant of Late: nothing is read past the finish.
LateUnread(e) ==
    /\ finished
    /\ UNCHANGED <<roleSent, toolOpen, toolIndex, usage, finished, out>>

\* Past the finish only usage is still recorded, totalUsage last.
Late(e) ==
    /\ finished
    /\ usage' = IF e.total THEN UsageBlock(now, TRUE, e.reasoned)
                ELSE IF e.usage THEN UsageBlock(now, FALSE, e.reasoned) ELSE usage
    /\ UNCHANGED <<roleSent, toolOpen, toolIndex, finished, out>>

\* Mutants of TextDelta: the delta that brings the role frame with it is lost,
\* or is repeated.
TextDeltaLost(e) ==
    /\ ~finished
    /\ e.type \in TextTypes /\ e.payload
    /\ out' = IF roleSent THEN Append(out, Chunk("content", now)) ELSE Led
    /\ roleSent' = TRUE
    /\ UNCHANGED <<toolOpen, toolIndex, usage, finished>>
TextDeltaTwice(e) ==
    /\ ~finished
    /\ e.type \in TextTypes /\ e.payload
    /\ out' = Append(Append(Led, Chunk("content", now)), Chunk("content", now))
    /\ roleSent' = TRUE
    /\ UNCHANGED <<toolOpen, toolIndex, usage, finished>>

TextDelta(e) ==
    /\ ~finished
    /\ e.type \in TextTypes /\ e.payload
    /\ out' = Append(Led, Chunk(IF e.type = "text-delta" THEN "content" ELSE "reasoning", now))
    /\ roleSent' = TRUE
    /\ UNCHANGED <<toolOpen, toolIndex, usage, finished>>

StartedCall(e) == IF e.id = NoId THEN <<NoId, now>> ELSE <<e.id, 0>>

ToolStart(e) ==
    LET c == StartedCall(e) IN
    /\ ~finished
    /\ e.type \in StartTypes
    /\ TookCall(c)
    /\ out' = Append(Led, OpenFrame(c, WithCall(c)[c], e, now))
    /\ roleSent' = TRUE
    /\ UNCHANGED <<usage, finished>>

\* A delta names its call by its id, the empty one included: it never finds
\* the call that was opened under a minted id.
ToolDelta(e) ==
    LET c == <<e.id, 0>> IN
    /\ ~finished
    /\ e.type \in DeltaTypes /\ e.payload
    /\ TookCall(c)
    /\ IF c \in DOMAIN toolOpen
       THEN /\ out' = Append(out, ArgsFrame(toolOpen[c], now))
            /\ UNCHANGED roleSent
       ELSE /\ out' = Append(Append(Led, OpenFrame(c, toolIndex, e, now)),
                               ArgsFrame(toolIndex, now))
            /\ roleSent' = TRUE
    /\ UNCHANGED <<usage, finished>>

\* Empty deltas, complete tool calls, tool results and noise leave no trace.
Ignored(e) ==
    /\ ~finished
    /\ \/ e.type \in TextTypes \cup DeltaTypes /\ ~e.payload
       \/ e.type \in IgnoredByStream
    /\ UNCHANGED <<roleSent, toolOpen, toolIndex, usage, finished, out>>

FinishStep(e) ==
    /\ ~finished
    /\ e.type = "finish-step"
    /\ usage' = IF e.usage THEN UsageBlock(now, FALSE, e.reasoned) ELSE usage
    /\ UNCHANGED <<roleSent, toolOpen, toolIndex, finished, out>>

Finish(e) ==
    /\ ~finished
    /\ e.type = "finish"
    /\ usage' = IF e.total THEN UsageBlock(now, TRUE, e.reasoned)
                ELSE IF e.usage THEN UsageBlock(now, FALSE, e.reasoned) ELSE usage
    /\ out' = Append(Led, FinishFrame(MapFinishReason(e.reason)))
    /\ roleSent' = TRUE /\ finished' = TRUE
    /\ UNCHANGED <<toolOpen, toolIndex>>

Error(e) ==
    /\ ~finished
    /\ e.type = "error"
    /\ out' = Append(Led, ErrorFrame(now))
    /\ roleSent' = TRUE /\ finished' = TRUE
    /\ UNCHANGED <<toolOpen, toolIndex, usage>>

Line(e) ==
    /\ ~doneSent
    /\ Len(seen) < MaxEvents
    /\ \/ Late(e) \/ TextDelta(e) \/ ToolStart(e) \/ ToolDelta(e) \/ Ignored(e)
       \/ FinishStep(e) \/ Finish(e) \/ Error(e)
    /\ seen' = Append(seen, e)
    /\ UNCHANGED doneSent

\* Mutant of Finished: the stream is finished a second time.
FinishedAgain == Append(out, FinishFrame("stop"))

\* A body that ended without a finish gets one; no role delta goes before it.
Finished == IF finished THEN out ELSE Append(out, FinishFrame("stop"))

Finalize ==
    /\ ~doneSent
    /\ doneSent' = TRUE /\ finished' = TRUE
    /\ out' = IF usage = NoUsage THEN Finished ELSE Append(Finished, UsageFrame(usage))
    /\ UNCHANGED <<seen, roleSent, toolOpen, toolIndex, usage>>

Next == (\E e \in Inputs : Line(e)) \/ Finalize

Spec == Init /\ [][Next]_vars

-----------------------------------------------------------------------------
TypeOK ==
    /\ seen \in Seq(Inputs)
    /\ roleSent \in BOOLEAN /\ finished \in BOOLEAN /\ doneSent \in BOOLEAN
    /\ DOMAIN toolOpen \subseteq CallId
    /\ toolOpen \in [DOMAIN toolOpen -> Nat]
    /\ toolIndex \in Nat
    /\ usage \in [src : Nat, total : BOOLEAN, reasoned : BOOLEAN]
    /\ out \in Seq(Frame)

PayloadKinds == {"content", "reasoning", "args"}

\* The role delta is the first frame of the answer and comes once, whichever
\* of the six kinds of event starts the answer (roleFrame and its callers).
\* Only an answer nobody started (Finalize on an empty body) goes without it.
RoleLeads ==
    /\ \A i \in DOMAIN out : out[i].kind = "role" <=> roleSent /\ i = 1
    /\ ~roleSent => \A i \in DOMAIN out : out[i].kind \in {"finish", "usage"}

\* One finish reason, however the stream ends (finish, error, cut short, or
\* several of them), and after it nothing but one usage frame, which is last.
FinishEndsStream ==
    /\ \A i \in DOMAIN out : out[i].finish # "" => finished
    /\ finished => \E i \in DOMAIN out : out[i].finish # ""
    /\ \A i, j \in DOMAIN out : out[i].finish # "" /\ i < j
          => /\ out[j].kind = "usage" /\ out[j].finish = ""
             /\ doneSent /\ j = Len(out)
    /\ \A j \in DOMAIN out : out[j].kind = "usage" => \E i \in DOMAIN out : i < j /\ out[i].finish # ""

\* Tool indices are handed out densely and never shared by two ids, and an
\* index stays with its id: a client that addresses calls by index never mixes
\* the arguments of two calls (toolOpen, toolIndex).
IndexPerCall ==
    /\ \A c \in DOMAIN toolOpen : toolOpen[c] < toolIndex
    /\ \A c, d \in DOMAIN toolOpen : toolOpen[c] = toolOpen[d] => c = d
    /\ \A i \in DOMAIN out : out[i].kind = "open" =>
          /\ out[i].call \in DOMAIN toolOpen
          /\ out[i].index = toolOpen[out[i].call]
    /\ \A c \in DOMAIN toolOpen : \E i \in DOMAIN out : out[i].kind = "open" /\ out[i].call = c

\* Every argument fragment goes to the call of its event's id, after the frame
\* that opened that call, also when the delta came before the start event.
ArgumentsReachTheirCall ==
    \A i \in DOMAIN out : out[i].kind = "args" =>
        /\ out[i].src \in DOMAIN seen
        /\ LET c == <<seen[out[i].src].id, 0>> IN
           /\ c \in DOMAIN toolOpen /\ out[i].index = toolOpen[c]
           /\ \E j \in DOMAIN out : j < i /\ out[j].kind = "open" /\ out[j].call = c

\* Payloads leave in the order they came and none leaves twice.
PayloadInOrder ==
    \A i, j \in DOMAIN out :
        i < j /\ out[i].kind \in PayloadKinds /\ out[j].kind \in PayloadKinds
            => out[i].src < out[j].src

Terminal(e) == e.type \in {"finish", "error"}
\* The frame kind that has to carry the event's payload, if it has one.
CarriedBy(e) == CASE e.type = "text-delta" -> "content"
                  [] e.type = "reasoning-delta" -> "reasoning"
                  [] e.type \in DeltaTypes -> "args"
                  [] OTHER -> "none"

\* No payload that came before the terminal event is lost, whatever came in
\* between (repeated starts, ids never announced, empty ids).
PayloadComplete ==
    \A k \in DOMAIN seen :
        /\ seen[k].payload /\ CarriedBy(seen[k]) # "none"
        /\ \A j \in DOMAIN seen : j < k => ~Terminal(seen[j])
        => \E i \in DOMAIN out : out[i].src = k /\ out[i].kind = CarriedBy(seen[k])

\* The usage the client is told is the latest block upstream reported, on
\* either side of the finish, totalUsage wins within one event, and reasoning
\* tokens are reported exactly when that block counts some.
LatestUsageReported ==
    /\ usage.src \in 0..Len(seen)
    /\ usage.src = 0 => usage = NoUsage
    /\ \A k \in DOMAIN seen : (seen[k].usage \/ seen[k].total) => k <= usage.src
    /\ usage.src # 0 => /\ seen[usage.src].usage \/ seen[usage.src].total
                        /\ usage.total = seen[usage.src].total
                        /\ usage.reasoned = seen[usage.src].reasoned
    /\ \A i \in DOMAIN out : out[i].kind = "usage" => out[i].usage = usage
    /\ doneSent /\ usage # NoUsage => \E i \in DOMAIN out : out[i].kind = "usage"

=============================================================================
