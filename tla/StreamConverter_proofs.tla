----------------------- MODULE StreamConverter_proofs -----------------------
(***************************************************************************)
(* Proofs about StreamConverter, for every set of tool ids, every set of   *)
(* inputs and every bound on the body: the invariants of the frames, the   *)
(* agreement of the frames with what a client puts together from them,     *)
(* the refinement of ChatCompletion, and the agreement of a streaming      *)
(* client with a non-streaming one.                                        *)
(***************************************************************************)
EXTENDS StreamAgreement, SequenceTheorems, WellFoundedInduction, TLAPS

\* Every upstream reason is mapped to one of OpenAI's.
LEMMA MapFinishReasonType ==
    ASSUME NEW r PROVE MapFinishReason(r) \in FinishReasons
BY DEF MapFinishReason, FinishReasons

\* The frames the converter builds, field by field.
LEMMA ChunkFields ==
    ASSUME NEW kind \in Kinds, NEW k \in Nat
    PROVE  /\ Chunk(kind, k) \in Frame
           /\ Chunk(kind, k).kind = kind /\ Chunk(kind, k).src = k
           /\ Chunk(kind, k).finish = ""
BY DEF Chunk, Frame, NoCall, CallId, NoUsage

\* The frame that opens a call.
LEMMA OpenFields ==
    ASSUME NEW c \in CallId, NEW i \in Nat, NEW e, NEW k \in Nat
    PROVE  /\ OpenFrame(c, i, e, k) \in Frame
           /\ OpenFrame(c, i, e, k).kind = "open" /\ OpenFrame(c, i, e, k).finish = ""
           /\ OpenFrame(c, i, e, k).call = c /\ OpenFrame(c, i, e, k).index = i
BY DEF OpenFrame, NameIn, Chunk, Frame, Kinds, NoCall, CallId, NoUsage

\* The frame that carries a fragment of arguments.
LEMMA ArgsFields ==
    ASSUME NEW i \in Nat, NEW k \in Nat
    PROVE  /\ ArgsFrame(i, k) \in Frame
           /\ ArgsFrame(i, k).kind = "args" /\ ArgsFrame(i, k).finish = ""
           /\ ArgsFrame(i, k).index = i /\ ArgsFrame(i, k).src = k
BY DEF ArgsFrame, Chunk, Frame, Kinds, NoCall, CallId, NoUsage

\* The frame that finishes the answer.
LEMMA FinishFields ==
    ASSUME NEW r \in FinishReasons
    PROVE  /\ FinishFrame(r) \in Frame
           /\ FinishFrame(r).kind = "finish" /\ FinishFrame(r).finish # ""
BY DEF FinishFrame, Chunk, Frame, Kinds, NoCall, CallId, NoUsage, FinishReasons

\* The frame an error event becomes: content that finishes.
LEMMA ErrorFields ==
    ASSUME NEW k \in Nat
    PROVE  /\ ErrorFrame(k) \in Frame
           /\ ErrorFrame(k).kind = "content" /\ ErrorFrame(k).finish # ""
           /\ ErrorFrame(k).src = k
BY DEF ErrorFrame, Chunk, Frame, Kinds, NoCall, CallId, NoUsage, FinishReasons

\* The frame that reports usage.
LEMMA UsageFields ==
    ASSUME NEW u \in [src : Nat, total : BOOLEAN, reasoned : BOOLEAN]
    PROVE  /\ UsageFrame(u) \in Frame
           /\ UsageFrame(u).kind = "usage" /\ UsageFrame(u).finish = ""
           /\ UsageFrame(u).usage = u
BY DEF UsageFrame, Chunk, Frame, Kinds, NoCall, CallId, NoUsage, FinishReasons

(***************************************************************************)
(* Frames are only ever appended: what Append does, and the frames a step  *)
(* starts from (Led: with the role delta, Finished: with the finish).      *)
(***************************************************************************)
LEMMA Push ==
    ASSUME NEW S, NEW s \in Seq(S), NEW f \in S
    PROVE  /\ Append(s, f) \in Seq(S)
           /\ Len(s) \in Nat /\ DOMAIN s = 1..Len(s)
           /\ Len(Append(s, f)) = Len(s) + 1
           /\ DOMAIN Append(s, f) = 1..(Len(s) + 1)
           /\ \A i \in 1..Len(s) : Append(s, f)[i] = s[i]
           /\ Append(s, f)[Len(s) + 1] = f
BY AppendProperties, LenProperties

\* The frames so far, led by the role, are frames.
LEMMA LedType == TypeOK => Led \in Seq(Frame)
<1>1. Chunk("role", 0) \in Frame
  BY DEF Chunk, Frame, Kinds, NoCall, CallId, NoUsage
<1> QED
  BY <1>1, Push DEF TypeOK, Led

\* Leading adds the role frame at the end of nothing, or adds nothing.
LEMMA LedFrames ==
    ASSUME TypeOK
    PROVE  /\ Len(out) \in Nat /\ DOMAIN out = 1..Len(out)
           /\ Len(Led) \in Nat /\ DOMAIN Led = 1..Len(Led)
           /\ \A i \in DOMAIN out : Led[i] = out[i]
           /\ roleSent => Len(Led) = Len(out)
           /\ ~roleSent => /\ Len(Led) = Len(out) + 1
                           /\ Led[Len(out) + 1] = Chunk("role", 0)
<1>1. Chunk("role", 0) \in Frame
  BY DEF Chunk, Frame, Kinds, NoCall, CallId, NoUsage
<1>2. out \in Seq(Frame)
  BY DEF TypeOK
<1> QED
  BY <1>1, <1>2, Push, LenProperties DEF Led

(***************************************************************************)
(* Type correctness.                                                       *)
(***************************************************************************)
LEMMA WithCallType ==
    ASSUME TypeOK, NEW c \in CallId
    PROVE  /\ DOMAIN WithCall(c) = DOMAIN toolOpen \cup {c}
           /\ DOMAIN WithCall(c) \subseteq CallId
           /\ WithCall(c) \in [DOMAIN WithCall(c) -> Nat]
           /\ \A d \in DOMAIN toolOpen : WithCall(c)[d] = toolOpen[d]
           /\ WithCall(c)[c] \in Nat
           /\ c \notin DOMAIN toolOpen => WithCall(c)[c] = toolIndex
BY DEF TypeOK, WithCall

\* The number of the line being read.
LEMMA NowType == TypeOK => now \in Nat
BY LenProperties DEF TypeOK, now

\* Lines are numbered from one.
LEMMA NowPositive == TypeOK => now >= 1
BY LenProperties DEF TypeOK, now

\* Finishing adds a frame like the others.
LEMMA FinishedType ==
    ASSUME TypeOK
    PROVE  /\ FinishFrame("stop") \in Frame
           /\ Finished \in Seq(Frame)
BY FinishFields, Push DEF TypeOK, Finished, FinishReasons

\* The types hold at the start.
LEMMA TypeInit == Init => TypeOK
<1> SUFFICES ASSUME Init PROVE TypeOK
  OBVIOUS
<1>1. seen \in Seq(Inputs) /\ out \in Seq(Frame)
  BY EmptySeq DEF Init
<1>2. DOMAIN toolOpen = {} /\ toolOpen \in [DOMAIN toolOpen -> Nat]
  BY DEF Init
<1> QED
  BY <1>1, <1>2 DEF Init, TypeOK, NoUsage

\* Every step keeps the types.
LEMMA TypeNext == TypeOK /\ [Next]_vars => TypeOK'
<1> SUFFICES ASSUME TypeOK, [Next]_vars PROVE TypeOK'
  OBVIOUS
<1> USE DEF TypeOK
<1>1. ASSUME NEW e \in Inputs, Line(e) PROVE TypeOK'
  <2>1. seen' \in Seq(Inputs) /\ doneSent' \in BOOLEAN
    BY <1>1 DEF Line
  <2>2. now \in Nat /\ Led \in Seq(Frame) /\ now \in Nat
    BY NowType, LedType
  <2>3. e \in Event
    BY InputsAssumption
  <2>4. /\ UsageBlock(now, TRUE, e.reasoned) \in [src : Nat, total : BOOLEAN, reasoned : BOOLEAN]
        /\ UsageBlock(now, FALSE, e.reasoned) \in [src : Nat, total : BOOLEAN, reasoned : BOOLEAN]
    BY <2>2, <2>3 DEF UsageBlock, Event
  <2>5. <<e.id, 0>> \in CallId /\ StartedCall(e) \in CallId
    BY <2>2, <2>3 DEF Event, CallId, StartedCall
  <2>6. CASE Late(e)
    BY <2>1, <2>4, <2>6 DEF Late
  <2>7. CASE TextDelta(e)
    <3>1. Chunk(IF e.type = "text-delta" THEN "content" ELSE "reasoning", now) \in Frame
      BY <2>2, ChunkFields DEF Kinds
    <3> QED
      BY <2>1, <2>2, <2>7, <3>1, Push DEF TextDelta
  <2>8. CASE ToolStart(e)
    <3> DEFINE c == StartedCall(e)
    <3>1. /\ DOMAIN WithCall(c) \subseteq CallId
          /\ WithCall(c) \in [DOMAIN WithCall(c) -> Nat]
          /\ WithCall(c)[c] \in Nat
      BY <2>5, WithCallType
    <3>2. OpenFrame(c, WithCall(c)[c], e, now) \in Frame
      BY <2>2, <2>5, <3>1, OpenFields
    <3>3. out' \in Seq(Frame)
      BY <2>2, <2>8, <3>2, Push DEF ToolStart
    <3>4. toolOpen' = WithCall(c) /\ toolIndex' \in Nat
      BY <2>8 DEF ToolStart, TookCall
    <3> QED
      BY <2>1, <2>8, <3>1, <3>3, <3>4 DEF ToolStart
  <2>9. CASE ToolDelta(e)
    <3> DEFINE c == <<e.id, 0>>
    <3>1. /\ DOMAIN WithCall(c) \subseteq CallId
          /\ WithCall(c) \in [DOMAIN WithCall(c) -> Nat]
      BY <2>5, WithCallType
    <3>2. toolOpen' = WithCall(c) /\ toolIndex' \in Nat
      BY <2>9 DEF ToolDelta, TookCall
    <3>3. CASE c \in DOMAIN toolOpen
      <4>1. out' = Append(out, ArgsFrame(toolOpen[c], now)) /\ UNCHANGED <<roleSent, usage, finished>>
        BY <2>9, <3>3 DEF ToolDelta
      <4>2. ArgsFrame(toolOpen[c], now) \in Frame
        <5>1. PICK i \in Nat : i = toolOpen[c]
          BY <3>3
        <5> QED
          BY <2>2, <5>1, ArgsFields
      <4> QED
        BY <2>1, <3>1, <3>2, <4>1, <4>2, Push
    <3>4. CASE c \notin DOMAIN toolOpen
      <4>1. /\ out' = Append(Append(Led, OpenFrame(c, toolIndex, e, now)), ArgsFrame(toolIndex, now))
            /\ roleSent' = TRUE /\ UNCHANGED <<usage, finished>>
        BY <2>9, <3>4 DEF ToolDelta
      <4>2. OpenFrame(c, toolIndex, e, now) \in Frame /\ ArgsFrame(toolIndex, now) \in Frame
        BY <2>2, <2>5, OpenFields, ArgsFields
      <4>3. Append(Led, OpenFrame(c, toolIndex, e, now)) \in Seq(Frame)
        BY <2>2, <4>2, Push
      <4> QED
        BY <2>1, <3>1, <3>2, <4>1, <4>2, <4>3, Push
    <3> QED
      BY <3>3, <3>4
  <2>10. CASE Ignored(e)
    BY <2>1, <2>10 DEF Ignored
  <2>11. CASE FinishStep(e)
    BY <2>1, <2>4, <2>11 DEF FinishStep
  <2>12. CASE Finish(e)
    <3>1. FinishFrame(MapFinishReason(e.reason)) \in Frame
      BY FinishFields, MapFinishReasonType
    <3>2. usage' \in [src : Nat, total : BOOLEAN, reasoned : BOOLEAN]
      BY <2>4, <2>12 DEF Finish
    <3> QED
      BY <2>1, <2>2, <2>12, <3>1, <3>2, Push DEF Finish
  <2>13. CASE Error(e)
    BY <2>1, <2>2, <2>13, ErrorFields, Push DEF Error
  <2> QED
    BY <1>1, <2>6, <2>7, <2>8, <2>9, <2>10, <2>11, <2>12, <2>13 DEF Line
<1>2. CASE Finalize
  <2>1. UsageFrame(usage) \in Frame
    BY UsageFields
  <2>2. out' \in Seq(Frame)
    BY <1>2, <2>1, FinishedType, Push DEF Finalize
  <2> QED
    BY <1>2, <2>2 DEF Finalize
<1>3. CASE UNCHANGED vars
  BY <1>3 DEF vars
<1> QED
  BY <1>1, <1>2, <1>3 DEF Next

\* streamState and the frames keep their types (newStreamState, frames, finalize).
THEOREM TypeCorrect == Spec => []TypeOK
BY TypeInit, TypeNext, PTL DEF Spec

(***************************************************************************)
(* The inductive invariant.  Beyond the invariants that TLC checks it says *)
(* when nothing has been emitted, what finished means of the lines seen,   *)
(* and that a payload frame names a line already consumed.                 *)
(***************************************************************************)
Bookkeeping ==
    /\ roleSent => out # <<>>
    /\ ~roleSent /\ ~doneSent => out = <<>> /\ ~finished
    /\ doneSent => finished
    /\ ~doneSent => (finished <=> \E k \in DOMAIN seen : Terminal(seen[k]))
    /\ \A i \in DOMAIN out :
          out[i].kind \in PayloadKinds => out[i].src \in DOMAIN seen

IInv ==
    /\ TypeOK /\ Bookkeeping
    /\ RoleLeads /\ FinishEndsStream
    /\ IndexPerCall /\ ArgumentsReachTheirCall
    /\ PayloadInOrder /\ PayloadComplete

\* The invariant holds at the start.
LEMMA IInvInit == Init => IInv
<1> SUFFICES ASSUME Init PROVE IInv
  OBVIOUS
<1>1. TypeOK
  BY TypeInit
<1>2. DOMAIN out = {} /\ DOMAIN seen = {} /\ DOMAIN toolOpen = {} /\ out = <<>>
  BY DEF Init
<1> QED
  BY <1>1, <1>2 DEF Init, IInv, Bookkeeping, RoleLeads, FinishEndsStream,
     IndexPerCall, ArgumentsReachTheirCall, PayloadInOrder, PayloadComplete

(***************************************************************************)
(* What one line does, as far as the invariants tell: which frames are     *)
(* new, and how the calls and the flags go with them.                      *)
(***************************************************************************)
NewFrames == DOMAIN out' \ DOMAIN out
Key(e) == <<e.id, 0>>

FramesKept ==
    /\ out' \in Seq(Frame)
    /\ Len(out) \in Nat /\ Len(out') \in Nat /\ Len(out) <= Len(out')
    /\ DOMAIN out = 1..Len(out) /\ DOMAIN out' = 1..Len(out')
    /\ \A i \in DOMAIN out : out'[i] = out[i]

NewFramesOf(e) ==
    \A i \in NewFrames :
       /\ out'[i].kind = "role" <=> ~roleSent /\ i = 1
       /\ out'[i].kind # "usage"
       /\ out'[i].finish # "" => i = Len(out') /\ finished'
       /\ out'[i].kind \in PayloadKinds => i = Len(out') /\ out'[i].src = now
       /\ out'[i].kind = "open" => /\ out'[i].call \in DOMAIN toolOpen'
                                   /\ out'[i].index = toolOpen'[out'[i].call]
       /\ out'[i].kind = "args" =>
             /\ Key(e) \in DOMAIN toolOpen' /\ out'[i].index = toolOpen'[Key(e)]
             /\ Key(e) \in DOMAIN toolOpen \/
                \E j \in NewFrames : j < i /\ out'[j].kind = "open" /\ out'[j].call = Key(e)

CallsGrow ==
    /\ DOMAIN toolOpen \subseteq DOMAIN toolOpen'
    /\ \A c \in DOMAIN toolOpen : toolOpen'[c] = toolOpen[c]
    /\ toolIndex \in Nat /\ toolIndex' \in {toolIndex, toolIndex + 1}
    /\ \A c \in DOMAIN toolOpen' \ DOMAIN toolOpen :
          /\ toolOpen'[c] = toolIndex /\ toolIndex' = toolIndex + 1
          /\ \A d \in DOMAIN toolOpen' \ DOMAIN toolOpen : d = c
          /\ \E i \in NewFrames : out'[i].kind = "open" /\ out'[i].call = c

FlagsFollow(e) ==
    /\ finished' \in BOOLEAN /\ roleSent' \in BOOLEAN
    /\ finished' <=> finished \/ Terminal(e)
    /\ finished => NewFrames = {}
    /\ ~finished /\ finished' => \E i \in NewFrames : out'[i].finish # ""
    /\ roleSent' <=> roleSent \/ NewFrames # {}

PayloadCarried(e) ==
    ~finished /\ e.payload /\ CarriedBy(e) # "none" =>
        \E i \in NewFrames : out'[i].kind = CarriedBy(e) /\ out'[i].src = now

LineEffect(e) ==
    FramesKept /\ NewFramesOf(e) /\ CallsGrow /\ FlagsFollow(e) /\ PayloadCarried(e)

\* A line that emits nothing and opens nothing.
LEMMA SilentLine ==
    ASSUME IInv, NEW e \in Inputs, Late(e) \/ Ignored(e) \/ FinishStep(e)
    PROVE  LineEffect(e)
<1>1. UNCHANGED <<roleSent, toolOpen, toolIndex, finished, out>>
  BY DEF Late, Ignored, FinishStep
<1>2. out \in Seq(Frame) /\ toolIndex \in Nat /\ finished \in BOOLEAN /\ roleSent \in BOOLEAN
  BY DEF IInv, TypeOK
<1>3. NewFrames = {}
  BY <1>1 DEF NewFrames
<1>4. finished' <=> finished \/ Terminal(e)
  BY <1>1, <1>2 DEF Late, Ignored, FinishStep, Terminal, TextTypes, DeltaTypes, IgnoredByStream
<1>5. finished \/ ~e.payload \/ CarriedBy(e) = "none"
  BY DEF Late, Ignored, FinishStep, CarriedBy, TextTypes, DeltaTypes, IgnoredByStream
<1>6. FramesKept
  BY <1>1, <1>2, LenProperties DEF FramesKept
<1>7. CallsGrow
  BY <1>1, <1>2 DEF CallsGrow
<1> QED
  BY <1>1, <1>2, <1>3, <1>4, <1>5, <1>6, <1>7
     DEF LineEffect, NewFramesOf, FlagsFollow, PayloadCarried

\* The role frame, described.
LEMMA RoleFields ==
    /\ Chunk("role", 0) \in Frame
    /\ Chunk("role", 0).kind = "role" /\ Chunk("role", 0).finish = ""
<1>1. "role" \in Kinds /\ 0 \in Nat
  BY DEF Kinds
<1> QED
  BY <1>1, ChunkFields

\* Which kind of frame carries the payload of an event.
LEMMA CarriedFacts ==
    ASSUME NEW e
    PROVE  /\ e.type = "text-delta" => CarriedBy(e) = "content"
           /\ e.type = "reasoning-delta" => CarriedBy(e) = "reasoning"
           /\ e.type \in DeltaTypes => CarriedBy(e) = "args"
           /\ e.type \notin TextTypes \cup DeltaTypes => CarriedBy(e) = "none"
<1>1. CASE e.type = "text-delta"
  BY <1>1 DEF CarriedBy, DeltaTypes, TextTypes
<1>2. CASE e.type = "reasoning-delta"
  BY <1>2 DEF CarriedBy, DeltaTypes, TextTypes
<1>3. CASE e.type \in DeltaTypes
  BY <1>3 DEF CarriedBy, DeltaTypes, TextTypes
<1>4. CASE e.type \notin TextTypes \cup DeltaTypes
  BY <1>4 DEF CarriedBy, DeltaTypes, TextTypes
<1> QED
  BY <1>1, <1>2, <1>3, <1>4 DEF TextTypes

\* What a step emits in front of its own frames: nothing, or the role frame
\* as the first frame of all.
LEMMA LeadIn ==
    ASSUME IInv, ~doneSent
    PROVE  /\ Led \in Seq(Frame) /\ Len(Led) \in Nat /\ DOMAIN Led = 1..Len(Led)
           /\ out \in Seq(Frame) /\ Len(out) \in Nat /\ DOMAIN out = 1..Len(out)
           /\ Len(out) <= Len(Led)
           /\ \A i \in DOMAIN out : Led[i] = out[i]
           /\ roleSent => Len(Led) = Len(out) /\ Len(out) >= 1
           /\ ~roleSent => Len(out) = 0 /\ Len(Led) = 1 /\ Led[1] = Chunk("role", 0)
<1>1. TypeOK /\ Led \in Seq(Frame) /\ out \in Seq(Frame) /\ roleSent \in BOOLEAN
  BY LedType DEF IInv, TypeOK
<1>2. Len(Led) \in Nat /\ DOMAIN Led = 1..Len(Led)
  BY <1>1, LenProperties
<1>3. roleSent => Len(out) >= 1
  BY <1>1, EmptySeq DEF IInv, Bookkeeping
<1>4. ~roleSent => Len(out) = 0
  BY <1>1, EmptySeq DEF IInv, Bookkeeping
<1>5. /\ Len(out) \in Nat /\ DOMAIN out = 1..Len(out)
      /\ \A i \in DOMAIN out : Led[i] = out[i]
  BY <1>1, LedFrames
<1>6. CASE roleSent
  <2>1. Len(Led) = Len(out)
    BY <1>1, <1>6, LedFrames
  <2> QED
    BY <1>1, <1>2, <1>3, <1>5, <1>6, <2>1
<1>7. CASE ~roleSent
  <2>1. Len(Led) = Len(out) + 1 /\ Led[Len(out) + 1] = Chunk("role", 0)
    BY <1>1, <1>7, LedFrames
  <2>2. Len(Led) = 1 /\ Led[1] = Chunk("role", 0)
    BY <1>4, <1>7, <2>1
  <2> QED
    BY <1>1, <1>2, <1>4, <1>5, <1>7, <2>2
<1> QED
  BY <1>6, <1>7

\* A step that emits one frame of its own.
LEMMA OneFrame ==
    ASSUME IInv, ~doneSent, NEW f \in Frame, out' = Append(Led, f)
    PROVE  /\ FramesKept
           /\ Len(out') \in NewFrames /\ out'[Len(out')] = f
           /\ Len(out') # 1
           /\ \A i \in NewFrames : i # Len(out') =>
                 ~roleSent /\ i = 1 /\ out'[i] = Chunk("role", 0)
           /\ ~roleSent => 1 \in NewFrames /\ out'[1] = Chunk("role", 0)
<1>1. /\ Led \in Seq(Frame) /\ Len(Led) \in Nat /\ DOMAIN Led = 1..Len(Led)
      /\ out \in Seq(Frame) /\ Len(out) \in Nat /\ DOMAIN out = 1..Len(out)
      /\ Len(out) <= Len(Led)
      /\ \A i \in DOMAIN out : Led[i] = out[i]
  BY LeadIn
<1>2. /\ out' \in Seq(Frame) /\ Len(out') = Len(Led) + 1 /\ DOMAIN out' = 1..(Len(Led) + 1)
      /\ \A i \in 1..Len(Led) : out'[i] = Led[i]
      /\ out'[Len(Led) + 1] = f
  BY <1>1, Push
<1>3. FramesKept
  BY ONLY <1>1, <1>2 DEF FramesKept
<1>4. CASE roleSent
  <2>1. Len(Led) = Len(out) /\ Len(out) >= 1
    BY <1>4, LeadIn
  <2>2. NewFrames = {Len(out')} /\ Len(out') # 1
    BY ONLY <1>1, <1>2, <2>1 DEF NewFrames
  <2> QED
    BY <1>2, <1>3, <1>4, <2>2
<1>5. CASE ~roleSent
  <2>1. Len(out) = 0 /\ Len(Led) = 1 /\ Led[1] = Chunk("role", 0)
    BY <1>5, LeadIn
  <2>2. NewFrames = {1, 2} /\ Len(out') = 2 /\ out'[1] = Chunk("role", 0)
    BY ONLY <1>1, <1>2, <2>1 DEF NewFrames
  <2>3. out'[2] = f
    BY ONLY <1>2, <2>1
  <2> QED
    BY <1>3, <1>5, <2>2, <2>3
<1> QED
  BY <1>4, <1>5

\* A text or reasoning delta adds one frame with its payload.
LEMMA TextDeltaEffect ==
    ASSUME IInv, ~doneSent, NEW e \in Inputs, TextDelta(e)
    PROVE  LineEffect(e)
<1> DEFINE kind == IF e.type = "text-delta" THEN "content" ELSE "reasoning"
           f == Chunk(kind, now)
<1>1. TypeOK /\ now \in Nat /\ roleSent \in BOOLEAN /\ finished \in BOOLEAN /\ toolIndex \in Nat
  BY NowType DEF IInv, TypeOK
<1>3. out' = Append(Led, f) /\ roleSent' = TRUE /\ ~finished
  BY DEF TextDelta
<1>6. kind = CarriedBy(e) /\ ~Terminal(e) /\ kind \in Kinds /\ kind \in {"content", "reasoning"}
  <2>1. CASE e.type = "text-delta"
    BY <2>1, CarriedFacts DEF Terminal, Kinds
  <2>2. CASE e.type = "reasoning-delta"
    BY <2>2, CarriedFacts DEF Terminal, Kinds
  <2> QED
    BY <2>1, <2>2 DEF TextDelta, TextTypes
<1> HIDE DEF kind
<1>2. f \in Frame /\ f.finish = "" /\ f.src = now /\ f.kind = kind
  BY <1>1, <1>6, ChunkFields
<1> HIDE DEF f
<1>4. /\ FramesKept
      /\ Len(out') \in NewFrames /\ out'[Len(out')] = f /\ Len(out') # 1
      /\ \A i \in NewFrames : i # Len(out') =>
            ~roleSent /\ i = 1 /\ out'[i] = Chunk("role", 0)
      /\ ~roleSent => 1 \in NewFrames /\ out'[1] = Chunk("role", 0)
  BY <1>2, <1>3, OneFrame
<1>5. CallsGrow
  BY <1>1 DEF TextDelta, CallsGrow
<1>7. NewFramesOf(e)
  BY <1>2, <1>4, <1>6, RoleFields DEF NewFramesOf, PayloadKinds
<1>8. FlagsFollow(e)
  BY <1>1, <1>3, <1>4, <1>6 DEF FlagsFollow, TextDelta
<1>9. PayloadCarried(e)
  BY <1>2, <1>4, <1>6 DEF PayloadCarried
<1> QED
  BY <1>4, <1>5, <1>7, <1>8, <1>9 DEF LineEffect

\* A finish adds one frame with a reason and marks the answer finished.
LEMMA FinishEffect ==
    ASSUME IInv, ~doneSent, NEW e \in Inputs, Finish(e)
    PROVE  LineEffect(e)
<1> DEFINE f == FinishFrame(MapFinishReason(e.reason))
<1>1. roleSent \in BOOLEAN /\ finished \in BOOLEAN /\ toolIndex \in Nat
  BY DEF IInv, TypeOK
<1>2. f \in Frame /\ f.kind = "finish" /\ f.finish # ""
  BY FinishFields, MapFinishReasonType
<1>3. /\ out' = Append(Led, f) /\ roleSent' = TRUE /\ finished' = TRUE /\ ~finished
      /\ UNCHANGED <<toolOpen, toolIndex>> /\ e.type = "finish"
  BY DEF Finish
<1> HIDE DEF f
<1>4. /\ FramesKept
      /\ Len(out') \in NewFrames /\ out'[Len(out')] = f /\ Len(out') # 1
      /\ \A i \in NewFrames : i # Len(out') =>
            ~roleSent /\ i = 1 /\ out'[i] = Chunk("role", 0)
      /\ ~roleSent => 1 \in NewFrames /\ out'[1] = Chunk("role", 0)
  BY <1>2, <1>3, OneFrame
<1>5. CallsGrow
  BY <1>1, <1>3 DEF CallsGrow
<1>6. CarriedBy(e) = "none" /\ Terminal(e)
  BY <1>3, CarriedFacts DEF Terminal, TextTypes, DeltaTypes
<1>7. NewFramesOf(e)
  BY <1>2, <1>3, <1>4, RoleFields DEF NewFramesOf, PayloadKinds
<1>8. FlagsFollow(e)
  BY <1>1, <1>2, <1>3, <1>4, <1>6 DEF FlagsFollow
<1>9. PayloadCarried(e)
  BY <1>6 DEF PayloadCarried
<1> QED
  BY <1>4, <1>5, <1>7, <1>8, <1>9 DEF LineEffect

\* An error adds one frame with a reason and marks the answer finished.
LEMMA ErrorEffect ==
    ASSUME IInv, ~doneSent, NEW e \in Inputs, Error(e)
    PROVE  LineEffect(e)
<1> DEFINE f == ErrorFrame(now)
<1>1. TypeOK /\ now \in Nat /\ roleSent \in BOOLEAN /\ finished \in BOOLEAN /\ toolIndex \in Nat
  BY NowType DEF IInv, TypeOK
<1>2. f \in Frame /\ f.kind = "content" /\ f.finish # "" /\ f.src = now
  BY <1>1, ErrorFields
<1>3. /\ out' = Append(Led, f) /\ roleSent' = TRUE /\ finished' = TRUE /\ ~finished
      /\ UNCHANGED <<toolOpen, toolIndex>> /\ e.type = "error"
  BY DEF Error
<1> HIDE DEF f
<1>4. /\ FramesKept
      /\ Len(out') \in NewFrames /\ out'[Len(out')] = f /\ Len(out') # 1
      /\ \A i \in NewFrames : i # Len(out') =>
            ~roleSent /\ i = 1 /\ out'[i] = Chunk("role", 0)
      /\ ~roleSent => 1 \in NewFrames /\ out'[1] = Chunk("role", 0)
  BY <1>2, <1>3, OneFrame
<1>5. CallsGrow
  BY <1>1, <1>3 DEF CallsGrow
<1>6. CarriedBy(e) = "none" /\ Terminal(e)
  BY <1>3, CarriedFacts DEF Terminal, TextTypes, DeltaTypes
<1>7. NewFramesOf(e)
  BY <1>2, <1>3, <1>4, RoleFields DEF NewFramesOf, PayloadKinds
<1>8. FlagsFollow(e)
  BY <1>1, <1>2, <1>3, <1>4, <1>6 DEF FlagsFollow
<1>9. PayloadCarried(e)
  BY <1>6 DEF PayloadCarried
<1> QED
  BY <1>4, <1>5, <1>7, <1>8, <1>9 DEF LineEffect

\* Looking up a call, when the step announces it if it is new.
LEMMA TookCallGrows ==
    ASSUME TypeOK, NEW c \in CallId, TookCall(c),
           c \notin DOMAIN toolOpen =>
              \E i \in NewFrames : out'[i].kind = "open" /\ out'[i].call = c
    PROVE  /\ CallsGrow
           /\ c \in DOMAIN toolOpen' /\ toolOpen' = WithCall(c)
<1>1. toolOpen' = WithCall(c) /\ toolIndex \in Nat
  BY DEF TookCall, TypeOK
<1>2. /\ DOMAIN toolOpen' = DOMAIN toolOpen \cup {c}
      /\ \A d \in DOMAIN toolOpen : toolOpen'[d] = toolOpen[d]
      /\ c \notin DOMAIN toolOpen => toolOpen'[c] = toolIndex
  BY <1>1, WithCallType
<1>3. c \notin DOMAIN toolOpen => toolIndex' = toolIndex + 1
  BY DEF TookCall
<1>4. toolIndex' \in {toolIndex, toolIndex + 1}
  BY DEF TookCall
<1> QED
  BY <1>1, <1>2, <1>3, <1>4 DEF CallsGrow

\* A start adds one frame that opens its call.
LEMMA ToolStartEffect ==
    ASSUME IInv, ~doneSent, NEW e \in Inputs, ToolStart(e)
    PROVE  LineEffect(e)
<1> DEFINE c == StartedCall(e)
           f == OpenFrame(c, WithCall(c)[c], e, now)
<1>1. TypeOK /\ now \in Nat /\ roleSent \in BOOLEAN /\ finished \in BOOLEAN /\ toolIndex \in Nat
  BY NowType DEF IInv, TypeOK
<1>2. c \in CallId
  BY <1>1, InputsAssumption DEF Event, CallId, StartedCall
<1>3. /\ out' = Append(Led, f) /\ roleSent' = TRUE /\ ~finished /\ finished' = finished
      /\ TookCall(c) /\ e.type \in StartTypes
  BY DEF ToolStart
<1> HIDE DEF c
<1>4. f \in Frame /\ f.kind = "open" /\ f.finish = "" /\ f.call = c /\ f.index = WithCall(c)[c]
  <2> DEFINE i == WithCall(c)[c]
  <2>1. i \in Nat /\ now \in Nat
    BY <1>1, <1>2, WithCallType
  <2> HIDE DEF i
  <2>2. f = OpenFrame(c, i, e, now)
    BY DEF i
  <2> HIDE DEF f
  <2>3. /\ OpenFrame(c, i, e, now) \in Frame
        /\ OpenFrame(c, i, e, now).kind = "open" /\ OpenFrame(c, i, e, now).finish = ""
        /\ OpenFrame(c, i, e, now).call = c /\ OpenFrame(c, i, e, now).index = i
    BY ONLY <1>2, <2>1 DEF OpenFrame, NameIn, Chunk, Frame, Kinds, NoCall, CallId, NoUsage
  <2> QED
    BY ONLY <2>2, <2>3 DEF i
<1> HIDE DEF f
<1>5. /\ FramesKept
      /\ Len(out') \in NewFrames /\ out'[Len(out')] = f /\ Len(out') # 1
      /\ \A i \in NewFrames : i # Len(out') =>
            ~roleSent /\ i = 1 /\ out'[i] = Chunk("role", 0)
      /\ ~roleSent => 1 \in NewFrames /\ out'[1] = Chunk("role", 0)
  BY <1>3, <1>4, OneFrame
<1>6. CallsGrow /\ c \in DOMAIN toolOpen' /\ toolOpen' = WithCall(c)
  BY <1>1, <1>2, <1>3, <1>4, <1>5, TookCallGrows
<1>7. CarriedBy(e) = "none" /\ ~Terminal(e)
  BY <1>3, CarriedFacts DEF Terminal, TextTypes, DeltaTypes, StartTypes
<1>8. NewFramesOf(e)
  BY <1>4, <1>5, <1>6, RoleFields DEF NewFramesOf, PayloadKinds
<1>9. FlagsFollow(e)
  BY <1>1, <1>3, <1>5, <1>7 DEF FlagsFollow
<1>10. PayloadCarried(e)
  BY <1>7 DEF PayloadCarried
<1> QED
  BY <1>5, <1>6, <1>8, <1>9, <1>10 DEF LineEffect

\* A fragment for a call that is open.
LEMMA KnownDeltaEffect ==
    ASSUME IInv, ~doneSent, NEW e \in Inputs, ToolDelta(e), Key(e) \in DOMAIN toolOpen
    PROVE  LineEffect(e)
<1> DEFINE c == Key(e)
           f == ArgsFrame(toolOpen[c], now)
<1>1. /\ TypeOK /\ now \in Nat /\ roleSent \in BOOLEAN /\ finished \in BOOLEAN
      /\ toolIndex \in Nat /\ out \in Seq(Frame) /\ toolOpen[c] \in Nat /\ c \in CallId
  BY NowType DEF IInv, TypeOK
<1>2. roleSent
  BY DEF IInv, IndexPerCall, RoleLeads
<1>3. /\ out' = Append(out, f) /\ roleSent' = roleSent /\ ~finished /\ finished' = finished
      /\ TookCall(c) /\ e.type \in DeltaTypes /\ e.payload
  BY DEF ToolDelta, Key
<1>4. f \in Frame /\ f.kind = "args" /\ f.finish = "" /\ f.src = now /\ f.index = toolOpen[c]
  <2> DEFINE i == toolOpen[c]
  <2>1. i \in Nat /\ now \in Nat
    BY <1>1
  <2> HIDE DEF i
  <2>2. f = ArgsFrame(i, now)
    BY DEF i
  <2> HIDE DEF f, c
  <2>3. /\ ArgsFrame(i, now) \in Frame
        /\ ArgsFrame(i, now).kind = "args" /\ ArgsFrame(i, now).finish = ""
        /\ ArgsFrame(i, now).index = i /\ ArgsFrame(i, now).src = now
    BY ONLY <2>1 DEF ArgsFrame, Chunk, Frame, Kinds, NoCall, CallId, NoUsage
  <2> QED
    BY ONLY <2>2, <2>3 DEF i
<1> HIDE DEF f
<1>5. Len(out) >= 1
  BY <1>1, <1>2, EmptySeq DEF IInv, Bookkeeping
<1>6. /\ out' \in Seq(Frame) /\ Len(out) \in Nat /\ DOMAIN out = 1..Len(out)
      /\ Len(out') = Len(out) + 1 /\ DOMAIN out' = 1..(Len(out) + 1)
      /\ \A i \in 1..Len(out) : out'[i] = out[i]
      /\ out'[Len(out) + 1] = f
  <2>1. out \in Seq(Frame) /\ f \in Frame /\ out' = Append(out, f)
    BY <1>1, <1>3, <1>4
  <2> QED
    BY ONLY <2>1, Push
<1>7. FramesKept
  BY ONLY <1>6 DEF FramesKept
<1>8. NewFrames = {Len(out')} /\ Len(out') # 1 /\ out'[Len(out')] = f
  BY ONLY <1>5, <1>6 DEF NewFrames
<1>9. CallsGrow /\ c \in DOMAIN toolOpen' /\ toolOpen' = WithCall(c)
  BY <1>1, <1>3, TookCallGrows
<1>10. toolOpen'[c] = toolOpen[c]
  BY <1>9 DEF CallsGrow
<1>11. CarriedBy(e) = "args" /\ ~Terminal(e)
  BY <1>3, CarriedFacts DEF Terminal, DeltaTypes
<1>12. NewFramesOf(e)
  BY <1>2, <1>4, <1>8, <1>9, <1>10 DEF NewFramesOf, PayloadKinds
<1>13. FlagsFollow(e)
  BY <1>1, <1>2, <1>3, <1>8, <1>11 DEF FlagsFollow
<1>14. PayloadCarried(e)
  BY <1>4, <1>8, <1>11 DEF PayloadCarried
<1> QED
  BY <1>7, <1>9, <1>12, <1>13, <1>14 DEF LineEffect

\* A fragment for an id nobody announced: the call is opened on the way.
LEMMA UnknownDeltaEffect ==
    ASSUME IInv, ~doneSent, NEW e \in Inputs, ToolDelta(e), Key(e) \notin DOMAIN toolOpen
    PROVE  LineEffect(e)
<1> DEFINE c == Key(e)
           f == OpenFrame(c, toolIndex, e, now)
           g == ArgsFrame(toolIndex, now)
           s == Append(Led, f)
<1>1. /\ TypeOK /\ now \in Nat /\ roleSent \in BOOLEAN /\ finished \in BOOLEAN
      /\ toolIndex \in Nat
  BY NowType DEF IInv, TypeOK
<1>2. c \in CallId
  BY InputsAssumption DEF Event, CallId, Key
<1>3. /\ out' = Append(s, g) /\ roleSent' = TRUE /\ ~finished /\ finished' = finished
      /\ TookCall(c) /\ e.type \in DeltaTypes /\ e.payload
  BY DEF ToolDelta, Key
<1> HIDE DEF c
<1>4. /\ f \in Frame /\ f.kind = "open" /\ f.finish = "" /\ f.call = c /\ f.index = toolIndex
      /\ g \in Frame /\ g.kind = "args" /\ g.finish = "" /\ g.src = now /\ g.index = toolIndex
  <2>1. toolIndex \in Nat /\ now \in Nat /\ c \in CallId
    BY <1>1, <1>2
  <2>4. f = OpenFrame(c, toolIndex, e, now) /\ g = ArgsFrame(toolIndex, now)
    OBVIOUS
  <2> HIDE DEF f, g, s
  <2>2. /\ OpenFrame(c, toolIndex, e, now) \in Frame
        /\ OpenFrame(c, toolIndex, e, now).kind = "open" /\ OpenFrame(c, toolIndex, e, now).finish = ""
        /\ OpenFrame(c, toolIndex, e, now).call = c /\ OpenFrame(c, toolIndex, e, now).index = toolIndex
    BY ONLY <2>1 DEF OpenFrame, NameIn, Chunk, Frame, Kinds, NoCall, CallId, NoUsage
  <2>3. /\ ArgsFrame(toolIndex, now) \in Frame
        /\ ArgsFrame(toolIndex, now).kind = "args" /\ ArgsFrame(toolIndex, now).finish = ""
        /\ ArgsFrame(toolIndex, now).index = toolIndex /\ ArgsFrame(toolIndex, now).src = now
    BY ONLY <2>1 DEF ArgsFrame, Chunk, Frame, Kinds, NoCall, CallId, NoUsage
  <2> QED
    BY ONLY <2>2, <2>3, <2>4
<1> HIDE DEF f, g
<1>5. /\ Led \in Seq(Frame) /\ Len(Led) \in Nat /\ DOMAIN Led = 1..Len(Led)
      /\ out \in Seq(Frame) /\ Len(out) \in Nat /\ DOMAIN out = 1..Len(out)
      /\ Len(out) <= Len(Led)
      /\ \A i \in DOMAIN out : Led[i] = out[i]
  BY LeadIn
<1>6. /\ s \in Seq(Frame) /\ Len(s) = Len(Led) + 1 /\ DOMAIN s = 1..(Len(Led) + 1)
      /\ \A i \in 1..Len(Led) : s[i] = Led[i]
      /\ s[Len(Led) + 1] = f
  <2>1. Led \in Seq(Frame) /\ f \in Frame
    BY <1>4, <1>5
  <2> QED
    BY ONLY <2>1, Push
<1> HIDE DEF s
<1>7. /\ out' \in Seq(Frame) /\ Len(out') = Len(s) + 1 /\ DOMAIN out' = 1..(Len(s) + 1)
      /\ \A i \in 1..Len(s) : out'[i] = s[i]
      /\ out'[Len(s) + 1] = g
  <2>1. s \in Seq(Frame) /\ g \in Frame /\ out' = Append(s, g)
    BY <1>3, <1>4, <1>6
  <2> QED
    BY ONLY <2>1, Push
<1>8. /\ Len(out') = Len(Led) + 2 /\ DOMAIN out' = 1..(Len(Led) + 2)
      /\ \A i \in 1..Len(Led) : out'[i] = Led[i]
      /\ out'[Len(Led) + 1] = f /\ out'[Len(Led) + 2] = g
  BY ONLY <1>5, <1>6, <1>7
<1>9. FramesKept
  BY ONLY <1>5, <1>7, <1>8 DEF FramesKept
<1>10. /\ Len(Led) + 1 \in NewFrames /\ Len(out') \in NewFrames
       /\ Len(Led) + 1 # 1 /\ Len(Led) + 1 < Len(out') /\ Len(out') # 1
       /\ \A i \in NewFrames : i # Len(out') /\ i # Len(Led) + 1 =>
             ~roleSent /\ i = 1 /\ out'[i] = Chunk("role", 0)
       /\ ~roleSent => 1 \in NewFrames /\ out'[1] = Chunk("role", 0)
  <2>1. CASE roleSent
    <3>1. Len(Led) = Len(out) /\ Len(out) >= 1
      BY <2>1, LeadIn
    <3>2. NewFrames = {Len(Led) + 1, Len(out')}
      BY ONLY <1>5, <1>8, <3>1 DEF NewFrames
    <3> QED
      BY <1>5, <1>8, <2>1, <3>1, <3>2
  <2>2. CASE ~roleSent
    <3>1. Len(out) = 0 /\ Len(Led) = 1 /\ Led[1] = Chunk("role", 0)
      BY <2>2, LeadIn
    <3>2. NewFrames = {1, 2, 3} /\ Len(out') = 3 /\ out'[1] = Chunk("role", 0)
      BY ONLY <1>5, <1>8, <3>1 DEF NewFrames
    <3> QED
      BY <2>2, <3>1, <3>2
  <2> QED
    BY <2>1, <2>2
<1>11. out'[Len(out')] = g
  BY <1>8
<1>12. CallsGrow /\ c \in DOMAIN toolOpen' /\ toolOpen' = WithCall(c)
  BY <1>1, <1>2, <1>3, <1>4, <1>8, <1>10, TookCallGrows
<1>13. toolOpen'[c] = toolIndex
  BY <1>12 DEF CallsGrow, c
<1>14. CarriedBy(e) = "args" /\ ~Terminal(e)
  BY <1>3, CarriedFacts DEF Terminal, DeltaTypes
<1>15. NewFramesOf(e)
  <2> SUFFICES ASSUME NEW i \in NewFrames
               PROVE  /\ out'[i].kind = "role" <=> ~roleSent /\ i = 1
                      /\ out'[i].kind # "usage"
                      /\ out'[i].finish # "" => i = Len(out') /\ finished'
                      /\ out'[i].kind \in PayloadKinds => i = Len(out') /\ out'[i].src = now
                      /\ out'[i].kind = "open" => /\ out'[i].call \in DOMAIN toolOpen'
                                                  /\ out'[i].index = toolOpen'[out'[i].call]
                      /\ out'[i].kind = "args" =>
                            /\ c \in DOMAIN toolOpen' /\ out'[i].index = toolOpen'[c]
                            /\ \E j \in NewFrames : j < i /\ out'[j].kind = "open" /\ out'[j].call = c
    BY DEF NewFramesOf, c
  <2>1. CASE i = Len(out')
    BY <1>4, <1>8, <1>10, <1>11, <1>12, <1>13, <2>1 DEF PayloadKinds
  <2>2. CASE i = Len(Led) + 1
    BY <1>4, <1>8, <1>10, <1>12, <1>13, <2>2 DEF PayloadKinds
  <2>3. CASE i # Len(out') /\ i # Len(Led) + 1
    BY <1>10, <2>3, RoleFields DEF PayloadKinds
  <2> QED
    BY <2>1, <2>2, <2>3
<1>16. FlagsFollow(e)
  BY <1>1, <1>3, <1>10, <1>14 DEF FlagsFollow
<1>17. PayloadCarried(e)
  BY <1>4, <1>10, <1>11, <1>14 DEF PayloadCarried
<1> QED
  BY <1>9, <1>12, <1>15, <1>16, <1>17 DEF LineEffect

\* Every line, of whichever type, has the effect the parts below start from.
LEMMA LineStep ==
    ASSUME IInv, NEW e \in Inputs, Line(e)
    PROVE  LineEffect(e) /\ ~doneSent /\ doneSent' = doneSent /\ seen' = Append(seen, e)
BY SilentLine, TextDeltaEffect, FinishEffect, ErrorEffect, ToolStartEffect,
   KnownDeltaEffect, UnknownDeltaEffect DEF Line

(***************************************************************************)
(* A line preserves the invariant, part by part.                           *)
(***************************************************************************)
LEMMA SeenGrows ==
    ASSUME IInv, NEW e \in Inputs, Line(e)
    PROVE  /\ now \in Nat /\ DOMAIN seen = 1..(now - 1) /\ DOMAIN seen' = 1..now
           /\ now \notin DOMAIN seen
           /\ \A k \in DOMAIN seen : seen'[k] = seen[k]
           /\ seen'[now] = e
<1>1. seen \in Seq(Inputs) /\ seen' = Append(seen, e)
  BY LineStep DEF IInv, TypeOK
<1>2. now = Len(seen) + 1
  BY DEF now
<1> QED
  BY <1>1, <1>2, Push

\* The line being read is the last one seen.
LEMMA SeenAtNow ==
    ASSUME IInv, NEW e \in Inputs, Line(e)
    PROVE  now \in DOMAIN seen' /\ seen'[now] = e /\ DOMAIN seen' = DOMAIN seen \cup {now}
<1>1. now \in Nat /\ DOMAIN seen = 1..(now - 1) /\ DOMAIN seen' = 1..now /\ seen'[now] = e
  BY SeenGrows
<1>2. now >= 1
  BY NowPositive DEF IInv
<1> QED
  BY ONLY <1>1, <1>2

\* The flags still agree with the frames and with the events seen.
LEMMA LineBookkeeping ==
    ASSUME IInv, NEW e \in Inputs, Line(e)
    PROVE  Bookkeeping'
<1>1. LineEffect(e) /\ ~doneSent /\ doneSent' = doneSent
  BY LineStep
<1>2. TypeOK /\ Bookkeeping
  BY DEF IInv
<1>3. roleSent' => out' # <<>>
  <2>1. CASE NewFrames # {}
    BY <1>1, <2>1 DEF LineEffect, FramesKept, NewFrames
  <2>2. CASE NewFrames = {}
    <3>1. roleSent' => Len(out) >= 1
      BY <1>1, <1>2, <2>2, EmptySeq DEF LineEffect, FlagsFollow, Bookkeeping, TypeOK
    <3> QED
      BY <1>1, <3>1 DEF LineEffect, FramesKept
  <2> QED
    BY <2>1, <2>2
<1>4. ~roleSent' => out' = <<>> /\ ~finished'
  <2> SUFFICES ASSUME ~roleSent' PROVE out' = <<>> /\ ~finished'
    OBVIOUS
  <2>1. ~roleSent /\ NewFrames = {} /\ out = <<>> /\ ~finished
    BY <1>1, <1>2 DEF LineEffect, FlagsFollow, Bookkeeping
  <2>2. ~finished'
    BY <1>1, <2>1 DEF LineEffect, FlagsFollow
  <2>3. DOMAIN out = {} /\ DOMAIN out' = 1..Len(out') /\ Len(out') \in Nat /\ out' \in Seq(Frame)
    BY <1>1, <2>1 DEF LineEffect, FramesKept
  <2>4. DOMAIN out' = {}
    BY <2>1, <2>3 DEF NewFrames
  <2>5. Len(out') = 0
    <3> SUFFICES ASSUME Len(out') >= 1 PROVE FALSE
      BY <2>3
    <3>1. 1 \in DOMAIN out'
      BY <2>3
    <3> QED
      BY <2>4, <3>1
  <2>6. out' = <<>>
    BY ONLY <2>3, <2>5, EmptySeq
  <2> QED
    BY <2>2, <2>6
<1>5. finished' <=> \E k \in DOMAIN seen' : Terminal(seen'[k])
  <2>1. finished <=> \E k \in DOMAIN seen : Terminal(seen[k])
    BY <1>1, <1>2 DEF Bookkeeping
  <2>2. finished' <=> finished \/ Terminal(e)
    BY <1>1 DEF LineEffect, FlagsFollow
  <2>3. now \in DOMAIN seen' /\ seen'[now] = e /\ DOMAIN seen' = DOMAIN seen \cup {now}
    BY SeenAtNow
  <2>4. \A k \in DOMAIN seen : seen'[k] = seen[k]
    BY SeenGrows
  <2> QED
    BY ONLY <2>1, <2>2, <2>3, <2>4
<1>6. \A i \in DOMAIN out' : out'[i].kind \in PayloadKinds => out'[i].src \in DOMAIN seen'
  <2> SUFFICES ASSUME NEW i \in DOMAIN out', out'[i].kind \in PayloadKinds
               PROVE  out'[i].src \in DOMAIN seen'
    OBVIOUS
  <2>1. CASE i \in DOMAIN out
    <3>1. out'[i] = out[i]
      BY <1>1, <2>1 DEF LineEffect, FramesKept
    <3>2. out[i].src \in DOMAIN seen
      BY <1>2, <2>1, <3>1 DEF Bookkeeping
    <3> QED
      BY <3>1, <3>2, SeenGrows
  <2>2. CASE i \in NewFrames
    <3>1. out'[i].src = now
      BY <1>1, <2>2 DEF LineEffect, NewFramesOf
    <3> QED
      BY <3>1, SeenAtNow
  <2> QED
    BY <2>1, <2>2 DEF NewFrames
<1> QED
  BY <1>1, <1>3, <1>4, <1>5, <1>6 DEF Bookkeeping

\* The role frame is still the first and the only one.
LEMMA LineRoleLeads ==
    ASSUME IInv, NEW e \in Inputs, Line(e)
    PROVE  RoleLeads'
<1>1. LineEffect(e) /\ ~doneSent
  BY LineStep
<1>2. RoleLeads /\ Bookkeeping /\ TypeOK
  BY DEF IInv
<1>3. ASSUME NEW i \in DOMAIN out'
      PROVE  out'[i].kind = "role" <=> roleSent' /\ i = 1
  <2>1. CASE i \in DOMAIN out
    <3>1. out'[i] = out[i] /\ roleSent
      BY <1>1, <1>2, <2>1 DEF LineEffect, FramesKept, Bookkeeping
    <3> QED
      BY <1>1, <1>2, <2>1, <3>1 DEF RoleLeads, LineEffect, FlagsFollow
  <2>2. CASE i \in NewFrames
    <3>1. roleSent => i # 1
      <4> SUFFICES ASSUME roleSent PROVE i # 1
        OBVIOUS
      <4>1. Len(out) >= 1
        BY <1>2, EmptySeq DEF Bookkeeping, TypeOK
      <4> QED
        BY <1>1, <2>2, <4>1 DEF LineEffect, FramesKept, NewFrames
    <3>2. roleSent'
      BY <1>1, <2>2 DEF LineEffect, FlagsFollow
    <3>3. out'[i].kind = "role" <=> ~roleSent /\ i = 1
      BY <1>1, <2>2 DEF LineEffect, NewFramesOf
    <3> QED
      BY <1>2, <3>1, <3>2, <3>3 DEF TypeOK
  <2> QED
    BY <2>1, <2>2 DEF NewFrames
<1>4. ~roleSent' => DOMAIN out' = {}
  <2> SUFFICES ASSUME ~roleSent' PROVE DOMAIN out' = {}
    OBVIOUS
  <2>1. ~roleSent /\ NewFrames = {} /\ out = <<>>
    BY <1>1, <1>2 DEF LineEffect, FlagsFollow, Bookkeeping
  <2> QED
    BY <1>1, <2>1 DEF LineEffect, FramesKept, NewFrames
<1> QED
  BY <1>3, <1>4 DEF RoleLeads

\* Still nothing but usage follows a finish.
LEMMA LineFinishEndsStream ==
    ASSUME IInv, NEW e \in Inputs, Line(e)
    PROVE  FinishEndsStream'
<1>1. LineEffect(e) /\ ~doneSent /\ doneSent' = doneSent
  BY LineStep
<1>2. FinishEndsStream /\ TypeOK
  BY DEF IInv
<1>3. /\ Len(out) \in Nat /\ Len(out') \in Nat /\ Len(out) <= Len(out')
      /\ DOMAIN out = 1..Len(out) /\ DOMAIN out' = 1..Len(out')
      /\ \A i \in DOMAIN out : out'[i] = out[i]
      /\ \A i \in DOMAIN out' : i \in DOMAIN out \/ i \in NewFrames
  BY <1>1 DEF LineEffect, FramesKept, NewFrames
<1>4. CASE finished
  <2>1. NewFrames = {} /\ finished'
    BY <1>1, <1>4 DEF LineEffect, FlagsFollow
  <2>2. Len(out') = Len(out)
    <3>1. ~(Len(out) < Len(out'))
      <4> SUFFICES ASSUME Len(out) < Len(out') PROVE FALSE
        OBVIOUS
      <4>1. Len(out') \in NewFrames
        <5>1. /\ Len(out) \in Nat /\ Len(out') \in Nat
              /\ DOMAIN out = 1..Len(out) /\ DOMAIN out' = 1..Len(out')
          BY <1>3
        <5> QED
          BY <5>1 DEF NewFrames
      <4> QED
        BY <2>1, <4>1
    <3>2. Len(out) \in Nat /\ Len(out') \in Nat /\ Len(out) <= Len(out')
      BY <1>3
    <3> QED
      BY ONLY <3>1, <3>2
  <2>3. DOMAIN out' = DOMAIN out
    BY <1>3, <2>2
  <2> QED
    BY <1>1, <1>2, <1>3, <1>4, <2>1, <2>2, <2>3 DEF FinishEndsStream
<1>5. CASE ~finished
  <2>1. \A i \in DOMAIN out : out[i].finish = ""
    BY <1>2, <1>5 DEF FinishEndsStream
  <2>2. \A i \in DOMAIN out : out[i].kind # "usage"
    BY <1>2, <2>1 DEF FinishEndsStream
  <2>3. ASSUME NEW i \in DOMAIN out', out'[i].finish # ""
        PROVE  i = Len(out') /\ finished'
    <3>1. i \in NewFrames
      BY <1>3, <2>1, <2>3
    <3> QED
      BY <1>1, <2>3, <3>1 DEF LineEffect, NewFramesOf
  <2>4. ASSUME NEW i \in DOMAIN out'
        PROVE  out'[i].kind # "usage"
    <3>1. CASE i \in DOMAIN out
      BY <1>3, <2>2, <3>1
    <3>2. CASE i \in NewFrames
      BY <1>1, <3>2 DEF LineEffect, NewFramesOf
    <3> QED
      BY <1>3, <3>1, <3>2
  <2>5. finished' => \E i \in DOMAIN out' : out'[i].finish # ""
    BY <1>1, <1>5 DEF LineEffect, FlagsFollow, NewFrames
  <2>6. ASSUME NEW i \in DOMAIN out', NEW j \in DOMAIN out', out'[i].finish # ""
        PROVE  ~(i < j)
    <3>1. i = Len(out')
      BY <2>3, <2>6
    <3> QED
      BY <1>3, <3>1
  <2> QED
    BY <2>3, <2>4, <2>5, <2>6 DEF FinishEndsStream
<1> QED
  BY <1>4, <1>5

\* Indices still stay with their call.
LEMMA LineIndexPerCall ==
    ASSUME IInv, NEW e \in Inputs, Line(e)
    PROVE  IndexPerCall'
<1>1. LineEffect(e)
  BY LineStep
<1>2. IndexPerCall /\ TypeOK
  BY DEF IInv
<1>3. /\ \A i \in DOMAIN out : i \in DOMAIN out' /\ out'[i] = out[i]
      /\ \A i \in DOMAIN out' : i \in DOMAIN out \/ i \in NewFrames
      /\ NewFrames \subseteq DOMAIN out'
  BY <1>1 DEF LineEffect, FramesKept, NewFrames
<1>4. \A c \in DOMAIN toolOpen : toolOpen[c] \in Nat /\ toolOpen[c] < toolIndex
  BY <1>2 DEF IndexPerCall, TypeOK
<1>5. \A c \in DOMAIN toolOpen' : toolOpen'[c] < toolIndex'
  BY <1>1, <1>4 DEF LineEffect, CallsGrow
<1>6. ASSUME NEW c \in DOMAIN toolOpen', NEW d \in DOMAIN toolOpen', toolOpen'[c] = toolOpen'[d]
      PROVE  c = d
  <2>1. CASE c \in DOMAIN toolOpen /\ d \in DOMAIN toolOpen
    BY <1>1, <1>2, <1>6, <2>1 DEF LineEffect, CallsGrow, IndexPerCall
  <2>2. CASE c \notin DOMAIN toolOpen /\ d \notin DOMAIN toolOpen
    BY <1>1, <2>2 DEF LineEffect, CallsGrow
  <2>3. CASE c \in DOMAIN toolOpen /\ d \notin DOMAIN toolOpen
    BY <1>1, <1>4, <1>6, <2>3 DEF LineEffect, CallsGrow
  <2>4. CASE c \notin DOMAIN toolOpen /\ d \in DOMAIN toolOpen
    BY <1>1, <1>4, <1>6, <2>4 DEF LineEffect, CallsGrow
  <2> QED
    BY <2>1, <2>2, <2>3, <2>4
<1>7. ASSUME NEW i \in DOMAIN out', out'[i].kind = "open"
      PROVE  out'[i].call \in DOMAIN toolOpen' /\ out'[i].index = toolOpen'[out'[i].call]
  <2>1. CASE i \in DOMAIN out
    <3>1. out'[i] = out[i] /\ out[i].call \in DOMAIN toolOpen /\ out[i].index = toolOpen[out[i].call]
      BY <1>2, <1>3, <1>7, <2>1 DEF IndexPerCall
    <3> QED
      BY <1>1, <3>1 DEF LineEffect, CallsGrow
  <2>2. CASE i \in NewFrames
    BY <1>1, <1>7, <2>2 DEF LineEffect, NewFramesOf
  <2> QED
    BY <1>3, <2>1, <2>2
<1>8. ASSUME NEW c \in DOMAIN toolOpen'
      PROVE  \E i \in DOMAIN out' : out'[i].kind = "open" /\ out'[i].call = c
  <2>1. CASE c \in DOMAIN toolOpen
    BY <1>2, <1>3, <2>1 DEF IndexPerCall
  <2>2. CASE c \notin DOMAIN toolOpen
    BY <1>1, <1>3, <2>2 DEF LineEffect, CallsGrow
  <2> QED
    BY <2>1, <2>2
<1> QED
  BY <1>5, <1>6, <1>7, <1>8 DEF IndexPerCall

\* Fragments still reach the call of their id.
LEMMA LineArguments ==
    ASSUME IInv, NEW e \in Inputs, Line(e)
    PROVE  ArgumentsReachTheirCall'
<1>1. LineEffect(e)
  BY LineStep
<1>2. ArgumentsReachTheirCall /\ IndexPerCall /\ Bookkeeping
  BY DEF IInv
<1>3. /\ Len(out) \in Nat /\ DOMAIN out = 1..Len(out) /\ DOMAIN out' = 1..Len(out')
      /\ \A i \in DOMAIN out : i \in DOMAIN out' /\ out'[i] = out[i]
      /\ \A i \in DOMAIN out' : i \in DOMAIN out \/ i \in NewFrames
      /\ NewFrames \subseteq DOMAIN out' /\ Len(out') \in Nat
      /\ \A i \in DOMAIN out, j \in NewFrames : i < j
  BY <1>1 DEF LineEffect, FramesKept, NewFrames
<1> SUFFICES ASSUME NEW i \in DOMAIN out', out'[i].kind = "args"
             PROVE  /\ out'[i].src \in DOMAIN seen'
                    /\ LET c == <<seen'[out'[i].src].id, 0>> IN
                       /\ c \in DOMAIN toolOpen' /\ out'[i].index = toolOpen'[c]
                       /\ \E j \in DOMAIN out' : j < i /\ out'[j].kind = "open" /\ out'[j].call = c
  BY DEF ArgumentsReachTheirCall
<1>4. CASE i \in DOMAIN out
  <2> DEFINE k == out[i].src
             c == <<seen[k].id, 0>>
  <2>1. out'[i] = out[i]
    BY <1>3, <1>4
  <2>2. /\ k \in DOMAIN seen /\ c \in DOMAIN toolOpen /\ out[i].index = toolOpen[c]
        /\ \E j \in DOMAIN out : j < i /\ out[j].kind = "open" /\ out[j].call = c
    BY <1>2, <1>4, <2>1 DEF ArgumentsReachTheirCall
  <2>3. k \in DOMAIN seen' /\ seen'[k] = seen[k]
    BY <2>2, SeenGrows
  <2>4. c \in DOMAIN toolOpen' /\ toolOpen'[c] = toolOpen[c]
    BY <1>1, <2>2 DEF LineEffect, CallsGrow
  <2>5. \E j \in DOMAIN out' : j < i /\ out'[j].kind = "open" /\ out'[j].call = c
    BY <1>3, <2>2
  <2> QED
    BY <2>1, <2>2, <2>3, <2>4, <2>5
<1>5. CASE i \in NewFrames
  <2>1. out'[i].src = now
    BY <1>1, <1>5 DEF LineEffect, NewFramesOf, PayloadKinds
  <2>2. now \in DOMAIN seen' /\ <<seen'[now].id, 0>> = Key(e)
    <3>1. now \in Nat /\ DOMAIN seen = 1..(now - 1) /\ DOMAIN seen' = 1..now /\ now \notin DOMAIN seen
      BY SeenGrows
    <3>2. seen'[now] = e
      BY SeenGrows
    <3>3. now >= 1
      BY NowPositive DEF IInv
    <3> QED
      BY <3>1, <3>2, <3>3 DEF Key
  <2>3. /\ Key(e) \in DOMAIN toolOpen' /\ out'[i].index = toolOpen'[Key(e)]
        /\ Key(e) \in DOMAIN toolOpen \/
           \E j \in NewFrames : j < i /\ out'[j].kind = "open" /\ out'[j].call = Key(e)
    BY <1>1, <1>5 DEF LineEffect, NewFramesOf
  <2>4. \E j \in DOMAIN out' : j < i /\ out'[j].kind = "open" /\ out'[j].call = Key(e)
    <3>1. CASE Key(e) \in DOMAIN toolOpen
      <4>1. PICK j \in DOMAIN out : out[j].kind = "open" /\ out[j].call = Key(e)
        BY <1>2, <3>1 DEF IndexPerCall
      <4> QED
        BY <1>3, <1>5, <4>1
    <3>2. CASE Key(e) \notin DOMAIN toolOpen
      BY <1>3, <2>3, <3>2
    <3> QED
      BY <3>1, <3>2
  <2> QED
    BY <2>1, <2>2, <2>3, <2>4
<1> QED
  BY <1>3, <1>4, <1>5

\* Payloads are still in order and complete.
LEMMA LinePayload ==
    ASSUME IInv, NEW e \in Inputs, Line(e)
    PROVE  PayloadInOrder' /\ PayloadComplete'
<1>1. LineEffect(e) /\ ~doneSent
  BY LineStep
<1>2. PayloadInOrder /\ PayloadComplete /\ Bookkeeping
  BY DEF IInv
<1>3. /\ Len(out) \in Nat /\ DOMAIN out = 1..Len(out) /\ DOMAIN out' = 1..Len(out')
      /\ \A i \in DOMAIN out : i \in DOMAIN out' /\ out'[i] = out[i]
      /\ \A i \in DOMAIN out' : i \in DOMAIN out \/ i \in NewFrames
      /\ NewFrames \subseteq DOMAIN out' /\ Len(out') \in Nat
      /\ \A i \in DOMAIN out, j \in NewFrames : i < j
  BY <1>1 DEF LineEffect, FramesKept, NewFrames
<1>4. /\ now \in Nat /\ DOMAIN seen = 1..(now - 1) /\ DOMAIN seen' = 1..now
      /\ \A k \in DOMAIN seen : seen'[k] = seen[k]
      /\ seen'[now] = e
  BY SeenGrows
<1>5. ASSUME NEW i \in DOMAIN out', NEW j \in DOMAIN out', i < j,
             out'[i].kind \in PayloadKinds, out'[j].kind \in PayloadKinds
      PROVE  out'[i].src < out'[j].src
  <2>1. CASE j \in DOMAIN out
    <3>1. i \in DOMAIN out
      BY <1>3, <1>5, <2>1
    <3> QED
      BY <1>2, <1>3, <1>5, <2>1, <3>1 DEF PayloadInOrder
  <2>2. CASE j \in NewFrames
    <3>1. j = Len(out') /\ out'[j].src = now
      BY <1>1, <1>5, <2>2 DEF LineEffect, NewFramesOf
    <3>2. i \in DOMAIN out
      <4>1. ~(i \in NewFrames)
        <5> SUFFICES ASSUME i \in NewFrames PROVE FALSE
          OBVIOUS
        <5>1. i = Len(out')
          BY <1>1, <1>5 DEF LineEffect, NewFramesOf
        <5> QED
          BY <1>3, <1>5, <3>1, <5>1
      <4> QED
        BY <1>3, <4>1
    <3>3. out'[i].src \in DOMAIN seen
      BY <1>2, <1>3, <1>5, <3>2 DEF Bookkeeping
    <3> QED
      BY <1>4, <3>1, <3>3
  <2> QED
    BY <1>3, <2>1, <2>2
<1>6. ASSUME NEW k \in DOMAIN seen', seen'[k].payload, CarriedBy(seen'[k]) # "none",
             \A j \in DOMAIN seen' : j < k => ~Terminal(seen'[j])
      PROVE  \E i \in DOMAIN out' : out'[i].src = k /\ out'[i].kind = CarriedBy(seen'[k])
  <2>1. CASE k \in DOMAIN seen
    <3>1. \E i \in DOMAIN out : out[i].src = k /\ out[i].kind = CarriedBy(seen[k])
      BY <1>2, <1>4, <1>6, <2>1 DEF PayloadComplete
    <3> QED
      BY <1>3, <1>4, <2>1, <3>1
  <2>2. CASE k \notin DOMAIN seen
    <3>1. k = now /\ seen'[k] = e
      BY <1>4, <2>2
    <3>2. \A j \in DOMAIN seen : ~Terminal(seen[j])
      BY <1>4, <1>6, <3>1
    <3>3. ~finished
      BY <1>1, <1>2, <3>2 DEF Bookkeeping
    <3> QED
      BY <1>1, <1>3, <1>6, <3>1, <3>3 DEF LineEffect, PayloadCarried
  <2> QED
    BY <2>1, <2>2
<1> QED
  BY <1>5, <1>6 DEF PayloadInOrder, PayloadComplete

(***************************************************************************)
(* Finalize preserves the invariant.                                       *)
(***************************************************************************)
\* The frames once the stream has its finish: it is the last one.
LEMMA FinishedFrames ==
    ASSUME IInv, ~doneSent
    PROVE  /\ Finished \in Seq(Frame) /\ Len(out) \in Nat /\ DOMAIN out = 1..Len(out)
           /\ Len(Finished) \in Nat /\ Len(out) <= Len(Finished) /\ Len(Finished) >= 1
           /\ DOMAIN Finished = 1..Len(Finished)
           /\ \A i \in DOMAIN out : Finished[i] = out[i]
           /\ \A i \in DOMAIN Finished \ DOMAIN out : Finished[i].kind = "finish"
           /\ \A i \in DOMAIN Finished : (Finished[i].finish # "" <=> i = Len(Finished))
           /\ \A i \in DOMAIN Finished : Finished[i].kind # "usage"
<1>1. out \in Seq(Frame) /\ FinishEndsStream /\ finished \in BOOLEAN
  BY DEF IInv, TypeOK
<1>2. Len(out) \in Nat /\ DOMAIN out = 1..Len(out)
  BY <1>1, LenProperties
<1>3. CASE finished
  <2>1. Finished = out
    BY <1>3 DEF Finished
  <2>2. PICK i \in DOMAIN out : out[i].finish # ""
    BY <1>1, <1>3 DEF FinishEndsStream
  <2>3. \A k, j \in DOMAIN out : out[k].finish # "" => ~(k < j)
    BY <1>1 DEF FinishEndsStream
  <2>4. /\ Len(out) \in DOMAIN out
        /\ \A j \in DOMAIN out : ~(j < Len(out)) => j = Len(out)
    <3>1. DOMAIN out # {}
      BY <2>2
    <3>2. PICK n \in Nat : n = Len(out) /\ DOMAIN out = 1..n
      BY <1>2
    <3>3. n \in 1..n
      BY ONLY <3>1, <3>2
    <3>4. \A j \in 1..n : ~(j < n) => j = n
      OBVIOUS
    <3> QED
      BY ONLY <3>2, <3>3, <3>4
  <2>5. \A j \in DOMAIN out : out[j].finish # "" <=> j = Len(out)
    BY ONLY <2>2, <2>3, <2>4
  <2>6. \A j \in DOMAIN out : out[j].kind # "usage"
    <3> SUFFICES ASSUME NEW j \in DOMAIN out, out[j].kind = "usage" PROVE FALSE
      OBVIOUS
    <3>1. \E k \in DOMAIN out : k < j /\ out[k].finish # ""
      BY <1>1 DEF FinishEndsStream
    <3> QED
      BY <2>3, <3>1
  <2> QED
    <3>1. Len(out) >= 1 /\ Len(out) <= Len(out)
      BY ONLY <1>2, <2>4
    <3> QED
      BY ONLY <1>1, <1>2, <2>1, <2>5, <2>6, <3>1
<1>4. CASE ~finished
  <2>1. FinishFrame("stop") \in Frame /\ FinishFrame("stop").kind = "finish"
        /\ FinishFrame("stop").finish # ""
    BY FinishFields DEF FinishReasons
  <2>2. Finished = Append(out, FinishFrame("stop"))
    BY <1>4 DEF Finished
  <2>3. /\ Finished \in Seq(Frame) /\ Len(Finished) = Len(out) + 1
        /\ DOMAIN Finished = 1..(Len(out) + 1)
        /\ \A i \in DOMAIN out : Finished[i] = out[i]
        /\ Finished[Len(out) + 1] = FinishFrame("stop")
    <3>1. PICK f \in Frame : f = FinishFrame("stop")
      BY <2>1
    <3>2. Finished = Append(out, f)
      BY <2>2, <3>1
    <3>3. /\ Append(out, f) \in Seq(Frame) /\ Len(Append(out, f)) = Len(out) + 1
          /\ DOMAIN Append(out, f) = 1..(Len(out) + 1)
          /\ \A i \in 1..Len(out) : Append(out, f)[i] = out[i]
          /\ Append(out, f)[Len(out) + 1] = f
      BY <1>1, Push
    <3> QED
      BY ONLY <1>2, <3>1, <3>2, <3>3
  <2>4. \A i \in DOMAIN out : out[i].finish = ""
    BY <1>1, <1>4 DEF FinishEndsStream
  <2>5. \A i \in DOMAIN out : out[i].kind # "usage"
    BY <1>1, <2>4 DEF FinishEndsStream
  <2>6. \A i \in DOMAIN Finished : i \in DOMAIN out \/ i = Len(out) + 1
    BY <1>2, <2>3
  <2>7. \A i \in DOMAIN out : i # Len(out) + 1 /\ i \in DOMAIN Finished
    BY <1>2, <2>3
  <2> QED
    <3>1. Len(Finished) \in Nat /\ Len(out) <= Len(Finished) /\ Len(Finished) >= 1
      BY ONLY <1>2, <2>3
    <3>2. \A i \in DOMAIN Finished : Finished[i].finish # "" <=> i = Len(Finished)
      BY ONLY <2>1, <2>3, <2>4, <2>6, <2>7
    <3>3. \A i \in DOMAIN Finished : Finished[i].kind # "usage"
      BY ONLY <2>1, <2>3, <2>5, <2>6, <2>7
    <3>4. \A i \in DOMAIN Finished \ DOMAIN out : Finished[i].kind = "finish"
      BY ONLY <2>1, <2>3, <2>6, <2>7
    <3> QED
      BY ONLY <1>2, <2>3, <3>1, <3>2, <3>3, <3>4
<1> QED
  BY <1>1, <1>3, <1>4

\* What Finalize emits after the frames so far.
LEMMA ClosingFrames ==
    ASSUME IInv, Finalize
    PROVE  /\ Len(out) \in Nat /\ DOMAIN out = 1..Len(out)
           /\ Len(out') \in Nat /\ DOMAIN out' = 1..Len(out') /\ Len(out) <= Len(out')
           /\ \A i \in DOMAIN out : i \in DOMAIN out' /\ out'[i] = out[i]
           /\ \A i \in DOMAIN out' : i \in DOMAIN out \/ out'[i].kind \in {"finish", "usage"}
           /\ \A i \in DOMAIN out' : out'[i].kind = "usage" => out'[i].finish = "" /\ i = Len(out')
           /\ \E k \in DOMAIN out' :
                 /\ \A i \in DOMAIN out' : out'[i].finish # "" <=> i = k
                 /\ \A i \in DOMAIN out' : k < i <=> out'[i].kind = "usage"
<1>1. PICK F, n : F = Finished /\ n = Len(F)
  OBVIOUS
<1>2. /\ F \in Seq(Frame) /\ Len(out) \in Nat /\ DOMAIN out = 1..Len(out)
      /\ n \in Nat /\ Len(out) <= n /\ n >= 1 /\ DOMAIN F = 1..n
      /\ \A i \in DOMAIN out : F[i] = out[i]
      /\ \A i \in DOMAIN F \ DOMAIN out : F[i].kind = "finish"
      /\ \A i \in DOMAIN F : (F[i].finish # "" <=> i = n)
      /\ \A i \in DOMAIN F : F[i].kind # "usage"
  BY <1>1, FinishedFrames DEF Finalize
<1>3. n \in Nat /\ Len(out) \in Nat /\ Len(out) <= n /\ n >= 1 /\ DOMAIN F = 1..n /\ DOMAIN out = 1..Len(out)
  BY <1>2
<1>4. n \in DOMAIN F
  BY ONLY <1>3
<1>5. \A i \in DOMAIN out : i \in DOMAIN F
  BY ONLY <1>3
<1>6. out' = IF usage = NoUsage THEN F ELSE Append(F, UsageFrame(usage))
  BY <1>1 DEF Finalize
<1>7. CASE usage = NoUsage
  <2>1. out' = F
    BY <1>6, <1>7
  <2>2. \A i \in DOMAIN F : ~(n < i)
    BY ONLY <1>3
  <2> QED
    BY ONLY <1>1, <1>2, <1>3, <1>4, <1>5, <2>1, <2>2
<1>8. CASE usage # NoUsage
  <2>1. PICK u \in Frame : u = UsageFrame(usage) /\ u.kind = "usage" /\ u.finish = ""
    BY UsageFields DEF IInv, TypeOK
  <2>2. out' = Append(F, u)
    BY <1>6, <1>8, <2>1
  <2>3. /\ Len(out') = n + 1 /\ DOMAIN out' = 1..(n + 1)
        /\ \A i \in 1..n : out'[i] = F[i]
        /\ out'[n + 1] = u
    <3>1. F \in Seq(Frame)
      BY <1>2
    <3>2. /\ Len(Append(F, u)) = Len(F) + 1 /\ DOMAIN Append(F, u) = 1..(Len(F) + 1)
          /\ \A i \in 1..Len(F) : Append(F, u)[i] = F[i]
          /\ Append(F, u)[Len(F) + 1] = u
      BY <3>1, Push
    <3> QED
      BY ONLY <1>1, <2>2, <3>2
  <2>4. \A i \in DOMAIN out' : i \in DOMAIN F \/ i = n + 1
    BY ONLY <1>3, <2>3
  <2>5. \A i \in DOMAIN F : i \in DOMAIN out' /\ out'[i] = F[i] /\ i # n + 1 /\ ~(n < i)
    BY ONLY <1>3, <2>3
  <2>6. n < n + 1 /\ n # n + 1 /\ Len(out) <= n + 1 /\ n + 1 \in Nat /\ n + 1 \in DOMAIN out'
    BY ONLY <1>3, <2>3
  <2>7. \A i \in DOMAIN out : i \in DOMAIN out' /\ out'[i] = out[i]
    BY <1>2, <1>5, <2>5
  <2>8. \A i \in DOMAIN out' : i \in DOMAIN out \/ out'[i].kind \in {"finish", "usage"}
    BY <1>2, <2>1, <2>3, <2>4, <2>5
  <2>9. \A i \in DOMAIN out' : out'[i].kind = "usage" => out'[i].finish = "" /\ i = n + 1
    BY <1>2, <2>1, <2>3, <2>4, <2>5
  <2>10. \A i \in DOMAIN out' : out'[i].finish # "" <=> i = n
    BY <1>2, <1>4, <2>1, <2>3, <2>4, <2>5, <2>6
  <2>11. \A i \in DOMAIN out' : n < i <=> out'[i].kind = "usage"
    BY <1>2, <2>1, <2>3, <2>4, <2>5, <2>6
  <2> QED
    BY <1>2, <1>4, <2>3, <2>5, <2>6, <2>7, <2>8, <2>9, <2>10, <2>11
<1> QED
  BY <1>7, <1>8

\* Closing the stream keeps the invariant.
LEMMA FinalizeKeepsIInv ==
    ASSUME IInv, Finalize
    PROVE  IInv'
<1>1. /\ Len(out) \in Nat /\ DOMAIN out = 1..Len(out)
      /\ Len(out') \in Nat /\ DOMAIN out' = 1..Len(out') /\ Len(out) <= Len(out')
      /\ \A i \in DOMAIN out : i \in DOMAIN out' /\ out'[i] = out[i]
      /\ \A i \in DOMAIN out' : i \in DOMAIN out \/ out'[i].kind \in {"finish", "usage"}
  BY ClosingFrames
<1>2. /\ ~doneSent /\ doneSent' /\ finished'
      /\ UNCHANGED <<seen, roleSent, toolOpen, toolIndex, usage>>
  BY DEF Finalize
<1>3. TypeOK'
  BY TypeNext DEF IInv, Next
<1>4. /\ Bookkeeping /\ RoleLeads /\ IndexPerCall /\ ArgumentsReachTheirCall
      /\ PayloadInOrder /\ PayloadComplete /\ TypeOK
  BY DEF IInv
<1>5. \A i \in DOMAIN out' : out'[i].kind \notin {"finish", "usage"} =>
                                 i \in DOMAIN out /\ out'[i] = out[i]
  BY <1>1
<1>6. \A i \in DOMAIN out' : out'[i].kind \in PayloadKinds => i \in DOMAIN out /\ out'[i] = out[i]
  BY <1>5 DEF PayloadKinds
<1>7. Bookkeeping'
  <2>1. roleSent => out' # <<>>
    <3> SUFFICES ASSUME roleSent PROVE out' # <<>>
      OBVIOUS
    <3>1. Len(out) # 0
      BY <1>4, EmptySeq DEF Bookkeeping, TypeOK
    <3>2. Len(out') # 0
      BY <1>1, <3>1
    <3> QED
      BY <3>2, EmptySeq
  <2>2. \A i \in DOMAIN out' : out'[i].kind \in PayloadKinds => out'[i].src \in DOMAIN seen
    BY <1>4, <1>6 DEF Bookkeeping
  <2> QED
    BY <1>2, <2>1, <2>2 DEF Bookkeeping
<1>8. RoleLeads'
  <2>1. ~roleSent => \A i \in DOMAIN out' : out'[i].kind \in {"finish", "usage"}
    BY <1>1, <1>4 DEF RoleLeads
  <2>2. ASSUME NEW i \in DOMAIN out' PROVE out'[i].kind = "role" <=> roleSent /\ i = 1
    <3>1. CASE i \in DOMAIN out
      BY <1>1, <1>4, <3>1 DEF RoleLeads
    <3>2. CASE i \notin DOMAIN out
      <4>1. out'[i].kind # "role"
        BY <1>1, <3>2
      <4>2. roleSent => i # 1
        <5> SUFFICES ASSUME roleSent PROVE i # 1
          OBVIOUS
        <5>1. Len(out) # 0
          BY <1>4, EmptySeq DEF Bookkeeping, TypeOK
        <5> QED
          BY <1>1, <3>2, <5>1
      <4> QED
        BY <4>1, <4>2
    <3> QED
      BY <3>1, <3>2
  <2> QED
    BY <1>2, <2>1, <2>2 DEF RoleLeads
<1>9. FinishEndsStream'
  <2>1. PICK k \in DOMAIN out' : /\ \A i \in DOMAIN out' : out'[i].finish # "" <=> i = k
                                 /\ \A i \in DOMAIN out' : k < i <=> out'[i].kind = "usage"
    BY ClosingFrames
  <2>2. \A i \in DOMAIN out' : out'[i].kind = "usage" => out'[i].finish = "" /\ i = Len(out')
    BY ClosingFrames
  <2> QED
    BY <1>2, <2>1, <2>2 DEF FinishEndsStream
<1>10. IndexPerCall'
  <2>1. \A i \in DOMAIN out' : out'[i].kind = "open" => i \in DOMAIN out /\ out'[i] = out[i]
    BY <1>5
  <2>2. \A c \in DOMAIN toolOpen : \E i \in DOMAIN out' : out'[i].kind = "open" /\ out'[i].call = c
    BY <1>1, <1>4 DEF IndexPerCall
  <2> QED
    BY <1>2, <1>4, <2>1, <2>2 DEF IndexPerCall
<1>11. ArgumentsReachTheirCall'
  <2> SUFFICES ASSUME NEW i \in DOMAIN out', out'[i].kind = "args"
               PROVE  /\ out'[i].src \in DOMAIN seen
                      /\ LET c == <<seen[out'[i].src].id, 0>> IN
                         /\ c \in DOMAIN toolOpen /\ out'[i].index = toolOpen[c]
                         /\ \E j \in DOMAIN out' : j < i /\ out'[j].kind = "open" /\ out'[j].call = c
    BY <1>2 DEF ArgumentsReachTheirCall
  <2>1. i \in DOMAIN out /\ out'[i] = out[i]
    BY <1>5
  <2> DEFINE c == <<seen[out[i].src].id, 0>>
  <2>2. /\ out[i].src \in DOMAIN seen /\ c \in DOMAIN toolOpen /\ out[i].index = toolOpen[c]
        /\ \E j \in DOMAIN out : j < i /\ out[j].kind = "open" /\ out[j].call = c
    BY <1>4, <2>1 DEF ArgumentsReachTheirCall
  <2> HIDE DEF c
  <2>3. \E j \in DOMAIN out' : j < i /\ out'[j].kind = "open" /\ out'[j].call = c
    BY <1>1, <2>2
  <2> QED
    BY <2>1, <2>2, <2>3 DEF c
<1>12. PayloadInOrder'
  BY <1>4, <1>6 DEF PayloadInOrder
<1>13. PayloadComplete'
  <2> SUFFICES ASSUME NEW k \in DOMAIN seen, seen[k].payload, CarriedBy(seen[k]) # "none",
                      \A j \in DOMAIN seen : j < k => ~Terminal(seen[j])
               PROVE  \E i \in DOMAIN out' : out'[i].src = k /\ out'[i].kind = CarriedBy(seen[k])
    BY <1>2 DEF PayloadComplete
  <2>1. \E i \in DOMAIN out : out[i].src = k /\ out[i].kind = CarriedBy(seen[k])
    BY <1>4 DEF PayloadComplete
  <2> QED
    BY <1>1, <2>1
<1> QED
  BY <1>3, <1>7, <1>8, <1>9, <1>10, <1>11, <1>12, <1>13 DEF IInv

\* Every step keeps the invariant.
LEMMA IInvNext == IInv /\ [Next]_vars => IInv'
<1> SUFFICES ASSUME IInv, [Next]_vars PROVE IInv'
  OBVIOUS
<1>1. ASSUME NEW e \in Inputs, Line(e) PROVE IInv'
  <2>1. TypeOK'
    BY <1>1, TypeNext DEF IInv, Next
  <2> QED
    BY <1>1, <2>1, LineBookkeeping, LineRoleLeads, LineFinishEndsStream, LineIndexPerCall,
       LineArguments, LinePayload DEF IInv
<1>2. CASE Finalize
  BY <1>2, FinalizeKeepsIInv
<1>3. CASE UNCHANGED vars
  <2>1. TypeOK'
    BY TypeNext DEF IInv
  <2>2. Bookkeeping'
    BY <1>3 DEF vars, IInv, Bookkeeping
  <2>3. RoleLeads'
    BY <1>3 DEF vars, IInv, RoleLeads
  <2>4. FinishEndsStream'
    BY <1>3 DEF vars, IInv, FinishEndsStream
  <2>5. IndexPerCall'
    BY <1>3 DEF vars, IInv, IndexPerCall
  <2>6. ArgumentsReachTheirCall'
    BY <1>3 DEF vars, IInv, ArgumentsReachTheirCall
  <2>7. PayloadInOrder' /\ PayloadComplete'
    BY <1>3 DEF vars, IInv, PayloadInOrder, PayloadComplete
  <2> QED
    BY <2>1, <2>2, <2>3, <2>4, <2>5, <2>6, <2>7 DEF IInv
<1> QED
  BY <1>1, <1>2, <1>3 DEF Next

\* The invariant holds always.
LEMMA IInvAlways == Spec => []IInv
BY IInvInit, IInvNext, PTL DEF Spec

\* roleFrame: the role delta is the first frame of an answer and the only one,
\* whichever event starts the answer.
THEOREM RoleLeadsAlways == Spec => []RoleLeads
<1>1. IInv => RoleLeads
  BY DEF IInv
<1> QED
  BY <1>1, IInvAlways, PTL

\* finished and finalize: exactly one finish reason ends a stream, and only a
\* usage frame may follow it.
THEOREM FinishEndsStreamAlways == Spec => []FinishEndsStream
<1>1. IInv => FinishEndsStream
  BY DEF IInv
<1> QED
  BY <1>1, IInvAlways, PTL

\* toolOpen and toolIndex: two tool calls never share an index, and a call
\* keeps the one it was announced with.
THEOREM IndexPerCallAlways == Spec => []IndexPerCall
<1>1. IInv => IndexPerCall
  BY DEF IInv
<1> QED
  BY <1>1, IInvAlways, PTL

\* The tool-input-delta case of frames: a fragment of arguments reaches the
\* call of its own id, announced before it.
THEOREM ArgumentsReachTheirCallAlways == Spec => []ArgumentsReachTheirCall
<1>1. IInv => ArgumentsReachTheirCall
  BY DEF IInv
<1> QED
  BY <1>1, IInvAlways, PTL

\* frames: payloads leave in the order of their events, none of them twice.
THEOREM PayloadInOrderAlways == Spec => []PayloadInOrder
<1>1. IInv => PayloadInOrder
  BY DEF IInv
<1> QED
  BY <1>1, IInvAlways, PTL

\* frames: no payload that came before the terminal event is lost.
THEOREM PayloadCompleteAlways == Spec => []PayloadComplete
<1>1. IInv => PayloadComplete
  BY DEF IInv
<1> QED
  BY <1>1, IInvAlways, PTL

(***************************************************************************)
(* The usage the client is told.  Not part of IInv: it leans on it (a      *)
(* usage frame means that the stream was closed) and on what upstream puts *)
(* in its events (InputsAssumption), and nothing leans on it.              *)
(***************************************************************************)
\* A line that reports usage replaces what was recorded; no other line does.
LEMMA LineUsage ==
    ASSUME TypeOK, NEW e \in Inputs, Line(e)
    PROVE  /\ e.usage \/ e.total => usage' = UsageBlock(now, e.total, e.reasoned)
           /\ ~(e.usage \/ e.total) => usage' = usage
<1>1. /\ e.usage \in BOOLEAN /\ e.total \in BOOLEAN
      /\ e.usage => e.type \in {"finish-step", "finish"}
      /\ e.total => e.type = "finish"
  BY InputsAssumption DEF Event
<1>2. CASE Late(e)
  BY <1>1, <1>2 DEF Late
<1>3. CASE TextDelta(e)
  BY <1>1, <1>3 DEF TextDelta, TextTypes
<1>4. CASE ToolStart(e)
  BY <1>1, <1>4 DEF ToolStart, StartTypes
<1>5. CASE ToolDelta(e)
  BY <1>1, <1>5 DEF ToolDelta, DeltaTypes
<1>6. CASE Ignored(e)
  BY <1>1, <1>6 DEF Ignored, TextTypes, DeltaTypes, IgnoredByStream
<1>7. CASE FinishStep(e)
  BY <1>1, <1>7 DEF FinishStep
<1>8. CASE Finish(e)
  BY <1>1, <1>8 DEF Finish
<1>9. CASE Error(e)
  BY <1>1, <1>9 DEF Error
<1> QED
  BY <1>2, <1>3, <1>4, <1>5, <1>6, <1>7, <1>8, <1>9 DEF Line

\* Usage frames come with Finalize only.
LEMMA OpenStreamTellsNoUsage ==
    ASSUME FinishEndsStream, ~doneSent
    PROVE  \A i \in DOMAIN out : out[i].kind # "usage"
BY DEF FinishEndsStream

\* Closing reports the usage that was kept, if any.
LEMMA ClosingUsage ==
    ASSUME IInv, Finalize
    PROVE  /\ \A i \in DOMAIN out' : out'[i].kind = "usage" => out'[i].usage = usage
           /\ usage # NoUsage => \E i \in DOMAIN out' : out'[i].kind = "usage"
<1>1. PICK F : F = Finished
  OBVIOUS
<1>2. F \in Seq(Frame) /\ \A i \in DOMAIN F : F[i].kind # "usage"
  BY <1>1, FinishedFrames DEF Finalize
<1>3. out' = IF usage = NoUsage THEN F ELSE Append(F, UsageFrame(usage))
  BY <1>1 DEF Finalize
<1>4. CASE usage = NoUsage
  BY <1>2, <1>3, <1>4
<1>5. CASE usage # NoUsage
  <2>1. PICK u \in Frame : u = UsageFrame(usage) /\ u.kind = "usage" /\ u.usage = usage
    BY UsageFields DEF IInv, TypeOK
  <2>2. out' = Append(F, u)
    BY <1>3, <1>5, <2>1
  <2>3. /\ Len(F) \in Nat /\ DOMAIN F = 1..Len(F) /\ DOMAIN out' = 1..(Len(F) + 1)
        /\ \A i \in 1..Len(F) : out'[i] = F[i]
        /\ out'[Len(F) + 1] = u
    BY <1>2, <2>2, Push
  <2>4. \A i \in DOMAIN out' : i \in DOMAIN F \/ i = Len(F) + 1
    BY ONLY <2>3
  <2>5. Len(F) + 1 \in DOMAIN out'
    BY ONLY <2>3
  <2> QED
    BY <1>2, <2>1, <2>3, <2>4, <2>5
<1> QED
  BY <1>4, <1>5

\* A line that carries usage replaces what is kept.
LEMMA LineUsageReported ==
    ASSUME IInv, LatestUsageReported, NEW e \in Inputs, Line(e)
    PROVE  LatestUsageReported'
<1>1. /\ TypeOK /\ Len(seen) \in Nat /\ DOMAIN seen = 1..Len(seen)
      /\ now = Len(seen) + 1 /\ usage \in [src : Nat, total : BOOLEAN, reasoned : BOOLEAN]
  BY LenProperties DEF IInv, TypeOK, now
<1>2. /\ Len(seen') = now /\ DOMAIN seen' = 1..now /\ seen'[now] = e
      /\ \A k \in DOMAIN seen : seen'[k] = seen[k]
  <2>1. seen' = Append(seen, e) /\ seen \in Seq(Inputs)
    BY <1>1 DEF Line, TypeOK
  <2> QED
    BY <1>1, <2>1, Push
<1>3. \A k \in DOMAIN seen' : (k \in DOMAIN seen /\ k # now /\ k <= now) \/ k = now
  BY <1>1, <1>2
<1>4. ~doneSent' /\ \A i \in DOMAIN out' : out'[i].kind # "usage"
  <2>1. ~doneSent /\ doneSent' = doneSent
    BY DEF Line
  <2>2. FinishEndsStream'
    BY LineFinishEndsStream
  <2> QED
    BY <2>1, <2>2 DEF FinishEndsStream
<1>5. CASE e.usage \/ e.total
  <2>1. usage'.src = now /\ usage'.total = e.total /\ usage'.reasoned = e.reasoned
    BY <1>1, <1>5, LineUsage DEF UsageBlock
  <2>2. now \in 0..now /\ now # 0 /\ \A k \in DOMAIN seen' : k <= now
    BY <1>1, <1>2
  <2> QED
    BY <1>2, <1>4, <1>5, <2>1, <2>2 DEF LatestUsageReported
<1>6. CASE ~(e.usage \/ e.total)
  <2>1. usage' = usage
    BY <1>1, <1>6, LineUsage
  <2>2. /\ usage.src \in 0..Len(seen)
        /\ usage.src = 0 => usage = NoUsage
        /\ \A k \in DOMAIN seen : (seen[k].usage \/ seen[k].total) => k <= usage.src
        /\ usage.src # 0 => /\ seen[usage.src].usage \/ seen[usage.src].total
                            /\ usage.total = seen[usage.src].total
                            /\ usage.reasoned = seen[usage.src].reasoned
    BY DEF LatestUsageReported
  <2>3. usage.src \in 0..now /\ (usage.src # 0 => usage.src \in DOMAIN seen)
    BY <1>1, <2>2
  <2>4. \A k \in DOMAIN seen' : (seen'[k].usage \/ seen'[k].total) => k <= usage.src
    BY <1>2, <1>3, <1>6, <2>2
  <2> QED
    BY <1>2, <1>4, <2>1, <2>2, <2>3, <2>4 DEF LatestUsageReported
<1> QED
  BY <1>5, <1>6

\* Every step keeps what is reported the latest.
LEMMA LatestUsageNext == IInv /\ LatestUsageReported /\ [Next]_vars => LatestUsageReported'
<1> SUFFICES ASSUME IInv, LatestUsageReported, [Next]_vars PROVE LatestUsageReported'
  OBVIOUS
<1>1. ASSUME NEW e \in Inputs, Line(e) PROVE LatestUsageReported'
  BY <1>1, LineUsageReported
<1>2. CASE Finalize
  <2>1. seen' = seen /\ usage' = usage
    BY <1>2 DEF Finalize
  <2>2. /\ \A i \in DOMAIN out' : out'[i].kind = "usage" => out'[i].usage = usage
        /\ usage # NoUsage => \E i \in DOMAIN out' : out'[i].kind = "usage"
    BY <1>2, ClosingUsage
  <2> QED
    BY <2>1, <2>2 DEF LatestUsageReported
<1>3. CASE UNCHANGED vars
  BY <1>3 DEF vars, LatestUsageReported
<1> QED
  BY <1>1, <1>2, <1>3 DEF Next

\* frames, before and after the finish, and finalize: the client is told the last usage that upstream
\* reported, the total before the plain block of the same event.
THEOREM LatestUsageReportedAlways == Spec => []LatestUsageReported
<1>1. Init => LatestUsageReported
  <2> SUFFICES ASSUME Init PROVE LatestUsageReported
    OBVIOUS
  <2>1. Len(seen) = 0 /\ DOMAIN seen = {} /\ DOMAIN out = {} /\ usage.src = 0
    BY DEF Init, NoUsage
  <2> QED
    BY <2>1 DEF Init, LatestUsageReported
<1> QED
  BY <1>1, IInvAlways, LatestUsageNext, PTL DEF Spec

(***************************************************************************)
(* Induction, over sets: the two folds are recursive functions on 0..n,    *)
(* and what they compute for a longer list is found step by step.          *)
(***************************************************************************)

\* A set of natural numbers has a least element.
LEMMA LeastNumber ==
    ASSUME NEW S \in SUBSET Nat, S # {}
    PROVE  \E n \in S : \A m \in S : n <= m
<1>1. PICK n \in S : \A m \in S : ~(<<m, n>> \in OpToRel(<, Nat))
  <2> HIDE DEF OpToRel
  <2> QED
    BY NatLessThanWellFounded, WFMin, Zenon
<1>2. \A m \in S : m < n => <<m, n>> \in OpToRel(<, Nat)
  BY Zenon DEF OpToRel
<1>3. ASSUME NEW m \in S PROVE n <= m
  <2>1. ~(m < n)
    BY <1>1, <1>2, Zenon
  <2> QED
    BY <2>1
<1> QED
  BY <1>3

\* A set that holds 0 and every successor of its numbers holds all of them.
LEMMA Count ==
    ASSUME NEW S, 0 \in S, \A n \in Nat : n \in S => n + 1 \in S
    PROVE  Nat \subseteq S
<1> DEFINE T == Nat \ S
<1> SUFFICES ASSUME T # {} PROVE FALSE
  OBVIOUS
<1>1. PICK n \in T : \A m \in T : n <= m
  <2>1. T \in SUBSET Nat
    OBVIOUS
  <2> HIDE DEF T
  <2> QED
    BY <2>1, LeastNumber
<1>2. n # 0 /\ n - 1 \in Nat
  BY <1>1
<1> QED
  BY <1>1, <1>2

\* g is the function ClientMessage is made of, for these frames.
Received(g, frames) ==
    g = [n \in 0..Len(frames) |->
           IF n = 0 THEN EmptyMessage ELSE Receive(g[n - 1], frames[n])]

\* There is one.
LEMMA ReceivedExists ==
    ASSUME NEW S, NEW frames \in Seq(S)
    PROVE  \E g : Received(g, frames)
<1> DEFINE At(g, n) == IF n = 0 THEN EmptyMessage ELSE Receive(g[n - 1], frames[n])
           Good(g, n) == DOMAIN g = 0..n /\ \A m \in 0..n : g[m] = At(g, m)
           N == {n \in Nat : \E g : Good(g, n)}
<1>1. 0 \in N
  <2> DEFINE g == [n \in 0..0 |-> EmptyMessage]
  <2>1. Good(g, 0)
    OBVIOUS
  <2> QED
    BY <2>1
<1>2. ASSUME NEW n \in Nat, n \in N PROVE n + 1 \in N
  <2>1. PICK g : Good(g, n)
    BY <1>2
  <2> DEFINE h == [m \in 0..(n+1) |-> IF m = n + 1 THEN At(g, m) ELSE g[m]]
  <2>2. Good(h, n + 1)
    <3>1. DOMAIN h = 0..(n+1)
      OBVIOUS
    <3>2. ASSUME NEW m \in 0..(n+1) PROVE h[m] = At(h, m)
      <4>1. m # 0 => m - 1 \in 0..n /\ h[m - 1] = g[m - 1]
        OBVIOUS
      <4>2. CASE m = n + 1
        BY <4>1, <4>2
      <4>3. CASE m \in 0..n
        <5>1. h[m] = g[m] /\ g[m] = At(g, m)
          BY <4>3, <2>1
        <5> QED
          BY <5>1, <4>1
      <4> QED
        BY <4>2, <4>3
    <3> QED
      BY <3>1, <3>2
  <2>3. n + 1 \in Nat
    OBVIOUS
  <2> HIDE DEF Good, h
  <2> QED
    BY <2>2, <2>3
<1> HIDE DEF N
<1>3. Len(frames) \in N
  BY <1>1, <1>2, Count, LenProperties
<1>4. PICK g : Good(g, Len(frames))
  BY <1>3 DEF N
<1>5. g = [n \in 0..Len(frames) |-> g[n]]
  BY <1>4
<1> QED
  BY <1>4, <1>5 DEF Received

\* The message after no frame, and after one frame more (ClientMessage).
LEMMA MessageFold ==
    /\ ClientMessage(<<>>) = EmptyMessage
    /\ \A S : \A frames \in Seq(S), f \in S :
          ClientMessage(Append(frames, f)) = Receive(ClientMessage(frames), f)
<1>1. ASSUME NEW S, NEW frames \in Seq(S)
      PROVE  \E g : Received(g, frames) /\ ClientMessage(frames) = g[Len(frames)]
  <2> DEFINE g == CHOOSE g : Received(g, frames)
  <2>1. Received(g, frames)
    BY ReceivedExists, Zenon
  <2>2. ClientMessage(frames) = g[Len(frames)]
    BY DEF ClientMessage, Received
  <2> QED
    BY <2>1, <2>2
<1>2. ClientMessage(<<>>) = EmptyMessage
  <2>1. <<>> \in Seq({}) /\ Len(<<>>) = 0
    OBVIOUS
  <2>2. PICK g : Received(g, <<>>) /\ ClientMessage(<<>>) = g[0]
    BY <1>1, <2>1
  <2> QED
    BY <2>1, <2>2 DEF Received
<1>3. ASSUME NEW S, NEW frames \in Seq(S), NEW f \in S
      PROVE  ClientMessage(Append(frames, f)) = Receive(ClientMessage(frames), f)
  <2> DEFINE n == Len(frames)
             longer == Append(frames, f)
  <2>1. /\ longer \in Seq(S) /\ n \in Nat /\ Len(longer) = n + 1
        /\ \A i \in 1..n : longer[i] = frames[i]
        /\ longer[n + 1] = f
    BY Push
  <2>2. PICK g : Received(g, frames) /\ ClientMessage(frames) = g[n]
    BY <1>1
  <2>3. PICK h : Received(h, longer) /\ ClientMessage(longer) = h[n + 1]
    BY <1>1, <2>1
  <2>4. \A k \in 0..n : g[k] = IF k = 0 THEN EmptyMessage ELSE Receive(g[k - 1], frames[k])
    BY <2>2 DEF Received
  <2>5. \A k \in 0..(n + 1) :
           h[k] = IF k = 0 THEN EmptyMessage ELSE Receive(h[k - 1], longer[k])
    BY <2>1, <2>3 DEF Received
  <2> HIDE DEF n, longer
  <2> DEFINE N == {k \in Nat : k <= n => g[k] = h[k]}
  <2>6. 0 \in N
    BY <2>1, <2>4, <2>5
  <2>7. ASSUME NEW k \in Nat, k \in N PROVE k + 1 \in N
    <3>1. CASE k + 1 <= n
      <4>1. g[k] = h[k]
        BY <2>1, <2>7, <3>1
      <4>2. k + 1 \in 0..n /\ k + 1 \in 0..(n + 1) /\ k + 1 # 0 /\ k + 1 \in 1..n /\ (k + 1) - 1 = k
        BY <2>1, <3>1
      <4>3. g[k + 1] = Receive(g[k], frames[k + 1]) /\ h[k + 1] = Receive(h[k], longer[k + 1])
        BY <2>4, <2>5, <4>2
      <4> QED
        BY <2>1, <4>1, <4>2, <4>3
    <3>2. CASE ~(k + 1 <= n)
      BY <2>1, <3>2
    <3> QED
      BY <3>1, <3>2
  <2> HIDE DEF N
  <2>8. n \in N
    BY <2>1, <2>6, <2>7, Count
  <2>9. g[n] = h[n]
    BY <2>1, <2>8 DEF N
  <2>10. h[n + 1] = Receive(h[n], longer[n + 1])
    <3>1. n + 1 \in 0..(n + 1) /\ n + 1 # 0 /\ (n + 1) - 1 = n
      BY <2>1
    <3> QED
      BY <2>5, <3>1
  <2> QED
    BY <2>1, <2>2, <2>3, <2>9, <2>10 DEF longer
<1> QED
  BY <1>2, <1>3

\* g is the function Fold is made of, for these lines.
Folded(g, events) ==
    g = [n \in 0..Len(events) |->
           IF n = 0 THEN EmptyFold ELSE FoldEvent(g[n - 1], events[n])]

\* There is one.
LEMMA FoldedExists ==
    ASSUME NEW S, NEW events \in Seq(S)
    PROVE  \E g : Folded(g, events)
<1> DEFINE At(g, n) == IF n = 0 THEN EmptyFold ELSE FoldEvent(g[n - 1], events[n])
           Good(g, n) == DOMAIN g = 0..n /\ \A m \in 0..n : g[m] = At(g, m)
           N == {n \in Nat : \E g : Good(g, n)}
<1>1. 0 \in N
  <2> DEFINE g == [n \in 0..0 |-> EmptyFold]
  <2>1. Good(g, 0)
    OBVIOUS
  <2> QED
    BY <2>1
<1>2. ASSUME NEW n \in Nat, n \in N PROVE n + 1 \in N
  <2>1. PICK g : Good(g, n)
    BY <1>2
  <2> DEFINE h == [m \in 0..(n+1) |-> IF m = n + 1 THEN At(g, m) ELSE g[m]]
  <2>2. Good(h, n + 1)
    <3>1. DOMAIN h = 0..(n+1)
      OBVIOUS
    <3>2. ASSUME NEW m \in 0..(n+1) PROVE h[m] = At(h, m)
      <4>1. m # 0 => m - 1 \in 0..n /\ h[m - 1] = g[m - 1]
        OBVIOUS
      <4>2. CASE m = n + 1
        BY <4>1, <4>2
      <4>3. CASE m \in 0..n
        <5>1. h[m] = g[m] /\ g[m] = At(g, m)
          BY <4>3, <2>1
        <5> QED
          BY <5>1, <4>1
      <4> QED
        BY <4>2, <4>3
    <3> QED
      BY <3>1, <3>2
  <2>3. n + 1 \in Nat
    OBVIOUS
  <2> HIDE DEF Good, h
  <2> QED
    BY <2>2, <2>3
<1> HIDE DEF N
<1>3. Len(events) \in N
  BY <1>1, <1>2, Count, LenProperties
<1>4. PICK g : Good(g, Len(events))
  BY <1>3 DEF N
<1>5. g = [n \in 0..Len(events) |-> g[n]]
  BY <1>4
<1> QED
  BY <1>4, <1>5 DEF Folded

\* The fold of no line, and of one line more (Fold).
LEMMA ResponseFold ==
    /\ Fold(<<>>) = EmptyFold
    /\ \A S : \A events \in Seq(S), e \in S :
          Fold(Append(events, e)) = FoldEvent(Fold(events), e)
<1>1. ASSUME NEW S, NEW events \in Seq(S)
      PROVE  \E g : Folded(g, events) /\ Fold(events) = g[Len(events)]
  <2> DEFINE g == CHOOSE g : Folded(g, events)
  <2>1. Folded(g, events)
    BY FoldedExists, Zenon
  <2>2. Fold(events) = g[Len(events)]
    BY DEF Fold, Folded
  <2> QED
    BY <2>1, <2>2
<1>2. Fold(<<>>) = EmptyFold
  <2>1. <<>> \in Seq({}) /\ Len(<<>>) = 0
    OBVIOUS
  <2>2. PICK g : Folded(g, <<>>) /\ Fold(<<>>) = g[0]
    BY <1>1, <2>1
  <2> QED
    BY <2>1, <2>2 DEF Folded
<1>3. ASSUME NEW S, NEW events \in Seq(S), NEW e \in S
      PROVE  Fold(Append(events, e)) = FoldEvent(Fold(events), e)
  <2> DEFINE n == Len(events)
             longer == Append(events, e)
  <2>1. /\ longer \in Seq(S) /\ n \in Nat /\ Len(longer) = n + 1
        /\ \A i \in 1..n : longer[i] = events[i]
        /\ longer[n + 1] = e
    BY Push
  <2>2. PICK g : Folded(g, events) /\ Fold(events) = g[n]
    BY <1>1
  <2>3. PICK h : Folded(h, longer) /\ Fold(longer) = h[n + 1]
    BY <1>1, <2>1
  <2>4. \A k \in 0..n : g[k] = IF k = 0 THEN EmptyFold ELSE FoldEvent(g[k - 1], events[k])
    BY <2>2 DEF Folded
  <2>5. \A k \in 0..(n + 1) :
           h[k] = IF k = 0 THEN EmptyFold ELSE FoldEvent(h[k - 1], longer[k])
    BY <2>1, <2>3 DEF Folded
  <2> HIDE DEF n, longer
  <2> DEFINE N == {k \in Nat : k <= n => g[k] = h[k]}
  <2>6. 0 \in N
    BY <2>1, <2>4, <2>5
  <2>7. ASSUME NEW k \in Nat, k \in N PROVE k + 1 \in N
    <3>1. CASE k + 1 <= n
      <4>1. g[k] = h[k]
        BY <2>1, <2>7, <3>1
      <4>2. k + 1 \in 0..n /\ k + 1 \in 0..(n + 1) /\ k + 1 # 0 /\ k + 1 \in 1..n /\ (k + 1) - 1 = k
        BY <2>1, <3>1
      <4>3. g[k + 1] = FoldEvent(g[k], events[k + 1]) /\ h[k + 1] = FoldEvent(h[k], longer[k + 1])
        BY <2>4, <2>5, <4>2
      <4> QED
        BY <2>1, <4>1, <4>2, <4>3
    <3>2. CASE ~(k + 1 <= n)
      BY <2>1, <3>2
    <3> QED
      BY <3>1, <3>2
  <2> HIDE DEF N
  <2>8. n \in N
    BY <2>1, <2>6, <2>7, Count
  <2>9. g[n] = h[n]
    BY <2>1, <2>8 DEF N
  <2>10. h[n + 1] = FoldEvent(h[n], longer[n + 1])
    <3>1. n + 1 \in 0..(n + 1) /\ n + 1 # 0 /\ (n + 1) - 1 = n
      BY <2>1
    <3> QED
      BY <2>5, <3>1
  <2> QED
    BY <2>1, <2>2, <2>3, <2>9, <2>10 DEF longer
<1> QED
  BY <1>2, <1>3

(***************************************************************************)
(* What a client does with each frame of the converter (Receive).          *)
(***************************************************************************)
Usage == [src : Nat, total : BOOLEAN, reasoned : BOOLEAN]
HeldCall == [call : CallId, args : Seq(Nat)]
Message == [content : Seq(Nat), reasoning : Seq(Nat), calls : Seq(HeldCall),
            finish : FinishReasons \cup {""}, usage : Usage, orphan : BOOLEAN]

\* A message with one more call, and with one more fragment for a call.
Opened(m, c, args) == [m EXCEPT !.calls = Append(@, [call |-> c, args |-> args])]
Extended(m, i, k)  == [m EXCEPT !.calls[i].args = Append(@, k)]

\* The role delta adds nothing.
LEMMA ReceiveRole ==
    ASSUME NEW m \in Message PROVE Receive(m, Chunk("role", 0)) = m
<1>1. /\ Chunk("role", 0).kind = "role" /\ Chunk("role", 0).finish = ""
  BY DEF Chunk
<1>2. Receive(m, Chunk("role", 0)) = [m EXCEPT !.finish = m.finish]
  BY <1>1 DEF Receive
<1> QED
  BY <1>2 DEF Message

\* A text or reasoning chunk is appended to its field.
LEMMA ReceiveText ==
    ASSUME NEW m \in Message, NEW k \in Nat
    PROVE  /\ Receive(m, Chunk("content", k)) = [m EXCEPT !.content = Append(@, k)]
           /\ Receive(m, Chunk("reasoning", k)) = [m EXCEPT !.reasoning = Append(@, k)]
<1>1. /\ Chunk("content", k).kind = "content" /\ Chunk("content", k).finish = ""
      /\ Chunk("content", k).src = k
      /\ Chunk("reasoning", k).kind = "reasoning" /\ Chunk("reasoning", k).finish = ""
      /\ Chunk("reasoning", k).src = k
  BY DEF Chunk
<1>2. [m EXCEPT !.finish = m.finish] = m
  BY DEF Message
<1> QED
  BY <1>1, <1>2 DEF Receive

\* A call that is announced at the end of the calls is one more call; a call
\* announced again changes nothing.
LEMMA ReceiveOpen ==
    ASSUME NEW m \in Message, NEW c \in CallId, NEW i \in Nat, NEW e, NEW k \in Nat
    PROVE  /\ i = Len(m.calls) => Receive(m, OpenFrame(c, i, e, k)) = Opened(m, c, <<>>)
           /\ i + 1 \in DOMAIN m.calls => Receive(m, OpenFrame(c, i, e, k)) = m
<1>1. PICK f : f = OpenFrame(c, i, e, k)
  OBVIOUS
<1>2. f.kind = "open" /\ f.finish = "" /\ f.call = c /\ f.index = i
  BY <1>1 DEF OpenFrame, NameIn, Chunk, Frame, Kinds, NoCall, CallId, NoUsage
<1>3. [m EXCEPT !.finish = m.finish] = m
  BY DEF Message
<1>4. Len(m.calls) \in Nat /\ DOMAIN m.calls = 1..Len(m.calls)
  BY LenProperties DEF Message
<1>5. CASE i = Len(m.calls)
  <2>1. i + 1 \notin DOMAIN m.calls
    BY <1>4, <1>5
  <2>2. f.index + 1 = Len(m.calls) + 1
    BY <1>2, <1>5
  <2>3. Receive(m, f) = [m EXCEPT !.calls = Append(@, [call |-> c, args |-> <<>>])]
    BY <1>2, <1>3, <1>5, <2>1, <2>2 DEF Receive
  <2> QED
    BY <1>1, <2>1, <2>3 DEF Opened
<1>6. CASE i + 1 \in DOMAIN m.calls
  <2>1. i # Len(m.calls)
    BY <1>4, <1>6
  <2>2. f.index + 1 \in DOMAIN m.calls /\ f.index + 1 # Len(m.calls) + 1
    <3>1. i + 1 # Len(m.calls) + 1
      BY <1>4, <2>1
    <3> QED
      BY ONLY <1>2, <1>6, <3>1, Zenon
  <2>3. Receive(m, f) = [m EXCEPT !.finish = m.finish]
    BY ONLY <1>2, <2>2 DEF Receive
  <2> QED
    BY <1>1, <1>3, <2>1, <2>3
<1> QED
  BY <1>5, <1>6

\* A fragment of arguments is appended to those of the call at its index.
LEMMA ReceiveArgs ==
    ASSUME NEW m \in Message, NEW i \in Nat, NEW k \in Nat, i + 1 \in DOMAIN m.calls
    PROVE  Receive(m, ArgsFrame(i, k)) = Extended(m, i + 1, k)
<1>1. ArgsFrame(i, k).kind = "args" /\ ArgsFrame(i, k).finish = ""
      /\ ArgsFrame(i, k).index = i /\ ArgsFrame(i, k).src = k
  BY DEF ArgsFrame, Chunk
<1>2. [m EXCEPT !.finish = m.finish] = m
  BY DEF Message
<1> QED
  BY <1>1, <1>2 DEF Receive, Extended

\* The frames that finish the answer, and the usage frame.
LEMMA ReceiveEnd ==
    ASSUME NEW m \in Message
    PROVE  /\ \A r \in FinishReasons :
                 Receive(m, FinishFrame(r)) = [m EXCEPT !.finish = r]
           /\ \A k \in Nat : Receive(m, ErrorFrame(k)) =
                 [m EXCEPT !.content = Append(@, k), !.finish = "stop"]
           /\ \A u \in Usage : Receive(m, UsageFrame(u)) = [m EXCEPT !.usage = u]
<1>1. ASSUME NEW r \in FinishReasons
      PROVE  Receive(m, FinishFrame(r)) = [m EXCEPT !.finish = r]
  <2>1. FinishFrame(r).kind = "finish" /\ FinishFrame(r).finish = r /\ r # ""
    BY DEF FinishFrame, Chunk, FinishReasons
  <2> QED
    BY <2>1 DEF Receive
<1>2. ASSUME NEW k \in Nat
      PROVE  Receive(m, ErrorFrame(k)) = [m EXCEPT !.content = Append(@, k), !.finish = "stop"]
  <2>1. ErrorFrame(k).kind = "content" /\ ErrorFrame(k).finish = "stop" /\ ErrorFrame(k).src = k
    BY DEF ErrorFrame, Chunk
  <2>2. Receive(m, ErrorFrame(k)) =
           [[m EXCEPT !.finish = "stop"] EXCEPT !.content = Append(@, k)]
    BY <2>1 DEF Receive
  <2> QED
    BY <2>2 DEF Message
<1>3. ASSUME NEW u \in Usage
      PROVE  Receive(m, UsageFrame(u)) = [m EXCEPT !.usage = u]
  <2>1. UsageFrame(u).kind = "usage" /\ UsageFrame(u).finish = "" /\ UsageFrame(u).usage = u
    BY DEF UsageFrame, Chunk
  <2>2. [m EXCEPT !.finish = m.finish] = m
    BY DEF Message
  <2> QED
    BY <2>1, <2>2 DEF Receive
<1> QED
  BY <1>1, <1>2, <1>3

\* A message with one call more.
LEMMA OpenedFields ==
    ASSUME NEW m \in Message, NEW c \in CallId, NEW args \in Seq(Nat)
    PROVE  /\ Opened(m, c, args) \in Message
           /\ Opened(m, c, args).content = m.content
           /\ Opened(m, c, args).reasoning = m.reasoning
           /\ Opened(m, c, args).finish = m.finish
           /\ Opened(m, c, args).usage = m.usage
           /\ Opened(m, c, args).orphan = m.orphan
           /\ Opened(m, c, args).calls = Append(m.calls, [call |-> c, args |-> args])
<1>1. m.calls \in Seq(HeldCall) /\ [call |-> c, args |-> args] \in HeldCall
  BY DEF Message, HeldCall
<1>2. Append(m.calls, [call |-> c, args |-> args]) \in Seq(HeldCall)
  BY <1>1, Push
<1> QED
  BY <1>2 DEF Opened, Message

\* A message with one fragment more, for the call at i.
LEMMA ExtendedFields ==
    ASSUME NEW m \in Message, NEW i \in DOMAIN m.calls, NEW k \in Nat
    PROVE  /\ Extended(m, i, k) \in Message
           /\ Extended(m, i, k).content = m.content
           /\ Extended(m, i, k).reasoning = m.reasoning
           /\ Extended(m, i, k).finish = m.finish
           /\ Extended(m, i, k).usage = m.usage
           /\ Extended(m, i, k).orphan = m.orphan
           /\ DOMAIN Extended(m, i, k).calls = DOMAIN m.calls
           /\ Len(Extended(m, i, k).calls) = Len(m.calls)
           /\ \A j \in DOMAIN m.calls : j # i => Extended(m, i, k).calls[j] = m.calls[j]
           /\ Extended(m, i, k).calls[i].call = m.calls[i].call
           /\ Extended(m, i, k).calls[i].args = Append(m.calls[i].args, k)
<1>1. /\ m.calls \in Seq(HeldCall) /\ m.calls[i] \in HeldCall
      /\ Len(m.calls) \in Nat /\ DOMAIN m.calls = 1..Len(m.calls)
  BY LenProperties, ElementOfSeq DEF Message
<1>2. PICK f : f = [m.calls[i] EXCEPT !.args = Append(m.calls[i].args, k)]
  OBVIOUS
<1>3. f \in HeldCall /\ f.call = m.calls[i].call /\ f.args = Append(m.calls[i].args, k)
  <2>1. Append(m.calls[i].args, k) \in Seq(Nat)
    BY <1>1, Push DEF HeldCall
  <2> QED
    BY <1>1, <1>2, <2>1 DEF HeldCall
<1>4. PICK s : s = [m.calls EXCEPT ![i] = f]
  OBVIOUS
<1>5. /\ s \in Seq(HeldCall) /\ Len(s) = Len(m.calls) /\ DOMAIN s = DOMAIN m.calls
      /\ \A j \in DOMAIN m.calls : j # i => s[j] = m.calls[j]
      /\ s[i] = f
  BY <1>1, <1>3, <1>4, ExceptSeq
<1>6. Extended(m, i, k) = [m EXCEPT !.calls = s]
  BY <1>2, <1>4 DEF Extended
<1> QED
  <2>1. PICK x : x = [m EXCEPT !.calls = s]
    OBVIOUS
  <2>2. /\ x \in Message /\ x.content = m.content /\ x.reasoning = m.reasoning
        /\ x.finish = m.finish /\ x.usage = m.usage /\ x.orphan = m.orphan
        /\ x.calls = s
    BY <1>5, <2>1 DEF Message
  <2>3. Extended(m, i, k) = x
    BY <1>6, <2>1
  <2> QED
    BY <1>3, <1>5, <2>2, <2>3

\* To open a call and give it its first fragment.
LEMMA ExtendOpened ==
    ASSUME NEW m \in Message, NEW c \in CallId, NEW k \in Nat
    PROVE  /\ Opened(m, c, <<>>) \in Message
           /\ Len(m.calls) + 1 \in DOMAIN Opened(m, c, <<>>).calls
           /\ Extended(Opened(m, c, <<>>), Len(m.calls) + 1, k) = Opened(m, c, <<k>>)
<1> DEFINE old == [call |-> c, args |-> <<>>]
           new == [call |-> c, args |-> <<k>>]
<1>1. m.calls \in Seq(HeldCall)
  BY DEF Message
<1>2. PICK n \in Nat : n = Len(m.calls) + 1
  <2>1. Len(m.calls) \in Nat
    BY <1>1, LenProperties
  <2> QED
    BY <2>1
<1>3. m.calls \in Seq(HeldCall) /\ old \in HeldCall /\ new \in HeldCall
  <2>1. <<>> \in Seq(Nat) /\ <<k>> \in Seq(Nat)
    OBVIOUS
  <2> QED
    BY <1>1, <2>1 DEF HeldCall
<1>4. PICK s, t : s = Append(m.calls, old) /\ t = Append(m.calls, new)
  OBVIOUS
<1>5. /\ s \in Seq(HeldCall) /\ Len(s) = n /\ DOMAIN s = 1..n
      /\ \A j \in 1..(n - 1) : s[j] = m.calls[j]
      /\ s[n] = old
  BY <1>2, <1>3, <1>4, Push
<1>6. /\ t \in Seq(HeldCall) /\ Len(t) = n /\ DOMAIN t = 1..n
      /\ \A j \in 1..(n - 1) : t[j] = m.calls[j]
      /\ t[n] = new
  BY <1>2, <1>3, <1>4, Push
<1>7. Opened(m, c, <<>>) = [m EXCEPT !.calls = s] /\ Opened(m, c, <<k>>) = [m EXCEPT !.calls = t]
  BY <1>4 DEF Opened
<1>8. PICK x : x = [m EXCEPT !.calls = s]
  OBVIOUS
<1>9. x \in Message /\ x.calls = s /\ \A v : [x EXCEPT !.calls = v] = [m EXCEPT !.calls = v]
  BY <1>5, <1>8 DEF Message
<1>10. n \in 1..n
  BY <1>2, LenProperties, <1>3
<1>11. [s EXCEPT ![n] = new] = t
  <2>1. PICK u : u = [s EXCEPT ![n] = new]
    OBVIOUS
  <2>2. /\ u \in Seq(HeldCall) /\ Len(u) = n
        /\ \A j \in 1..n : j # n => u[j] = s[j]
        /\ u[n] = new
    BY <1>3, <1>5, <1>10, <2>1, ExceptSeq
  <2>3. ASSUME NEW j \in 1..n PROVE u[j] = t[j]
    <3>1. CASE j = n
      BY <1>6, <2>2, <3>1
    <3>2. CASE j # n
      <4>1. j \in 1..(n - 1)
        BY ONLY n \in Nat, j \in 1..n, j # n
      <4> QED
        BY <1>5, <1>6, <2>2, <3>2, <4>1
    <3> QED
      BY <3>1, <3>2
  <2> HIDE DEF new, old
  <2>4. u = t
    BY <1>6, <2>2, <2>3, SeqEqual
  <2> QED
    BY <2>1, <2>4
<1>12. [s[n] EXCEPT !.args = Append(s[n].args, k)] = new
  BY <1>5
<1>13. Extended(x, n, k) = [x EXCEPT !.calls = [s EXCEPT ![n] = new]]
  BY <1>9, <1>12 DEF Extended
<1> QED
  BY <1>2, <1>5, <1>7, <1>8, <1>9, <1>10, <1>11, <1>13

\* What the client has put together from the frames so far.
held == ClientMessage(out)

(***************************************************************************)
(* What the client holds goes with streamState: the calls with their       *)
(* indices, a finish reason with finished, the usage with doneSent.        *)
(***************************************************************************)
CallsHeld ==
    /\ Len(held.calls) = toolIndex
    /\ \A c \in DOMAIN toolOpen : held.calls[toolOpen[c] + 1].call = c
    /\ \A i \in DOMAIN held.calls :
          held.calls[i].call \in DOMAIN toolOpen /\ toolOpen[held.calls[i].call] + 1 = i

Held ==
    /\ held \in Message /\ ~held.orphan
    /\ held.finish # "" <=> finished
    /\ held.usage = IF doneSent THEN usage ELSE NoUsage
    /\ CallsHeld

\* The frames of a step, and what the client holds after them.
LEMMA HeldAppend ==
    ASSUME NEW s \in Seq(Frame), NEW f \in Frame
    PROVE  ClientMessage(Append(s, f)) = Receive(ClientMessage(s), f)
BY MessageFold

\* The role delta is nothing to the client.
LEMMA HeldLed ==
    ASSUME TypeOK, held \in Message PROVE ClientMessage(Led) = held
<1>1. CASE roleSent
  BY <1>1 DEF Led, held
<1>2. CASE ~roleSent
  <2>1. Led = Append(out, Chunk("role", 0))
    BY <1>2 DEF Led
  <2>2. out \in Seq(Frame) /\ Chunk("role", 0) \in Frame
    BY RoleFields DEF TypeOK
  <2>3. ClientMessage(Led) = Receive(held, Chunk("role", 0))
    BY <2>1, <2>2, HeldAppend DEF held
  <2> QED
    BY <2>3, ReceiveRole
<1> QED
  BY <1>1, <1>2

\* One frame after the role delta.
LEMMA HeldLedAppend ==
    ASSUME TypeOK, held \in Message, NEW f \in Frame, out' = Append(Led, f)
    PROVE  held' = Receive(held, f)
<1>1. ClientMessage(Append(Led, f)) = Receive(held, f)
  BY HeldLed, LedType, HeldAppend
<1> QED
  BY <1>1 DEF held

\* A text delta reaches the client in its field.
LEMMA TextHeld ==
    ASSUME TypeOK, held \in Message, NEW e \in Inputs, TextDelta(e)
    PROVE  \/ e.type = "text-delta" /\ held' = [held EXCEPT !.content = Append(@, now)]
           \/ e.type = "reasoning-delta" /\ held' = [held EXCEPT !.reasoning = Append(@, now)]
<1>1. now \in Nat
  BY NowType
<1>2. CASE e.type = "text-delta"
  <2>1. out' = Append(Led, Chunk("content", now))
    BY <1>2 DEF TextDelta
  <2>2. Chunk("content", now) \in Frame
    BY <1>1, ChunkFields DEF Kinds
  <2> QED
    BY <1>1, <1>2, <2>1, <2>2, HeldLedAppend, ReceiveText
<1>3. CASE e.type = "reasoning-delta"
  <2>1. out' = Append(Led, Chunk("reasoning", now))
    BY <1>3 DEF TextDelta
  <2>2. Chunk("reasoning", now) \in Frame
    BY <1>1, ChunkFields DEF Kinds
  <2> QED
    BY <1>1, <1>3, <2>1, <2>2, HeldLedAppend, ReceiveText
<1> QED
  BY <1>2, <1>3 DEF TextDelta, TextTypes

\* The call of a start event.
LEMMA StartedCallType ==
    ASSUME TypeOK, NEW e \in Inputs PROVE StartedCall(e) \in CallId /\ Key(e) \in CallId
BY NowType, InputsAssumption DEF Event, CallId, StartedCall, Key

\* The index of a call that is open is one the client knows.
LEMMA IndexHeld ==
    ASSUME TypeOK, IndexPerCall, CallsHeld, NEW c \in DOMAIN toolOpen
    PROVE  toolOpen[c] \in Nat /\ toolOpen[c] + 1 \in DOMAIN held.calls
<1>1. toolOpen[c] \in Nat /\ toolIndex \in Nat /\ toolOpen[c] < toolIndex
  BY DEF TypeOK, IndexPerCall
<1>2. Len(held.calls) = toolIndex
  BY DEF CallsHeld
<1> QED
  BY <1>1, <1>2

\* A start announces its call to the client, unless the client has it.
LEMMA StartHeld ==
    ASSUME TypeOK, IndexPerCall, Held, NEW e \in Inputs, ToolStart(e), NEW c, c = StartedCall(e)
    PROVE  /\ c \in DOMAIN toolOpen => held' = held
           /\ c \notin DOMAIN toolOpen => held' = Opened(held, c, <<>>)
<1>1. c \in CallId /\ now \in Nat /\ held \in Message /\ toolIndex \in Nat
  BY NowType, StartedCallType DEF Held, TypeOK
<1>2. PICK i \in Nat : i = WithCall(c)[c]
  BY <1>1, WithCallType
<1>3. out' = Append(Led, OpenFrame(c, i, e, now))
  BY <1>2 DEF ToolStart
<1>4. OpenFrame(c, i, e, now) \in Frame
  BY <1>1, OpenFields
<1>5. held' = Receive(held, OpenFrame(c, i, e, now))
  BY <1>1, <1>3, <1>4, HeldLedAppend
<1>6. CASE c \in DOMAIN toolOpen
  <2>1. i = toolOpen[c]
    BY <1>1, <1>2, <1>6, WithCallType
  <2>2. i + 1 \in DOMAIN held.calls
    BY <1>6, <2>1, IndexHeld DEF Held
  <2> QED
    BY <1>1, <1>5, <1>6, <2>2, ReceiveOpen
<1>7. CASE c \notin DOMAIN toolOpen
  <2>1. i = toolIndex
    BY <1>1, <1>2, <1>7, WithCallType
  <2>2. i = Len(held.calls)
    BY <2>1 DEF Held, CallsHeld
  <2> QED
    BY <1>1, <1>5, <1>7, <2>2, ReceiveOpen
<1> QED
  BY <1>6, <1>7

\* A fragment reaches the call of its id; the client learns of that call on
\* the way when nobody announced it.
LEMMA DeltaHeld ==
    ASSUME TypeOK, IndexPerCall, Held, NEW e \in Inputs, ToolDelta(e), NEW c, c = Key(e)
    PROVE  /\ c \in DOMAIN toolOpen => held' = Extended(held, toolOpen[c] + 1, now)
           /\ c \notin DOMAIN toolOpen => held' = Opened(held, c, <<now>>)
<1>1. c \in CallId /\ now \in Nat /\ held \in Message /\ toolIndex \in Nat /\ out \in Seq(Frame)
  BY NowType, StartedCallType DEF Held, TypeOK
<1>2. CASE c \in DOMAIN toolOpen
  <2>1. PICK i : i = toolOpen[c]
    OBVIOUS
  <2>2. i \in Nat /\ i + 1 \in DOMAIN held.calls
    BY <1>2, <2>1, IndexHeld DEF Held
  <2>3. out' = Append(out, ArgsFrame(i, now))
    BY <1>2, <2>1 DEF ToolDelta, Key
  <2>4. ArgsFrame(i, now) \in Frame
    BY <1>1, <2>2, ArgsFields
  <2>5. held' = Receive(held, ArgsFrame(i, now))
    BY <1>1, <2>3, <2>4, HeldAppend DEF held
  <2> QED
    BY <1>1, <1>2, <2>1, <2>2, <2>5, ReceiveArgs
<1>3. CASE c \notin DOMAIN toolOpen
  <2>1. PICK i \in Nat : i = toolIndex
    BY <1>1
  <2>2. PICK s : s = Append(Led, OpenFrame(c, i, e, now))
    OBVIOUS
  <2>3. out' = Append(s, ArgsFrame(i, now))
    BY <1>3, <2>1, <2>2 DEF ToolDelta, Key
  <2>4. OpenFrame(c, i, e, now) \in Frame /\ ArgsFrame(i, now) \in Frame
    BY <1>1, OpenFields, ArgsFields
  <2>5. s \in Seq(Frame) /\ ClientMessage(s) = Receive(held, OpenFrame(c, i, e, now))
    BY <1>1, <2>2, <2>4, LedType, Push, HeldLed, HeldAppend
  <2>6. i = Len(held.calls)
    BY <2>1 DEF Held, CallsHeld
  <2>7. PICK m : m = Opened(held, c, <<>>)
    OBVIOUS
  <2>8. ClientMessage(s) = m
    BY <1>1, <2>5, <2>6, <2>7, ReceiveOpen
  <2>9. m \in Message /\ i + 1 \in DOMAIN m.calls /\ Extended(m, i + 1, now) = Opened(held, c, <<now>>)
    BY <1>1, <2>6, <2>7, ExtendOpened
  <2>10. held' = Receive(m, ArgsFrame(i, now))
    BY <2>3, <2>4, <2>5, <2>8, HeldAppend DEF held
  <2> QED
    BY <1>1, <1>3, <2>9, <2>10, ReceiveArgs
<1> QED
  BY <1>2, <1>3

\* A finish tells the client its reason.
LEMMA FinishHeld ==
    ASSUME TypeOK, held \in Message, NEW e \in Inputs, Finish(e)
    PROVE  held' = [held EXCEPT !.finish = MapFinishReason(e.reason)]
<1>1. PICK r \in FinishReasons : r = MapFinishReason(e.reason)
  BY MapFinishReasonType
<1>2. out' = Append(Led, FinishFrame(r))
  BY <1>1 DEF Finish
<1>3. held' = Receive(held, FinishFrame(r))
  BY <1>2, FinishFields, HeldLedAppend
<1> QED
  BY <1>1, <1>3, ReceiveEnd

\* An error is content, and the end of the answer.
LEMMA ErrorHeld ==
    ASSUME TypeOK, held \in Message, NEW e \in Inputs, Error(e)
    PROVE  held' = [held EXCEPT !.content = Append(@, now), !.finish = "stop"]
<1>1. now \in Nat
  BY NowType
<1>2. out' = Append(Led, ErrorFrame(now))
  BY DEF Error
<1>3. held' = Receive(held, ErrorFrame(now))
  BY <1>1, <1>2, ErrorFields, HeldLedAppend
<1> QED
  BY <1>1, <1>3, ReceiveEnd

\* Closing gives the client a finish reason when it has none, and the usage.
LEMMA CloseHeld ==
    ASSUME TypeOK, Held, Finalize
    PROVE  held' = [held EXCEPT !.finish = IF held.finish = "" THEN "stop" ELSE held.finish,
                                !.usage  = usage]
<1>1. /\ held \in Message /\ (held.finish # "" <=> finished) /\ held.usage = NoUsage
      /\ usage \in Usage /\ out \in Seq(Frame) /\ finished \in BOOLEAN
  BY DEF Held, TypeOK, Usage, Finalize
<1>2. PICK m : m = ClientMessage(Finished)
  OBVIOUS
<1>3. m = [held EXCEPT !.finish = IF held.finish = "" THEN "stop" ELSE held.finish]
  <2>1. CASE finished
    <3>1. m = held
      BY <1>2, <2>1 DEF Finished, held
    <3> QED
      BY <1>1, <2>1, <3>1 DEF Message
  <2>2. CASE ~finished
    <3>1. Finished = Append(out, FinishFrame("stop")) /\ "stop" \in FinishReasons
      BY <2>2 DEF Finished, FinishReasons
    <3>2. m = Receive(held, FinishFrame("stop"))
      BY <1>1, <1>2, <3>1, FinishFields, HeldAppend DEF held
    <3> QED
      BY <1>1, <2>2, <3>1, <3>2, ReceiveEnd
  <2> QED
    BY <2>1, <2>2
<1>4. m \in Message /\ m.usage = NoUsage
  BY <1>1, <1>3 DEF Message, FinishReasons
<1>5. held' = [m EXCEPT !.usage = usage]
  <2>1. CASE usage = NoUsage
    <3>1. held' = m
      BY <1>2, <2>1 DEF Finalize, held
    <3> QED
      BY <1>4, <2>1, <3>1 DEF Message
  <2>2. CASE usage # NoUsage
    <3>1. out' = Append(Finished, UsageFrame(usage))
      BY <2>2 DEF Finalize
    <3>2. Finished \in Seq(Frame) /\ UsageFrame(usage) \in Frame
      BY <1>1, FinishedType, UsageFields DEF Usage
    <3>3. held' = Receive(m, UsageFrame(usage))
      BY <1>2, <3>1, <3>2, HeldAppend DEF held
    <3> QED
      BY <1>1, <1>4, <3>3, ReceiveEnd
  <2> QED
    BY <2>1, <2>2
<1> QED
  BY <1>3, <1>5

\* The arguments of a call with one fragment.
LEMMA OneFragment == ASSUME NEW k \in Nat PROVE <<k>> \in Seq(Nat)
OBVIOUS

\* To look up a call that is open changes nothing.
LEMMA TookKnownCall ==
    ASSUME TypeOK, NEW c \in DOMAIN toolOpen, TookCall(c)
    PROVE  toolOpen' = toolOpen /\ toolIndex' = toolIndex
<1>1. toolOpen = [d \in DOMAIN toolOpen |-> toolOpen[d]]
  BY DEF TypeOK
<1>2. DOMAIN toolOpen \cup {c} = DOMAIN toolOpen
  OBVIOUS
<1>3. WithCall(c) = [d \in DOMAIN toolOpen |-> toolOpen[d]]
  BY <1>2 DEF WithCall
<1> QED
  BY <1>1, <1>3 DEF TookCall

\* A call nobody opened before is the last one, for the converter and for the
\* client.
LEMMA NewCallHeld ==
    ASSUME TypeOK, IndexPerCall, Held, NEW c \in CallId, c \notin DOMAIN toolOpen,
           NEW args \in Seq(Nat), TookCall(c), held' = Opened(held, c, args)
    PROVE  CallsHeld'
<1>1. /\ held \in Message /\ Len(held.calls) = toolIndex /\ toolIndex \in Nat
      /\ \A d \in DOMAIN toolOpen : toolOpen[d] \in Nat /\ toolOpen[d] < toolIndex
  BY DEF Held, CallsHeld, TypeOK, IndexPerCall
<1>2. /\ \A d \in DOMAIN toolOpen : held.calls[toolOpen[d] + 1].call = d
      /\ \A i \in DOMAIN held.calls :
            held.calls[i].call \in DOMAIN toolOpen /\ toolOpen[held.calls[i].call] + 1 = i
  BY DEF Held, CallsHeld
<1>3. /\ DOMAIN toolOpen' = DOMAIN toolOpen \cup {c} /\ toolIndex' = toolIndex + 1
      /\ \A d \in DOMAIN toolOpen : toolOpen'[d] = toolOpen[d]
      /\ toolOpen'[c] = toolIndex
  BY WithCallType DEF TookCall, WithCall
<1>4. PICK s, f : s = held'.calls /\ f = [call |-> c, args |-> args]
  OBVIOUS
<1>5. s = Append(held.calls, f) /\ f.call = c /\ f \in HeldCall /\ held.calls \in Seq(HeldCall)
  <2>1. s = Append(held.calls, f)
    BY <1>1, <1>4, OpenedFields
  <2>2. f.call = c /\ f \in HeldCall
    BY <1>4 DEF HeldCall
  <2>3. held.calls \in Seq(HeldCall)
    BY <1>1 DEF Message
  <2> QED
    BY <2>1, <2>2, <2>3
<1>6. /\ Len(s) = toolIndex + 1 /\ DOMAIN s = 1..(toolIndex + 1)
      /\ DOMAIN held.calls = 1..toolIndex
      /\ \A i \in 1..toolIndex : s[i] = held.calls[i]
      /\ s[toolIndex + 1] = f
  BY <1>1, <1>5, Push
<1>7. ASSUME NEW d \in DOMAIN toolOpen' PROVE s[toolOpen'[d] + 1].call = d
  <2>1. CASE d \in DOMAIN toolOpen
    <3>1. toolOpen[d] + 1 \in 1..toolIndex
      BY <1>1, <2>1
    <3> QED
      BY <1>2, <1>3, <1>6, <2>1, <3>1
  <2>2. CASE d = c
    BY <1>3, <1>5, <1>6, <2>2
  <2> QED
    BY <1>3, <2>1, <2>2
<1>8. ASSUME NEW i \in DOMAIN s
      PROVE  s[i].call \in DOMAIN toolOpen' /\ toolOpen'[s[i].call] + 1 = i
  <2>1. CASE i \in 1..toolIndex
    BY <1>2, <1>3, <1>6, <2>1
  <2>2. CASE i = toolIndex + 1
    BY <1>3, <1>5, <1>6, <2>2
  <2> QED
    BY <1>1, <1>6, <2>1, <2>2
<1> QED
  BY <1>3, <1>4, <1>6, <1>7, <1>8 DEF CallsHeld

\* A fragment for a call that is open leaves the calls what they are.
LEMMA KnownCallHeld ==
    ASSUME TypeOK, IndexPerCall, Held, NEW c \in DOMAIN toolOpen, TookCall(c), NEW k \in Nat,
           held' = Extended(held, toolOpen[c] + 1, k)
    PROVE  CallsHeld'
<1>1. toolOpen' = toolOpen /\ toolIndex' = toolIndex
  BY TookKnownCall
<1>2. PICK n \in DOMAIN held.calls : n = toolOpen[c] + 1
  BY IndexHeld DEF Held
<1>3. /\ DOMAIN held'.calls = DOMAIN held.calls /\ Len(held'.calls) = Len(held.calls)
      /\ \A i \in DOMAIN held.calls : held'.calls[i].call = held.calls[i].call
  <2>1. held \in Message
    BY DEF Held
  <2> QED
    BY <1>2, <2>1, ExtendedFields
<1>4. \A d \in DOMAIN toolOpen : toolOpen[d] + 1 \in DOMAIN held.calls
  BY IndexHeld DEF Held
<1> QED
  BY <1>1, <1>3, <1>4 DEF Held, CallsHeld

\* What the client holds at the start.
LEMMA HeldInit == Init => Held
<1> SUFFICES ASSUME Init PROVE Held
  OBVIOUS
<1>1. held = EmptyMessage
  BY MessageFold DEF held, Init
<1>2. EmptyMessage \in Message
  <2>1. <<>> \in Seq(Nat) /\ <<>> \in Seq(HeldCall) /\ NoUsage \in Usage
    BY DEF NoUsage, Usage
  <2> QED
    BY <2>1 DEF EmptyMessage, Message
<1>3. /\ ~held.orphan /\ held.finish = "" /\ held.usage = NoUsage /\ held.calls = <<>>
  BY <1>1 DEF EmptyMessage
<1>4. DOMAIN toolOpen = {} /\ toolIndex = 0 /\ ~finished /\ ~doneSent
  BY DEF Init
<1>5. Len(held.calls) = 0 /\ DOMAIN held.calls = {}
  <2>1. Len(<<>>) = 0 /\ DOMAIN <<>> = {}
    OBVIOUS
  <2> QED
    BY ONLY <1>3, <2>1, Zenon
<1>6. CallsHeld
  BY <1>4, <1>5 DEF CallsHeld
<1> QED
  BY <1>1, <1>2, <1>3, <1>4, <1>6 DEF Held

\* A line keeps the client and streamState together.
LEMMA LineHeld ==
    ASSUME TypeOK, IndexPerCall, Held, NEW e \in Inputs, Line(e)
    PROVE  Held'
<1>1. /\ held \in Message /\ ~held.orphan /\ (held.finish # "" <=> finished)
      /\ held.usage = NoUsage /\ CallsHeld /\ ~doneSent /\ doneSent' = doneSent
      /\ now \in Nat
  BY NowType DEF Held, Line
<1>2. CASE Late(e) \/ Ignored(e) \/ FinishStep(e)
  <2>1. UNCHANGED <<toolOpen, toolIndex, finished, out>>
    BY <1>2 DEF Late, Ignored, FinishStep
  <2>2. held' = held
    BY <2>1 DEF held
  <2>3. CallsHeld'
    BY <1>1, <2>1, <2>2 DEF CallsHeld
  <2> QED
    BY <1>1, <2>1, <2>2, <2>3 DEF Held
<1>3. CASE TextDelta(e)
  <2>1. UNCHANGED <<toolOpen, toolIndex, finished>>
    BY <1>3 DEF TextDelta
  <2>2. PICK field \in {"content", "reasoning"} : held' = [held EXCEPT ![field] = Append(@, now)]
    BY <1>1, <1>3, TextHeld
  <2>3. Append(held.content, now) \in Seq(Nat) /\ Append(held.reasoning, now) \in Seq(Nat)
    <3>1. held.content \in Seq(Nat) /\ held.reasoning \in Seq(Nat)
      BY <1>1 DEF Message
    <3> QED
      BY <1>1, <3>1, Push
  <2>4. /\ held' \in Message /\ held'.orphan = held.orphan /\ held'.finish = held.finish
        /\ held'.usage = held.usage /\ held'.calls = held.calls
    BY <1>1, <2>2, <2>3 DEF Message
  <2>5. CallsHeld'
    BY <1>1, <2>1, <2>4 DEF CallsHeld
  <2> QED
    BY <1>1, <2>1, <2>4, <2>5 DEF Held
<1>4. CASE ToolStart(e)
  <2>1. PICK c \in CallId : c = StartedCall(e)
    BY StartedCallType
  <2>2. finished' = finished /\ TookCall(c)
    BY <1>4, <2>1 DEF ToolStart
  <2>3. CASE c \in DOMAIN toolOpen
    <3>1. held' = held /\ toolOpen' = toolOpen /\ toolIndex' = toolIndex
      BY <1>4, <2>1, <2>2, <2>3, StartHeld, TookKnownCall
    <3>2. CallsHeld'
      BY <1>1, <3>1 DEF CallsHeld
    <3> QED
      BY <1>1, <2>2, <3>1, <3>2 DEF Held
  <2>4. CASE c \notin DOMAIN toolOpen
    <3>1. <<>> \in Seq(Nat)
      OBVIOUS
    <3>2. held' = Opened(held, c, <<>>)
      BY <1>4, <2>1, <2>4, StartHeld
    <3>3. CallsHeld'
      BY <2>1, <2>2, <2>4, <3>1, <3>2, NewCallHeld
    <3>4. /\ held' \in Message /\ held'.orphan = held.orphan /\ held'.finish = held.finish
          /\ held'.usage = held.usage
      BY <1>1, <3>1, <3>2, OpenedFields
    <3> QED
      BY <1>1, <2>2, <3>3, <3>4 DEF Held
  <2> QED
    BY <2>3, <2>4
<1>5. CASE ToolDelta(e)
  <2>1. PICK c \in CallId : c = Key(e)
    BY StartedCallType
  <2>2. finished' = finished /\ TookCall(c)
    BY <1>5, <2>1 DEF ToolDelta, Key
  <2>3. CASE c \in DOMAIN toolOpen
    <3>1. PICK n \in DOMAIN held.calls : n = toolOpen[c] + 1
      BY <2>3, IndexHeld DEF Held
    <3>2. held' = Extended(held, n, now)
      BY <1>5, <2>1, <2>3, <3>1, DeltaHeld
    <3>3. CallsHeld'
      BY <1>1, <2>2, <2>3, <3>1, <3>2, KnownCallHeld
    <3>4. /\ held' \in Message /\ held'.orphan = held.orphan /\ held'.finish = held.finish
          /\ held'.usage = held.usage
      BY <1>1, <3>2, ExtendedFields
    <3> QED
      BY <1>1, <2>2, <3>3, <3>4 DEF Held
  <2>4. CASE c \notin DOMAIN toolOpen
    <3>1. <<now>> \in Seq(Nat)
      BY <1>1, OneFragment
    <3>2. held' = Opened(held, c, <<now>>)
      BY <1>5, <2>1, <2>4, DeltaHeld
    <3>3. CallsHeld'
      BY <2>1, <2>2, <2>4, <3>1, <3>2, NewCallHeld
    <3>4. /\ held' \in Message /\ held'.orphan = held.orphan /\ held'.finish = held.finish
          /\ held'.usage = held.usage
      BY <1>1, <3>1, <3>2, OpenedFields
    <3> QED
      BY <1>1, <2>2, <3>3, <3>4 DEF Held
  <2> QED
    BY <2>3, <2>4
<1>6. CASE Finish(e)
  <2>1. UNCHANGED <<toolOpen, toolIndex>> /\ finished'
    BY <1>6 DEF Finish
  <2>2. PICK r \in FinishReasons : held' = [held EXCEPT !.finish = r]
    BY <1>1, <1>6, FinishHeld, MapFinishReasonType
  <2>3. /\ held' \in Message /\ held'.orphan = held.orphan /\ held'.finish = r
        /\ held'.usage = held.usage /\ held'.calls = held.calls /\ r # ""
    BY <1>1, <2>2 DEF Message, FinishReasons
  <2>4. CallsHeld'
    BY <1>1, <2>1, <2>3 DEF CallsHeld
  <2> QED
    BY <1>1, <2>1, <2>3, <2>4 DEF Held
<1>7. CASE Error(e)
  <2>1. UNCHANGED <<toolOpen, toolIndex>> /\ finished'
    BY <1>7 DEF Error
  <2>2. held' = [held EXCEPT !.content = Append(@, now), !.finish = "stop"]
    BY <1>1, <1>7, ErrorHeld
  <2>3. Append(held.content, now) \in Seq(Nat)
    <3>1. held.content \in Seq(Nat)
      BY <1>1 DEF Message
    <3> QED
      BY <1>1, <3>1, Push
  <2>4. /\ held' \in Message /\ held'.orphan = held.orphan /\ held'.finish = "stop"
        /\ held'.usage = held.usage /\ held'.calls = held.calls
    BY <1>1, <2>2, <2>3 DEF Message, FinishReasons
  <2>5. CallsHeld'
    BY <1>1, <2>1, <2>4 DEF CallsHeld
  <2> QED
    BY <1>1, <2>1, <2>4, <2>5 DEF Held
<1> QED
  BY <1>2, <1>3, <1>4, <1>5, <1>6, <1>7 DEF Line

\* So does closing.
LEMMA FinalizeHeld ==
    ASSUME TypeOK, Held, Finalize
    PROVE  Held'
<1>1. /\ held \in Message /\ ~held.orphan /\ (held.finish # "" <=> finished) /\ CallsHeld
      /\ usage \in Usage
  BY DEF Held, TypeOK, Usage
<1>2. UNCHANGED <<toolOpen, toolIndex, usage>> /\ finished' /\ doneSent'
  BY DEF Finalize
<1>3. PICK r : r = IF held.finish = "" THEN "stop" ELSE held.finish
  OBVIOUS
<1>4. r \in FinishReasons /\ r # ""
  BY <1>1, <1>3 DEF Message, FinishReasons
<1>5. held' = [held EXCEPT !.finish = r, !.usage = usage]
  BY <1>3, CloseHeld
<1>6. /\ held' \in Message /\ held'.orphan = held.orphan /\ held'.finish = r
      /\ held'.usage = usage /\ held'.calls = held.calls
  BY <1>1, <1>4, <1>5 DEF Message
<1>7. CallsHeld'
  BY <1>1, <1>2, <1>6 DEF CallsHeld
<1> QED
  BY <1>1, <1>2, <1>4, <1>6, <1>7 DEF Held

\* Every step keeps the client and streamState together.
LEMMA HeldNext == IInv /\ Held /\ [Next]_vars => Held'
<1> SUFFICES ASSUME IInv, Held, [Next]_vars PROVE Held'
  OBVIOUS
<1>1. TypeOK /\ IndexPerCall
  BY DEF IInv
<1>2. ASSUME NEW e \in Inputs, Line(e) PROVE Held'
  BY <1>1, <1>2, LineHeld
<1>3. CASE Finalize
  BY <1>1, <1>3, FinalizeHeld
<1>4. CASE UNCHANGED vars
  <2>1. held' = held /\ UNCHANGED <<toolOpen, toolIndex, usage, finished, doneSent>>
    BY <1>4 DEF vars, held
  <2> QED
    BY <2>1 DEF Held, CallsHeld
<1> QED
  BY <1>2, <1>3, <1>4 DEF Next

\* At all times.
LEMMA HeldAlways == Spec => []Held
BY HeldInit, HeldNext, IInvAlways, PTL DEF Spec

(***************************************************************************)
(* The refinement of ChatCompletion, step by step.                         *)
(***************************************************************************)
\* A line delivers one event to the client, open until the finish.
LEMMA LineDelivers ==
    ASSUME TypeOK, Held, NEW e \in Inputs, Line(e)
    PROVE  /\ Client!Delivered /\ ~doneSent
           /\ ~finished => Client!Open
           /\ Len(seen) + 1 = now /\ now \in Nat
           /\ held' = held => Client!Skip
<1>1. seen' = Append(seen, e) /\ seen \in Seq(Inputs) /\ ~doneSent /\ doneSent' = doneSent
  BY DEF Line, TypeOK
<1>2. Len(seen') = Len(seen) + 1
  BY <1>1, Push
<1>3. Client!Delivered
  BY <1>1, <1>2 DEF Client!Delivered
<1>4. ~finished => held.finish = ""
  BY DEF Held
<1> QED
  BY <1>1, <1>3, <1>4, NowType DEF Client!Open, Client!Skip, held, now

\* The call of an event is one of those the body can have.
LEMMA CallOfBody ==
    ASSUME TypeOK, NEW e \in Inputs, Line(e)
    PROVE  StartedCall(e) \in CallsOfBody /\ Key(e) \in CallsOfBody
<1>1. e.id \in ToolIds \cup {NoId}
  BY InputsAssumption DEF Event
<1>2. now \in 0..MaxEvents /\ 0 \in 0..MaxEvents
  <2>1. now \in Nat /\ Len(seen) \in Nat /\ now = Len(seen) + 1 /\ Len(seen) < MaxEvents /\ MaxEvents \in Nat
    BY NowType, MaxEventsAssumption, LenProperties DEF now, Line, TypeOK
  <2> QED
    BY <2>1
<1> QED
  BY <1>1, <1>2 DEF StartedCall, Key, CallsOfBody

\* The client knows the calls that are open, and no other.
LEMMA CallsKnown ==
    ASSUME TypeOK, IndexPerCall, CallsHeld, NEW c
    PROVE  Client!KnownCall(c) <=> c \in DOMAIN toolOpen
<1>1. ASSUME c \in DOMAIN toolOpen PROVE \E i \in DOMAIN held.calls : held.calls[i].call = c
  <2>1. toolOpen[c] + 1 \in DOMAIN held.calls
    BY <1>1, IndexHeld
  <2> QED
    BY <1>1, <2>1 DEF CallsHeld
<1>2. ASSUME NEW i \in DOMAIN held.calls PROVE held.calls[i].call \in DOMAIN toolOpen
  BY DEF CallsHeld
<1> QED
  BY <1>1, <1>2 DEF Client!KnownCall, held

\* Every line is a step of the abstract answer.
LEMMA LineRefines ==
    ASSUME TypeOK, IndexPerCall, Held, NEW e \in Inputs, Line(e)
    PROVE  Client!Next
<1>1. /\ Client!Delivered /\ ~doneSent
      /\ ~finished => Client!Open
      /\ Len(seen) + 1 = now /\ now \in Nat
      /\ held' = held => Client!Skip
  BY LineDelivers
<1>2. CallsHeld /\ held \in Message
  BY DEF Held
<1>3. CASE Late(e) \/ Ignored(e) \/ FinishStep(e)
  <2>1. held' = held
    BY <1>3 DEF Late, Ignored, FinishStep, held
  <2> QED
    BY <1>1, <2>1 DEF Client!Next
<1>4. CASE TextDelta(e)
  <2>1. PICK field \in {"content", "reasoning"} : held' = [held EXCEPT ![field] = Append(@, now)]
    BY <1>2, <1>4, TextHeld
  <2>2. Client!Text(field)
    BY <1>1, <2>1 DEF Client!Text, held
  <2>3. Client!Open
    BY <1>1, <1>4 DEF TextDelta
  <2> QED
    BY <1>1, <2>2, <2>3 DEF Client!Next
<1>5. CASE ToolStart(e)
  <2>1. PICK c \in CallsOfBody : c = StartedCall(e)
    BY CallOfBody
  <2>2. CASE c \in DOMAIN toolOpen
    <3>1. held' = held
      BY <1>5, <2>1, <2>2, StartHeld
    <3> QED
      BY <1>1, <3>1 DEF Client!Next
  <2>3. CASE c \notin DOMAIN toolOpen
    <3>1. held' = Opened(held, c, <<>>)
      BY <1>5, <2>1, <2>3, StartHeld
    <3>2. ~Client!KnownCall(c)
      BY <1>2, <2>3, CallsKnown
    <3>3. Client!OpenCall(c)
      BY <3>1, <3>2 DEF Client!OpenCall, Opened, held
    <3>4. Client!Open
      BY <1>1, <1>5 DEF ToolStart
    <3> QED
      BY <1>1, <3>3, <3>4 DEF Client!Next
  <2> QED
    BY <2>2, <2>3
<1>6. CASE ToolDelta(e)
  <2>1. PICK c \in CallsOfBody : c = Key(e)
    BY CallOfBody
  <2>2. Client!Open
    BY <1>1, <1>6 DEF ToolDelta
  <2>3. Client!Arguments(c)
    <3>1. CASE c \in DOMAIN toolOpen
      <4>1. PICK i \in DOMAIN held.calls : i = toolOpen[c] + 1
        BY <1>2, <3>1, IndexHeld
      <4>2. held.calls[i].call = c
        BY <1>2, <3>1, <4>1 DEF CallsHeld
      <4>3. held' = Extended(held, i, Len(seen) + 1)
        BY <1>1, <1>6, <2>1, <3>1, <4>1, DeltaHeld
      <4>4. Client!KnownCall(c)
        BY <1>2, <3>1, CallsKnown
      <4> QED
        BY <4>2, <4>3, <4>4 DEF Client!Arguments, Extended, held
    <3>2. CASE c \notin DOMAIN toolOpen
      <4>1. held' = Opened(held, c, <<Len(seen) + 1>>)
        BY <1>1, <1>6, <2>1, <3>2, DeltaHeld
      <4>2. ~Client!KnownCall(c)
        BY <1>2, <3>2, CallsKnown
      <4> QED
        BY <4>1, <4>2 DEF Client!Arguments, Opened, held
    <3> QED
      BY <3>1, <3>2
  <2> QED
    BY <1>1, <2>2, <2>3 DEF Client!Next
<1>7. CASE Finish(e)
  <2>1. PICK r \in FinishReasons : held' = [held EXCEPT !.finish = r]
    BY <1>2, <1>7, FinishHeld, MapFinishReasonType
  <2>2. Client!Finish(r)
    BY <2>1 DEF Client!Finish, held
  <2>3. Client!Open
    BY <1>1, <1>7 DEF Finish
  <2> QED
    BY <1>1, <2>2, <2>3 DEF Client!Next, Client!FinishReasons, FinishReasons
<1>8. CASE Error(e)
  <2>1. held' = [held EXCEPT !.content = Append(@, Len(seen) + 1), !.finish = "stop"]
    BY <1>1, <1>2, <1>8, ErrorHeld
  <2>2. Client!Fail
    BY <2>1 DEF Client!Fail, held
  <2>3. Client!Open
    BY <1>1, <1>8 DEF Error
  <2> QED
    BY <1>1, <2>2, <2>3 DEF Client!Next
<1> QED
  BY <1>3, <1>4, <1>5, <1>6, <1>7, <1>8 DEF Line

\* Finalize is Close.
LEMMA FinalizeRefines ==
    ASSUME TypeOK, Held, LatestUsageReported, Finalize
    PROVE  Client!Next
<1>1. ~doneSent /\ doneSent' = TRUE /\ UNCHANGED seen
  BY DEF Finalize
<1>2. PICK k \in 0..Len(seen), total \in BOOLEAN, reasoned \in BOOLEAN :
           usage = UsageBlock(k, total, reasoned)
  <2>1. usage.src \in 0..Len(seen) /\ usage.total \in BOOLEAN
        /\ usage.reasoned \in BOOLEAN
        /\ usage = UsageBlock(usage.src, usage.total, usage.reasoned)
    BY DEF LatestUsageReported, TypeOK, UsageBlock
  <2> QED
    BY <2>1
<1>3. held' = [held EXCEPT !.finish = IF held.finish = "" THEN "stop" ELSE held.finish,
                           !.usage  = UsageBlock(k, total, reasoned)]
  BY <1>2, CloseHeld
<1>4. Client!Close
  BY <1>1, <1>3 DEF Client!Close, Client!UsageBlock, UsageBlock, held
<1> QED
  BY <1>4 DEF Client!Next

\* The converter implements ChatCompletion: whatever upstream sends, what a
\* client puts together from the frames so far is a message that grows by the
\* payload of one event at a time, with each call opened once, one finish
\* reason after which it is frozen, and the usage at the close (frames, line,
\* finalize).
THEOREM ConverterRefinesChatCompletion == Spec => ClientSpec
<1>1. Init => Client!Init
  <2> SUFFICES ASSUME Init PROVE Client!Init
    OBVIOUS
  <2>1. Len(seen) = 0 /\ doneSent = FALSE /\ ClientMessage(out) = EmptyMessage
    BY MessageFold DEF Init
  <2> QED
    BY <2>1 DEF Client!Init, Client!EmptyMessage, EmptyMessage, Client!NoUsage, NoUsage
<1>2. IInv /\ Held /\ LatestUsageReported /\ [Next]_vars => [Client!Next]_Client!vars
  <2> SUFFICES ASSUME IInv, Held, LatestUsageReported, [Next]_vars
               PROVE  [Client!Next]_Client!vars
    OBVIOUS
  <2>1. TypeOK /\ IndexPerCall
    BY DEF IInv
  <2>2. ASSUME NEW e \in Inputs, Line(e) PROVE Client!Next
    BY <2>1, <2>2, LineRefines
  <2>3. CASE Finalize
    BY <2>1, <2>3, FinalizeRefines
  <2>4. CASE UNCHANGED vars
    BY <2>4 DEF vars, Client!vars
  <2> QED
    BY <2>2, <2>3, <2>4 DEF Next
<1> QED
  BY <1>1, <1>2, IInvAlways, HeldAlways, LatestUsageReportedAlways, PTL DEF Spec, ClientSpec, Client!Spec

(***************************************************************************)
(* The assembler's calls (Slot, Touch, AddArgs) and its fold, field by     *)
(* field.                                                                  *)
(***************************************************************************)
AnswerCall == [id : ToolIds \cup {NoId}, args : Seq(Nat)]
Accumulated == [content : Seq(Nat), reasoning : Seq(Nat), calls : Seq(AnswerCall),
                names : [ToolIds \cup {NoId} -> Nat],
                finish : FinishReasons, usage : Usage, at : Nat]

\* Where the call of an id is: at its place, or next.
LEMMA TouchFields ==
    ASSUME NEW calls \in Seq(AnswerCall), NEW id \in ToolIds \cup {NoId}
    PROVE  /\ Touch(calls, id) \in Seq(AnswerCall)
           /\ Slot(calls, id) \in DOMAIN Touch(calls, id)
           /\ (\E i \in DOMAIN calls : calls[i].id = id) =>
                 /\ Touch(calls, id) = calls
                 /\ Slot(calls, id) \in DOMAIN calls /\ calls[Slot(calls, id)].id = id
           /\ ~(\E i \in DOMAIN calls : calls[i].id = id) =>
                 /\ Touch(calls, id) = Append(calls, [id |-> id, args |-> <<>>])
                 /\ Slot(calls, id) = Len(calls) + 1
<1>1. CASE \E i \in DOMAIN calls : calls[i].id = id
  <2>1. PICK n : n = Slot(calls, id)
    OBVIOUS
  <2>2. n = CHOOSE i \in DOMAIN calls : calls[i].id = id
    BY <1>1, <2>1 DEF Slot
  <2>3. n \in DOMAIN calls /\ calls[n].id = id
    BY <1>1, <2>2, Zenon
  <2>4. Touch(calls, id) = calls
    BY <2>1, <2>3 DEF Touch
  <2> QED
    BY <1>1, <2>1, <2>3, <2>4
<1>2. CASE ~(\E i \in DOMAIN calls : calls[i].id = id)
  <2>1. PICK n : n = Slot(calls, id)
    OBVIOUS
  <2>2. n = Len(calls) + 1
    BY <1>2, <2>1 DEF Slot
  <2>3. Len(calls) \in Nat /\ DOMAIN calls = 1..Len(calls)
    BY LenProperties
  <2>4. n \notin DOMAIN calls /\ n \in 1..(Len(calls) + 1)
    BY <2>2, <2>3
  <2>5. PICK new \in AnswerCall : new = [id |-> id, args |-> <<>>]
    <3>1. <<>> \in Seq(Nat)
      OBVIOUS
    <3>2. [id |-> id, args |-> <<>>] \in AnswerCall
      BY <3>1 DEF AnswerCall
    <3> QED
      BY <3>2
  <2>6. Touch(calls, id) = Append(calls, new)
    BY <2>1, <2>4, <2>5 DEF Touch
  <2>7. Append(calls, new) \in Seq(AnswerCall) /\ DOMAIN Append(calls, new) = 1..(Len(calls) + 1)
    BY Push
  <2> QED
    BY <1>2, <2>1, <2>2, <2>4, <2>5, <2>6, <2>7
<1> QED
  BY <1>1, <1>2

\* A fragment goes to the call of its id and to no other.
LEMMA AddArgsFields ==
    ASSUME NEW calls \in Seq(AnswerCall), NEW id \in ToolIds \cup {NoId}, NEW k \in Nat,
           NEW n, n = Slot(calls, id), NEW t, t = Touch(calls, id)
    PROVE  /\ AddArgs(calls, id, k) \in Seq(AnswerCall)
           /\ DOMAIN AddArgs(calls, id, k) = DOMAIN t /\ Len(AddArgs(calls, id, k)) = Len(t)
           /\ \A j \in DOMAIN t : j # n => AddArgs(calls, id, k)[j] = t[j]
           /\ AddArgs(calls, id, k)[n].id = t[n].id
           /\ AddArgs(calls, id, k)[n].args = Append(t[n].args, k)
<1>1. /\ t \in Seq(AnswerCall) /\ n \in DOMAIN t /\ Len(t) \in Nat /\ DOMAIN t = 1..Len(t)
  <2>1. t \in Seq(AnswerCall) /\ n \in DOMAIN t
    BY TouchFields
  <2> QED
    BY <2>1, LenProperties
<1>2. t[n] \in AnswerCall
  BY <1>1, ElementOfSeq
<1>3. PICK f : f = [t[n] EXCEPT !.args = Append(t[n].args, k)]
  OBVIOUS
<1>4. f \in AnswerCall /\ f.id = t[n].id /\ f.args = Append(t[n].args, k)
  <2>1. Append(t[n].args, k) \in Seq(Nat)
    BY <1>2, Push DEF AnswerCall
  <2> QED
    BY <1>2, <1>3, <2>1 DEF AnswerCall
<1>5. PICK s : s = [t EXCEPT ![n] = f]
  OBVIOUS
<1>6. /\ s \in Seq(AnswerCall) /\ Len(s) = Len(t) /\ DOMAIN s = DOMAIN t
      /\ \A j \in DOMAIN t : j # n => s[j] = t[j]
      /\ s[n] = f
  BY <1>1, <1>4, <1>5, ExceptSeq
<1>7. AddArgs(calls, id, k) = s
  BY <1>3, <1>5 DEF AddArgs
<1> QED
  BY <1>4, <1>6, <1>7

\* A complete call adds its input or adds nothing.
LEMMA WithInputType ==
    ASSUME NEW calls \in Seq(AnswerCall), NEW id \in ToolIds \cup {NoId}, NEW k \in Nat
    PROVE  WithInput(calls, id, k) \in Seq(AnswerCall)
<1>1. AddArgs(calls, id, k) \in Seq(AnswerCall) /\ Touch(calls, id) \in Seq(AnswerCall)
  BY AddArgsFields, TouchFields
<1> QED
  BY <1>1 DEF WithInput

\* The name of a call stays, or is a position.
LEMMA WithNameType ==
    ASSUME NEW names \in [ToolIds \cup {NoId} -> Nat], NEW e \in Event, NEW k \in Nat
    PROVE  /\ WithName(names, e, k) \in [ToolIds \cup {NoId} -> Nat]
           /\ \A id \in ToolIds \cup {NoId} :
                 WithName(names, e, k)[id] =
                    IF id = e.id /\ names[id] = 0 /\ e.type \in StartTypes \cup {"tool-call"}
                    THEN NameIn(e, k) ELSE names[id]
<1>1. e.id \in ToolIds \cup {NoId} /\ NameIn(e, k) \in Nat
  BY DEF Event, NameIn
<1> QED
  BY <1>1 DEF WithName

\* The lines assembleNonStreaming touches a call for, without any input.
Touches(e) == \/ e.type \in StartTypes
              \/ e.type \in DeltaTypes \cup {"tool-call"} /\ ~e.payload

\* r is acc after line e, at position k.
FoldedTo(acc, e, k, r) ==
    /\ r \in Accumulated /\ r.at = k
    /\ r.content = IF e.type = "text-delta" /\ e.payload
                   THEN Append(acc.content, k) ELSE acc.content
    /\ r.reasoning = IF e.type = "reasoning-delta" /\ e.payload
                     THEN Append(acc.reasoning, k) ELSE acc.reasoning
    /\ r.calls = IF Touches(e) THEN Touch(acc.calls, e.id)
                 ELSE IF e.type \in DeltaTypes THEN AddArgs(acc.calls, e.id, k)
                 ELSE IF e.type = "tool-call" THEN WithInput(acc.calls, e.id, k)
                 ELSE acc.calls
    /\ r.finish = IF e.type = "finish" /\ e.reason # ""
                  THEN MapFinishReason(e.reason) ELSE acc.finish
    /\ r.names = WithName(acc.names, e, k)
    /\ r.usage = IF e.type = "finish" /\ (e.usage \/ e.total)
                 THEN UsageBlock(k, e.total, e.reasoned)
                 ELSE IF e.type = "finish-step" /\ e.usage /\ acc.usage = NoUsage
                 THEN UsageBlock(k, FALSE, e.reasoned) ELSE acc.usage

\* One line of the assembler, field by field.
LEMMA FoldFields ==
    ASSUME NEW acc \in Accumulated, NEW e \in Event, NEW k, k = acc.at + 1,
           NEW r, r = FoldEvent(acc, e)
    PROVE  FoldedTo(acc, e, k, r)
<1> USE DEF FoldedTo
<1>1. /\ k \in Nat /\ e.id \in ToolIds \cup {NoId} /\ e.payload \in BOOLEAN
      /\ e.usage \in BOOLEAN /\ e.total \in BOOLEAN /\ e.reasoned \in BOOLEAN
      /\ acc.names \in [ToolIds \cup {NoId} -> Nat]
      /\ acc.calls \in Seq(AnswerCall) /\ acc.content \in Seq(Nat) /\ acc.reasoning \in Seq(Nat)
  BY DEF Accumulated, Event
<1> DEFINE names == WithName(acc.names, e, k)
<1>2. names \in [ToolIds \cup {NoId} -> Nat]
  BY <1>1, WithNameType
<1> HIDE DEF names
<1>3. PICK q : q = [acc EXCEPT !.at = k, !.names = names]
  OBVIOUS
<1>4. /\ q \in Accumulated /\ q.at = k /\ q.content = acc.content /\ q.reasoning = acc.reasoning
      /\ q.calls = acc.calls /\ q.finish = acc.finish /\ q.usage = acc.usage
      /\ q.names = WithName(acc.names, e, k)
  BY <1>1, <1>3, <1>2 DEF Accumulated, names
<1>5. CASE e.type \in TextTypes /\ e.payload
  <2>1. Append(acc.content, k) \in Seq(Nat) /\ Append(acc.reasoning, k) \in Seq(Nat)
    BY <1>1, Push
  <2>2. ~Touches(e) /\ e.type \notin DeltaTypes /\ e.type \notin {"tool-call", "finish", "finish-step"}
    BY <1>5 DEF Touches, TextTypes, StartTypes, DeltaTypes
  <2>3. CASE e.type = "text-delta"
    <3>1. r = [q EXCEPT !.content = Append(@, k)]
      BY <1>3, <1>5, <2>3 DEF FoldEvent, names, StartTypes, DeltaTypes
    <3>2. /\ r \in Accumulated /\ r.content = Append(acc.content, k) /\ r.at = k
          /\ r.reasoning = acc.reasoning /\ r.calls = acc.calls /\ r.finish = acc.finish
          /\ r.usage = acc.usage /\ r.names = WithName(acc.names, e, k)
      BY <1>4, <2>1, <3>1 DEF Accumulated
    <3> QED
      BY <1>5, <2>2, <2>3, <3>2
  <2>4. CASE e.type = "reasoning-delta"
    <3>1. r = [q EXCEPT !.reasoning = Append(@, k)]
      BY <1>3, <1>5, <2>4 DEF FoldEvent, names, StartTypes, DeltaTypes
    <3>2. /\ r \in Accumulated /\ r.reasoning = Append(acc.reasoning, k) /\ r.at = k
          /\ r.content = acc.content /\ r.calls = acc.calls /\ r.finish = acc.finish
          /\ r.usage = acc.usage /\ r.names = WithName(acc.names, e, k)
      BY <1>4, <2>1, <3>1 DEF Accumulated
    <3> QED
      BY <1>5, <2>2, <2>4, <3>2
  <2> QED
    BY <1>5, <2>3, <2>4 DEF TextTypes
<1>6. CASE Touches(e) \/ e.type \in DeltaTypes \/ e.type = "tool-call"
  <2>1. e.type \notin TextTypes \cup {"finish", "finish-step"}
    BY <1>6 DEF Touches, TextTypes, StartTypes, DeltaTypes
  <2>2. PICK v : v = IF Touches(e) THEN Touch(acc.calls, e.id)
                     ELSE IF e.type \in DeltaTypes THEN AddArgs(acc.calls, e.id, k)
                     ELSE WithInput(acc.calls, e.id, k)
    OBVIOUS
  <2>3. v \in Seq(AnswerCall)
    <3>1. /\ Touch(acc.calls, e.id) \in Seq(AnswerCall)
          /\ AddArgs(acc.calls, e.id, k) \in Seq(AnswerCall)
          /\ WithInput(acc.calls, e.id, k) \in Seq(AnswerCall)
      <4>1. Touch(acc.calls, e.id) \in Seq(AnswerCall)
        BY <1>1, TouchFields
      <4>2. AddArgs(acc.calls, e.id, k) \in Seq(AnswerCall)
        BY <1>1, AddArgsFields
      <4>3. WithInput(acc.calls, e.id, k) \in Seq(AnswerCall)
        BY <1>1, WithInputType
      <4> QED
        BY <4>1, <4>2, <4>3
    <3> QED
      BY <2>2, <3>1
  <2>4. r = [q EXCEPT !.calls = v]
    <3>1. CASE Touches(e)
      BY <1>3, <1>4, <2>1, <2>2, <3>1 DEF FoldEvent, names, Touches, TextTypes, StartTypes, DeltaTypes
    <3>2. CASE ~Touches(e) /\ e.type \in DeltaTypes
      BY <1>3, <1>4, <2>1, <2>2, <3>2 DEF FoldEvent, names, Touches, TextTypes, StartTypes, DeltaTypes
    <3>3. CASE ~Touches(e) /\ e.type \notin DeltaTypes
      BY <1>3, <1>4, <1>6, <2>1, <2>2, <3>3 DEF FoldEvent, names, Touches, TextTypes, StartTypes, DeltaTypes
    <3> QED
      BY <3>1, <3>2, <3>3
  <2> QED
    BY <1>4, <1>6, <2>1, <2>2, <2>3, <2>4 DEF Accumulated, TextTypes
<1>7. CASE e.type = "finish"
  <2>1. PICK reason, u : /\ reason = IF e.reason = "" THEN acc.finish ELSE MapFinishReason(e.reason)
                         /\ u = IF e.total THEN UsageBlock(k, TRUE, e.reasoned)
                                ELSE IF e.usage THEN UsageBlock(k, FALSE, e.reasoned) ELSE acc.usage
    OBVIOUS
  <2>2. r = [q EXCEPT !.finish = reason, !.usage = u]
    BY <1>3, <1>4, <1>7, <2>1 DEF FoldEvent, names, StartTypes, DeltaTypes
  <2>3. reason \in FinishReasons /\ u \in Usage
    BY <1>1, <1>4, <2>1, MapFinishReasonType DEF Accumulated, Usage, UsageBlock
  <2>4. ~Touches(e) /\ e.type \notin DeltaTypes
    BY <1>7 DEF Touches, StartTypes, DeltaTypes
  <2>5. u = IF e.usage \/ e.total THEN UsageBlock(k, e.total, e.reasoned) ELSE acc.usage
    BY <1>1, <2>1
  <2> QED
    BY <1>4, <1>7, <2>1, <2>2, <2>3, <2>4, <2>5 DEF Accumulated
<1>8. CASE e.type = "finish-step"
  <2>1. ~Touches(e) /\ e.type \notin DeltaTypes
    BY <1>8 DEF Touches, StartTypes, DeltaTypes
  <2>2. CASE e.usage /\ acc.usage = NoUsage
    <3>1. r = [q EXCEPT !.usage = UsageBlock(k, FALSE, e.reasoned)] /\ UsageBlock(k, FALSE, e.reasoned) \in Usage
      BY <1>1, <1>3, <1>8, <2>2 DEF FoldEvent, names, StartTypes, DeltaTypes, Usage, UsageBlock
    <3> QED
      BY <1>4, <1>8, <2>1, <2>2, <3>1 DEF Accumulated
  <2>3. CASE ~(e.usage /\ acc.usage = NoUsage)
    <3>1. r = q
      BY <1>3, <1>8, <2>3 DEF FoldEvent, names, StartTypes, DeltaTypes
    <3> QED
      BY <1>4, <1>8, <2>1, <2>3, <3>1
  <2> QED
    BY <2>2, <2>3
<1>9. CASE /\ ~(e.type \in TextTypes /\ e.payload) /\ ~Touches(e) /\ e.type \notin DeltaTypes
           /\ e.type \notin {"tool-call", "finish", "finish-step"}
  <2>1. r = q
    BY <1>3, <1>9 DEF FoldEvent, names, Touches, TextTypes, StartTypes, DeltaTypes
  <2> QED
    BY <1>4, <1>9, <2>1 DEF TextTypes
<1> QED
  BY <1>5, <1>6, <1>7, <1>8, <1>9

(***************************************************************************)
(* The two readers of one body.  As long as the body is one AsExpected     *)
(* allows so far, what the client holds and what the assembler would       *)
(* answer are the same, field by field.                                    *)
(***************************************************************************)
\* What the assembler would answer if the body ended here.
answer == Fold(seen)

\* The same calls, in the same order, with the same fragments.
SameCalls(hs, xs) ==
    /\ Len(hs) = Len(xs)
    /\ \A i \in DOMAIN hs : hs[i].call = <<xs[i].id, 0>> /\ hs[i].args = xs[i].args

\* A call that got a fragment has arguments.
FragmentsKept ==
    \A k \in DOMAIN seen : seen[k].type \in DeltaTypes =>
        \E i \in DOMAIN answer.calls :
            answer.calls[i].id = seen[k].id /\ answer.calls[i].args # <<>>

UsageAgrees ==
    /\ answer.usage # NoUsage => \E k \in DOMAIN seen : seen[k].usage \/ seen[k].total
    /\ OneUsage(seen) \/ FinishUsage(seen) => usage = answer.usage

AnswersAgree ==
    SoFar(seen) =>
        /\ answer \in Accumulated /\ answer.at = Len(seen)
        /\ held.content = answer.content /\ held.reasoning = answer.reasoning
        /\ SameCalls(held.calls, answer.calls) /\ FragmentsKept
        /\ answer.finish = IF finished THEN held.finish ELSE "stop"
        /\ UsageAgrees

\* The assembler finds a call where the client has it.
LEMMA SlotHeld ==
    ASSUME TypeOK, IndexPerCall, CallsHeld, NEW calls \in Seq(AnswerCall),
           SameCalls(held.calls, calls), held \in Message,
           NEW id \in ToolIds \cup {NoId}, NEW c, c = <<id, 0>>
    PROVE  /\ c \in DOMAIN toolOpen =>
                 /\ Slot(calls, id) = toolOpen[c] + 1 /\ Slot(calls, id) \in DOMAIN held.calls
                 /\ Touch(calls, id) = calls
           /\ c \notin DOMAIN toolOpen =>
                 /\ Slot(calls, id) = Len(held.calls) + 1
                 /\ Touch(calls, id) = Append(calls, [id |-> id, args |-> <<>>])
<1>1. /\ Len(held.calls) = Len(calls) /\ Len(calls) \in Nat
      /\ DOMAIN held.calls = 1..Len(calls) /\ DOMAIN calls = 1..Len(calls)
  <2>1. held.calls \in Seq(HeldCall)
    BY DEF Message
  <2> QED
    BY <2>1, LenProperties DEF SameCalls
<1>2. \A i \in DOMAIN calls : held.calls[i].call = <<calls[i].id, 0>>
  BY <1>1 DEF SameCalls
<1>3. CASE c \in DOMAIN toolOpen
  <2>1. PICK n \in DOMAIN held.calls : n = toolOpen[c] + 1 /\ held.calls[n].call = c
    BY <1>3, IndexHeld DEF CallsHeld
  <2>2. calls[n].id = id /\ n \in DOMAIN calls
    BY <1>1, <1>2, <2>1
  <2>3. Slot(calls, id) \in DOMAIN calls /\ calls[Slot(calls, id)].id = id /\ Touch(calls, id) = calls
    BY <2>2, TouchFields
  <2>4. PICK i \in DOMAIN held.calls : i = Slot(calls, id) /\ held.calls[i].call = c
    BY <1>1, <1>2, <2>3
  <2>5. i = toolOpen[c] + 1
    BY <2>4 DEF CallsHeld
  <2> QED
    BY <1>3, <2>1, <2>3, <2>4, <2>5
<1>4. CASE c \notin DOMAIN toolOpen
  <2>1. ASSUME NEW i \in DOMAIN calls PROVE calls[i].id # id
    <3>1. held.calls[i].call \in DOMAIN toolOpen
      BY <1>1, <2>1 DEF CallsHeld
    <3> QED
      BY <1>2, <1>4, <3>1
  <2>2. /\ Touch(calls, id) = Append(calls, [id |-> id, args |-> <<>>])
        /\ Slot(calls, id) = Len(calls) + 1
    BY <2>1, TouchFields
  <2> QED
    BY <1>1, <1>4, <2>2
<1> QED
  BY <1>3, <1>4

\* A call opened by both, with the same arguments.
LEMMA SameCallsOpened ==
    ASSUME NEW hs \in Seq(HeldCall), NEW xs \in Seq(AnswerCall), SameCalls(hs, xs),
           NEW x \in HeldCall, NEW y \in AnswerCall,
           x.call = <<y.id, 0>>, x.args = y.args
    PROVE  SameCalls(Append(hs, x), Append(xs, y))
<1>1. /\ Len(hs) = Len(xs) /\ Len(xs) \in Nat /\ DOMAIN hs = 1..Len(xs)
      /\ \A i \in DOMAIN hs : hs[i].call = <<xs[i].id, 0>> /\ hs[i].args = xs[i].args
  BY LenProperties DEF SameCalls
<1>2. Len(hs) = Len(xs) /\ Len(xs) \in Nat
  BY <1>1
<1> DEFINE n == Len(xs) + 1
           s == Append(hs, x)
           t == Append(xs, y)
<1>3. n \in Nat /\ \A i \in 1..n : i \in 1..Len(xs) \/ i = n
  BY ONLY <1>2
<1>4. /\ Len(s) = n /\ DOMAIN s = 1..n /\ \A i \in 1..Len(xs) : s[i] = hs[i]
      /\ s[n] = x
  BY <1>2, Push
<1>5. /\ Len(t) = n /\ DOMAIN t = 1..n /\ \A i \in 1..Len(xs) : t[i] = xs[i]
      /\ t[n] = y
  BY Push
<1> HIDE DEF n, s, t
<1>6. ASSUME NEW i \in 1..n PROVE s[i].call = <<t[i].id, 0>> /\ s[i].args = t[i].args
  <2>1. CASE i \in 1..Len(xs)
    BY <1>1, <1>4, <1>5, <2>1
  <2>2. CASE i = n
    BY <1>4, <1>5, <2>2
  <2> QED
    BY <1>3, <2>1, <2>2
<1> QED
  BY <1>4, <1>5, <1>6 DEF SameCalls, s, t

\* The calls of the client, and those of the assembler, with one fragment more.
HeldLonger(hs, longer, n, k) ==
    /\ Len(longer) = Len(hs) /\ DOMAIN longer = DOMAIN hs
    /\ \A j \in DOMAIN hs : j # n => longer[j] = hs[j]
    /\ longer[n].call = hs[n].call /\ longer[n].args = Append(hs[n].args, k)

AnswerLonger(xs, longer, n, k) ==
    /\ Len(longer) = Len(xs) /\ DOMAIN longer = DOMAIN xs
    /\ \A j \in DOMAIN xs : j # n => longer[j] = xs[j]
    /\ longer[n].id = xs[n].id /\ longer[n].args = Append(xs[n].args, k)

\* A fragment for the same call of both.
LEMMA SameCallsExtended ==
    ASSUME NEW hs \in Seq(HeldCall), NEW xs \in Seq(AnswerCall), SameCalls(hs, xs),
           NEW n \in DOMAIN hs, NEW k, NEW longerHs, NEW longerXs,
           HeldLonger(hs, longerHs, n, k), AnswerLonger(xs, longerXs, n, k)
    PROVE  SameCalls(longerHs, longerXs)
<1>1. /\ Len(hs) = Len(xs) /\ DOMAIN hs = DOMAIN xs
      /\ \A i \in DOMAIN hs : hs[i].call = <<xs[i].id, 0>> /\ hs[i].args = xs[i].args
  BY LenProperties DEF SameCalls
<1>2. ASSUME NEW i \in DOMAIN longerHs
      PROVE  longerHs[i].call = <<longerXs[i].id, 0>> /\ longerHs[i].args = longerXs[i].args
  <2>1. CASE i = n
    BY <1>1, <2>1 DEF HeldLonger, AnswerLonger
  <2>2. CASE i # n
    BY <1>1, <2>2 DEF HeldLonger, AnswerLonger
  <2> QED
    BY <2>1, <2>2
<1> QED
  BY <1>1, <1>2 DEF SameCalls, HeldLonger, AnswerLonger

\* What a body that is expected so far, one line longer, says of that line
\* and of the body before it.
LEMMA LongerBody ==
    ASSUME IInv, NEW e \in Inputs, Line(e), SoFar(seen')
    PROVE  /\ SoFar(seen) /\ ~finished
           /\ \A k \in DOMAIN seen : seen[k].type # "finish"
           /\ seen \in Seq(Inputs) /\ now \in Nat /\ now = Len(seen) + 1
           /\ DOMAIN seen = 1..Len(seen) /\ DOMAIN seen' = 1..now
           /\ Len(seen') = now /\ seen'[now] = e /\ now \in DOMAIN seen'
           /\ \A k \in DOMAIN seen : seen'[k] = seen[k] /\ k # now /\ k \in DOMAIN seen'
           /\ \A k \in DOMAIN seen' : k \in DOMAIN seen \/ k = now
           /\ seen' = Append(seen, e)
           /\ e.type # "error" /\ (e.type \in ToolTypes => e.id # NoId)
           /\ (e.type \in DeltaTypes => e.payload)
           /\ e.type = "tool-call" =>
                 \E j \in DOMAIN seen : seen[j].type \in DeltaTypes /\ seen[j].id = e.id
           /\ e.type \in DeltaTypes \cup {"tool-call"} /\ e.named =>
                 \E j \in DOMAIN seen : /\ seen[j].type \in StartTypes
                                        /\ seen[j].id = e.id /\ seen[j].named
<1>1. seen' = Append(seen, e) /\ seen \in Seq(Inputs) /\ ~doneSent
  BY DEF Line, IInv, TypeOK
<1>2. /\ Len(seen) \in Nat /\ DOMAIN seen = 1..Len(seen) /\ now = Len(seen) + 1
      /\ Len(seen') = now /\ DOMAIN seen' = 1..now /\ seen'[now] = e
      /\ \A k \in DOMAIN seen : seen'[k] = seen[k]
  BY <1>1, Push DEF now
<1>3. /\ now \in Nat /\ now \in DOMAIN seen'
      /\ \A k \in DOMAIN seen : k # now /\ k < now /\ k \in DOMAIN seen' /\ ~(now < k)
      /\ \A k \in DOMAIN seen' : (k \in DOMAIN seen \/ k = now) /\ (k < now => k \in DOMAIN seen)
  BY <1>2
<1>4. ASSUME NEW k \in DOMAIN seen
      PROVE  /\ seen[k].type # "error" /\ seen[k].type # "finish"
             /\ seen[k].type \in ToolTypes => seen[k].id # NoId
             /\ seen[k].type \in DeltaTypes => seen[k].payload
  BY <1>2, <1>3 DEF SoFar
<1>5. ASSUME NEW k \in DOMAIN seen, seen[k].type = "tool-call"
      PROVE  \E j \in DOMAIN seen : j < k /\ seen[j].type \in DeltaTypes /\ seen[j].id = seen[k].id
  <2>1. PICK j \in DOMAIN seen' : j < k /\ seen'[j].type \in DeltaTypes /\ seen'[j].id = seen[k].id
    BY <1>2, <1>3, <1>5 DEF SoFar
  <2>2. j \in DOMAIN seen
    BY <1>3, <2>1
  <2> QED
    BY <1>2, <2>1, <2>2
<1>10. ASSUME NEW k \in DOMAIN seen', seen'[k].type \in DeltaTypes \cup {"tool-call"}, seen'[k].named
       PROVE  \E j \in DOMAIN seen : /\ j < k /\ seen[j].type \in StartTypes
                                      /\ seen[j].id = seen'[k].id /\ seen[j].named
  <2>1. PICK j \in DOMAIN seen' : /\ j < k /\ seen'[j].type \in StartTypes
                                  /\ seen'[j].id = seen'[k].id /\ seen'[j].named
    BY <1>10 DEF SoFar
  <2>2. j \in DOMAIN seen
    BY <1>2, <1>3, <2>1
  <2> QED
    BY <1>2, <2>1, <2>2
<1>6. SoFar(seen)
  <2>1. ASSUME NEW k \in DOMAIN seen, seen[k].type \in DeltaTypes \cup {"tool-call"}, seen[k].named
        PROVE  \E j \in DOMAIN seen : /\ j < k /\ seen[j].type \in StartTypes
                                       /\ seen[j].id = seen[k].id /\ seen[j].named
    <3>1. k \in DOMAIN seen' /\ seen'[k] = seen[k]
      BY <1>2, <1>3
    <3> QED
      BY <1>10, <2>1, <3>1
  <2> QED
    BY <1>4, <1>5, <2>1 DEF SoFar
<1>7. ~finished
  BY <1>1, <1>4 DEF IInv, Bookkeeping, Terminal
<1>8. /\ e.type # "error" /\ (e.type \in ToolTypes => e.id # NoId)
      /\ (e.type \in DeltaTypes => e.payload)
  BY <1>2, <1>3 DEF SoFar
<1>9. ASSUME e.type = "tool-call"
      PROVE  \E j \in DOMAIN seen : seen[j].type \in DeltaTypes /\ seen[j].id = e.id
  <2>1. PICK j \in DOMAIN seen' : j < now /\ seen'[j].type \in DeltaTypes /\ seen'[j].id = e.id
    BY <1>2, <1>3, <1>9 DEF SoFar
  <2>2. j \in DOMAIN seen
    BY <1>3, <2>1
  <2> QED
    BY <1>2, <2>1, <2>2
<1>11. ASSUME e.type \in DeltaTypes \cup {"tool-call"}, e.named
       PROVE  \E j \in DOMAIN seen : seen[j].type \in StartTypes /\ seen[j].id = e.id /\ seen[j].named
  BY <1>2, <1>3, <1>10, <1>11
<1> QED
  BY <1>1, <1>2, <1>3, <1>4, <1>6, <1>7, <1>8, <1>9, <1>11

\* The assembler's next answer, field by field.
LEMMA NextAnswer ==
    ASSUME IInv, AnswersAgree, NEW e \in Inputs, Line(e), SoFar(seen')
    PROVE  FoldedTo(answer, e, now, answer')
<1>1. SoFar(seen) /\ seen' = Append(seen, e) /\ seen \in Seq(Inputs) /\ now = Len(seen) + 1
  BY LongerBody
<1>2. answer \in Accumulated /\ answer.at = Len(seen) /\ e \in Event
  BY <1>1, InputsAssumption DEF AnswersAgree
<1>3. Fold(Append(seen, e)) = FoldEvent(answer, e)
  BY <1>1, ResponseFold DEF answer
<1>4. PICK r : r = answer' /\ r = FoldEvent(answer, e)
  BY <1>1, <1>3 DEF answer
<1>5. PICK k : k = now /\ k = answer.at + 1
  BY <1>1, <1>2
<1> QED
  BY <1>2, <1>4, <1>5, FoldFields

\* The usage of both readers after one line more: a finish replaces it for
\* both, a finish-step for the assembler only when it has none.
LEMMA LineUsageAgrees ==
    ASSUME IInv, AnswersAgree, NEW e \in Inputs, Line(e), SoFar(seen')
    PROVE  UsageAgrees'
<1>1. /\ SoFar(seen) /\ now \in DOMAIN seen' /\ seen'[now] = e /\ Len(seen') = now /\ now \in Nat
      /\ now = Len(seen) + 1 /\ seen \in Seq(Inputs)
      /\ DOMAIN seen = 1..Len(seen)
      /\ \A k \in DOMAIN seen : seen'[k] = seen[k] /\ k # now /\ k \in DOMAIN seen'
      /\ \A k \in DOMAIN seen : seen[k].type # "finish"
  BY LongerBody
<1>2. UsageAgrees /\ TypeOK
  BY <1>1 DEF AnswersAgree, IInv
<1>3. answer'.usage = IF e.type = "finish" /\ (e.usage \/ e.total)
                      THEN UsageBlock(now, e.total, e.reasoned)
                      ELSE IF e.type = "finish-step" /\ e.usage /\ answer.usage = NoUsage
                      THEN UsageBlock(now, FALSE, e.reasoned) ELSE answer.usage
  BY NextAnswer DEF FoldedTo
<1>4. /\ e.usage \in BOOLEAN /\ e.total \in BOOLEAN
      /\ e.usage => e.type \in {"finish-step", "finish"}
      /\ e.total => e.type = "finish"
  BY InputsAssumption DEF Event
<1>5. /\ e.usage \/ e.total => usage' = UsageBlock(now, e.total, e.reasoned)
      /\ ~(e.usage \/ e.total) => usage' = usage
  BY <1>2, LineUsage
<1>6. answer'.usage # NoUsage => \E k \in DOMAIN seen' : seen'[k].usage \/ seen'[k].total
  BY <1>1, <1>2, <1>3 DEF UsageAgrees
<1>7. ASSUME OneUsage(seen') \/ FinishUsage(seen') PROVE usage' = answer'.usage
  <2>1. CASE e.type = "finish" /\ (e.usage \/ e.total)
    BY <1>3, <1>5, <2>1
  <2>2. CASE e.type = "finish-step" /\ e.usage
    <3>1. OneUsage(seen') /\ ~e.total
      BY <1>1, <1>4, <1>7, <2>2 DEF FinishUsage
    <3>2. ASSUME NEW k \in DOMAIN seen PROVE ~(seen[k].usage \/ seen[k].total)
      <4>1. ~seen[k].usage
        BY <1>1, <2>2, <3>1 DEF OneUsage
      <4>2. seen[k] \in Inputs
        BY <1>1, ElementOfSeq
      <4>3. ~seen[k].total
        BY <1>1, <4>2, InputsAssumption
      <4> QED
        BY <4>1, <4>3
    <3>3. answer.usage = NoUsage
      BY <1>2, <3>2 DEF UsageAgrees
    <3>4. answer'.usage = UsageBlock(now, FALSE, e.reasoned)
      BY <1>3, <2>2, <3>3
    <3>5. usage' = UsageBlock(now, FALSE, e.reasoned)
      BY <1>4, <1>5, <2>2, <3>1
    <3> QED
      BY <3>4, <3>5
  <2>3. CASE ~(e.usage \/ e.total)
    <3>1. OneUsage(seen')
      BY <1>1, <1>7, <2>3 DEF FinishUsage
    <3>2. OneUsage(seen)
      BY <1>1, <3>1 DEF OneUsage
    <3>3. usage = answer.usage
      BY <1>2, <3>2 DEF UsageAgrees
    <3> QED
      BY <1>3, <1>5, <2>3, <3>3
  <2> QED
    BY <1>4, <2>1, <2>2, <2>3
<1> QED
  BY <1>6, <1>7 DEF UsageAgrees

(***************************************************************************)
(* The calls of both readers after one line more.                          *)
(***************************************************************************)
CallsGrowTogether(e) ==
    /\ SameCalls(held'.calls, answer'.calls)
    /\ \A i \in DOMAIN answer.calls :
          /\ i \in DOMAIN answer'.calls /\ answer'.calls[i].id = answer.calls[i].id
          /\ answer.calls[i].args # <<>> => answer'.calls[i].args # <<>>
    /\ e.type \in DeltaTypes => \E i \in DOMAIN answer'.calls :
          answer'.calls[i].id = e.id /\ answer'.calls[i].args # <<>>

\* A call with one fragment more has arguments.
LEMMA OneMoreFragment == ASSUME NEW s \in Seq(Nat), NEW k \in Nat PROVE Append(s, k) # <<>>
BY Push, EmptySeq

\* What the lemmas below start from.
LEMMA BothCalls ==
    ASSUME IInv, Held, AnswersAgree, NEW e \in Inputs, Line(e), SoFar(seen')
    PROVE  /\ TypeOK /\ IndexPerCall /\ CallsHeld /\ held \in Message /\ now \in Nat
           /\ held.calls \in Seq(HeldCall) /\ answer.calls \in Seq(AnswerCall)
           /\ SameCalls(held.calls, answer.calls) /\ FragmentsKept
           /\ e.id \in ToolIds \cup {NoId} /\ e \in Event /\ ~finished
           /\ FoldedTo(answer, e, now, answer')
<1>1. SoFar(seen) /\ ~finished /\ now \in Nat
  BY LongerBody
<1>2. answer \in Accumulated /\ SameCalls(held.calls, answer.calls) /\ FragmentsKept
  BY <1>1 DEF AnswersAgree
<1>3. e \in Event /\ e.id \in ToolIds \cup {NoId}
  BY InputsAssumption DEF Event
<1>4. answer.calls \in Seq(AnswerCall)
  BY <1>2 DEF Accumulated
<1>5. held \in Message /\ CallsHeld
  BY DEF Held
<1>6. held.calls \in Seq(HeldCall)
  BY <1>5 DEF Message
<1> QED
  BY <1>1, <1>2, <1>3, <1>4, <1>5, <1>6, NextAnswer DEF IInv

\* A start opens its call for both readers, or for neither.
LEMMA StartTogether ==
    ASSUME IInv, Held, AnswersAgree, NEW e \in Inputs, Line(e), SoFar(seen'), ToolStart(e)
    PROVE  CallsGrowTogether(e)
<1>1. /\ TypeOK /\ IndexPerCall /\ CallsHeld /\ held \in Message
      /\ held.calls \in Seq(HeldCall) /\ answer.calls \in Seq(AnswerCall)
      /\ SameCalls(held.calls, answer.calls)
      /\ e.id \in ToolIds \cup {NoId}
      /\ FoldedTo(answer, e, now, answer')
  BY BothCalls
<1>2. e.type \in StartTypes /\ e.type \notin DeltaTypes
  BY DEF ToolStart, StartTypes, DeltaTypes
<1>3. PICK c : c = StartedCall(e) /\ c = <<e.id, 0>>
  <2>1. e.id # NoId
    BY <1>2, LongerBody DEF ToolTypes
  <2> QED
    BY <2>1 DEF StartedCall
<1>4. answer'.calls = Touch(answer.calls, e.id)
  BY <1>1, <1>2 DEF FoldedTo, Touches
<1>5. CASE c \in DOMAIN toolOpen
  <2>1. held' = held
    BY <1>1, <1>3, <1>5, StartHeld
  <2>2. answer'.calls = answer.calls
    BY <1>1, <1>3, <1>4, <1>5, SlotHeld
  <2> QED
    BY <1>1, <1>2, <2>1, <2>2 DEF CallsGrowTogether
<1>6. CASE c \notin DOMAIN toolOpen
  <2>1. c \in CallId
    BY <1>1, <1>3, StartedCallType
  <2>2. <<>> \in Seq(Nat) /\ c \in CallId
    BY <2>1
  <2>3. PICK x \in HeldCall : x = [call |-> c, args |-> <<>>] /\ x.call = <<e.id, 0>> /\ x.args = <<>>
    <3>1. [call |-> c, args |-> <<>>] \in HeldCall
      BY <2>2 DEF HeldCall
    <3> QED
      BY <1>3, <3>1
  <2>4. PICK y \in AnswerCall : y = [id |-> e.id, args |-> <<>>] /\ y.id = e.id /\ y.args = <<>>
    <3>1. [id |-> e.id, args |-> <<>>] \in AnswerCall
      BY <1>1, <2>2 DEF AnswerCall
    <3> QED
      BY <3>1
  <2>5. held'.calls = Append(held.calls, x)
    <3>1. held' = Opened(held, c, <<>>)
      BY <1>1, <1>3, <1>6, StartHeld
    <3> QED
      BY <1>1, <2>2, <2>3, <3>1, OpenedFields
  <2>6. answer'.calls = Append(answer.calls, y)
    BY <1>1, <1>3, <1>4, <1>6, <2>4, SlotHeld
  <2>7. SameCalls(held'.calls, answer'.calls)
    BY <1>1, <2>3, <2>4, <2>5, <2>6, SameCallsOpened
  <2>8. \A i \in DOMAIN answer.calls : i \in DOMAIN answer'.calls /\ answer'.calls[i] = answer.calls[i]
    <3>1. PICK s : s = answer.calls /\ s \in Seq(AnswerCall)
      BY <1>1
    <3>2. \A i \in DOMAIN s : i \in DOMAIN Append(s, y) /\ Append(s, y)[i] = s[i]
      BY <3>1, Push
    <3> QED
      BY <2>6, <3>1, <3>2
  <2> QED
    BY <1>2, <2>7, <2>8 DEF CallsGrowTogether
<1> QED
  BY <1>5, <1>6

\* A fragment reaches the call of its id for both readers.
LEMMA DeltaTogether ==
    ASSUME IInv, Held, AnswersAgree, NEW e \in Inputs, Line(e), SoFar(seen'), ToolDelta(e)
    PROVE  CallsGrowTogether(e)
<1>1. /\ TypeOK /\ IndexPerCall /\ CallsHeld /\ held \in Message /\ now \in Nat
      /\ held.calls \in Seq(HeldCall) /\ answer.calls \in Seq(AnswerCall)
      /\ SameCalls(held.calls, answer.calls)
      /\ e.id \in ToolIds \cup {NoId}
      /\ FoldedTo(answer, e, now, answer')
  BY BothCalls
<1>2. e.type \in DeltaTypes /\ e.payload /\ ~Touches(e)
  BY DEF ToolDelta, StartTypes, DeltaTypes, Touches
<1>3. PICK c \in CallId : c = Key(e) /\ c = <<e.id, 0>>
  BY <1>1, StartedCallType DEF Key
<1>4. answer'.calls = AddArgs(answer.calls, e.id, now)
  BY <1>1, <1>2 DEF FoldedTo
<1>5. PICK t, n : t = Touch(answer.calls, e.id) /\ n = Slot(answer.calls, e.id)
  OBVIOUS
\* Both have opened the call, as t and m, before the fragment.
<1>6. PICK m \in Message : /\ n \in DOMAIN m.calls /\ held' = Extended(m, n, now)
                           /\ SameCalls(m.calls, t)
  <2>1. CASE c \in DOMAIN toolOpen
    <3>1. held' = Extended(held, toolOpen[c] + 1, now)
      BY <1>1, <1>3, <2>1, DeltaHeld
    <3>2. n = toolOpen[c] + 1 /\ n \in DOMAIN held.calls /\ t = answer.calls
      BY <1>1, <1>3, <1>5, <2>1, SlotHeld
    <3> QED
      BY <1>1, <3>1, <3>2
  <2>2. CASE c \notin DOMAIN toolOpen
    <3>1. <<>> \in Seq(Nat)
      OBVIOUS
    <3>2. PICK x \in HeldCall : x = [call |-> c, args |-> <<>>] /\ x.call = <<e.id, 0>> /\ x.args = <<>>
      <4>1. [call |-> c, args |-> <<>>] \in HeldCall
        BY <3>1 DEF HeldCall
      <4> QED
        BY <1>3, <4>1
    <3>3. PICK y \in AnswerCall : y = [id |-> e.id, args |-> <<>>] /\ y.id = e.id /\ y.args = <<>>
      <4>1. [id |-> e.id, args |-> <<>>] \in AnswerCall
        BY <1>1, <3>1 DEF AnswerCall
      <4> QED
        BY <4>1
    <3>4. PICK m : m = Opened(held, c, <<>>)
      OBVIOUS
    <3>5. m \in Message /\ m.calls = Append(held.calls, x)
      BY <1>1, <1>3, <3>1, <3>2, <3>4, OpenedFields
    <3>6. t = Append(answer.calls, y) /\ n = Len(held.calls) + 1
      BY <1>1, <1>3, <1>5, <2>2, <3>3, SlotHeld
    <3>7. SameCalls(m.calls, t)
      BY <1>1, <3>2, <3>3, <3>5, <3>6, SameCallsOpened
    <3>8. n \in DOMAIN m.calls /\ Extended(m, n, now) = Opened(held, c, <<now>>)
      BY <1>1, <1>3, <3>4, <3>6, ExtendOpened
    <3>9. held' = Opened(held, c, <<now>>)
      BY <1>1, <1>3, <2>2, DeltaHeld
    <3> QED
      BY <3>5, <3>7, <3>8, <3>9
  <2> QED
    BY <2>1, <2>2
<1>7. PICK hs, xs : hs = held'.calls /\ xs = answer'.calls
  OBVIOUS
<1>8. /\ DOMAIN hs = DOMAIN m.calls /\ Len(hs) = Len(m.calls)
      /\ \A j \in DOMAIN m.calls : j # n => hs[j] = m.calls[j]
      /\ hs[n].call = m.calls[n].call /\ hs[n].args = Append(m.calls[n].args, now)
  BY <1>1, <1>6, <1>7, ExtendedFields
<1>9. /\ xs \in Seq(AnswerCall) /\ DOMAIN xs = DOMAIN t /\ Len(xs) = Len(t)
      /\ \A j \in DOMAIN t : j # n => xs[j] = t[j]
      /\ xs[n].id = t[n].id /\ xs[n].args = Append(t[n].args, now)
  BY <1>1, <1>4, <1>5, <1>7, AddArgsFields
<1>10. /\ t \in Seq(AnswerCall) /\ n \in DOMAIN t /\ t[n].id = e.id /\ t[n].args \in Seq(Nat)
       /\ \A i \in DOMAIN answer.calls : i \in DOMAIN t /\ t[i] = answer.calls[i]
  <2>1. t \in Seq(AnswerCall) /\ n \in DOMAIN t
    BY <1>1, <1>5, TouchFields
  <2>2. t[n] \in AnswerCall
    BY <2>1, ElementOfSeq, LenProperties
  <2>3. CASE \E i \in DOMAIN answer.calls : answer.calls[i].id = e.id
    <3>1. t = answer.calls /\ answer.calls[n].id = e.id
      BY <1>1, <1>5, <2>3, TouchFields
    <3> QED
      BY <2>1, <2>2, <3>1 DEF AnswerCall
  <2>4. CASE ~(\E i \in DOMAIN answer.calls : answer.calls[i].id = e.id)
    <3>1. PICK s, y : s = answer.calls /\ y = [id |-> e.id, args |-> <<>>]
      OBVIOUS
    <3>2. t = Append(s, y) /\ n = Len(s) + 1 /\ s \in Seq(AnswerCall)
      BY <1>1, <1>5, <2>4, <3>1, TouchFields
    <3>3. y \in AnswerCall /\ y.id = e.id
      <4>1. <<>> \in Seq(Nat)
        OBVIOUS
      <4> QED
        BY <1>1, <3>1, <4>1 DEF AnswerCall
    <3>4. t[n] = y /\ \A i \in DOMAIN s : i \in DOMAIN t /\ t[i] = s[i]
      BY <3>2, <3>3, Push
    <3> QED
      BY <2>1, <2>2, <3>1, <3>3, <3>4 DEF AnswerCall
  <2> QED
    BY <2>3, <2>4
<1>11. SameCalls(hs, xs)
  <2>1. m.calls \in Seq(HeldCall)
    BY <1>6 DEF Message
  <2>2. HeldLonger(m.calls, hs, n, now)
    BY <1>8 DEF HeldLonger
  <2>3. AnswerLonger(t, xs, n, now)
    BY <1>9 DEF AnswerLonger
  <2> QED
    BY <1>6, <1>10, <2>1, <2>2, <2>3, SameCallsExtended
<1>12. xs[n].args # <<>>
  <2>1. PICK s \in Seq(Nat) : s = t[n].args
    BY <1>10
  <2>2. Append(s, now) # <<>>
    BY <1>1, OneMoreFragment
  <2> QED
    BY <1>9, <2>1, <2>2
<1>13. \A i \in DOMAIN answer.calls :
          /\ i \in DOMAIN xs /\ xs[i].id = answer.calls[i].id
          /\ answer.calls[i].args # <<>> => xs[i].args # <<>>
  BY <1>9, <1>10, <1>12
<1> QED
  BY <1>7, <1>9, <1>10, <1>11, <1>12, <1>13 DEF CallsGrowTogether

\* A complete call is nothing to either reader: its fragments came before.
LEMMA CompleteCallTogether ==
    ASSUME IInv, Held, AnswersAgree, NEW e \in Inputs, Line(e), SoFar(seen'),
           e.type = "tool-call"
    PROVE  held' = held /\ CallsGrowTogether(e)
<1>1. /\ TypeOK /\ IndexPerCall /\ CallsHeld /\ held \in Message /\ ~finished
      /\ held.calls \in Seq(HeldCall) /\ answer.calls \in Seq(AnswerCall)
      /\ SameCalls(held.calls, answer.calls) /\ FragmentsKept
      /\ e.id \in ToolIds \cup {NoId}
      /\ FoldedTo(answer, e, now, answer')
  BY BothCalls
<1>2. e.type \notin DeltaTypes
  BY DEF DeltaTypes
<1>3. held' = held
  <2>1. Ignored(e)
    BY <1>1 DEF Line, Late, TextDelta, TextTypes, ToolStart, StartTypes, ToolDelta, DeltaTypes,
       FinishStep, Finish, Error
  <2> QED
    BY <2>1 DEF Ignored, held
<1>4. PICK i \in DOMAIN answer.calls : answer.calls[i].id = e.id /\ answer.calls[i].args # <<>>
  <2>1. PICK j \in DOMAIN seen : seen[j].type \in DeltaTypes /\ seen[j].id = e.id
    BY LongerBody
  <2> QED
    BY <1>1, <2>1 DEF FragmentsKept
<1>5. PICK c : c = <<e.id, 0>>
  OBVIOUS
<1>6. i \in DOMAIN held.calls /\ held.calls[i].call = c
  BY <1>1, <1>4, <1>5, LenProperties DEF SameCalls
<1>7. c \in DOMAIN toolOpen /\ toolOpen[c] + 1 = i
  BY <1>1, <1>6 DEF CallsHeld
<1>8. Slot(answer.calls, e.id) = i /\ Touch(answer.calls, e.id) = answer.calls
  BY <1>1, <1>5, <1>7, SlotHeld
<1>9. WithInput(answer.calls, e.id, now) = answer.calls
  BY <1>4, <1>8 DEF WithInput
<1>10. answer'.calls = answer.calls
  BY <1>1, <1>2, <1>8, <1>9 DEF FoldedTo
<1> QED
  BY <1>1, <1>2, <1>3, <1>10 DEF CallsGrowTogether

\* Every other line leaves the calls of both readers alone.
LEMMA OtherTogether ==
    ASSUME IInv, Held, AnswersAgree, NEW e \in Inputs, Line(e), SoFar(seen'),
           held'.calls = held.calls, e.type \notin StartTypes \cup DeltaTypes \cup {"tool-call"}
    PROVE  CallsGrowTogether(e)
<1>1. SameCalls(held.calls, answer.calls) /\ FoldedTo(answer, e, now, answer')
  BY BothCalls
<1>2. answer'.calls = answer.calls
  BY <1>1 DEF FoldedTo, Touches
<1> QED
  BY <1>1, <1>2 DEF CallsGrowTogether

\* Content, reasoning and finish reason of both readers after a line.
FieldsAgree ==
    /\ held.content = answer.content /\ held.reasoning = answer.reasoning
    /\ answer.finish = IF finished THEN held.finish ELSE "stop"

\* What the lemmas on those fields start from.
LEMMA BothFields ==
    ASSUME IInv, Held, AnswersAgree, NEW e \in Inputs, Line(e), SoFar(seen')
    PROVE  /\ TypeOK /\ held \in Message /\ answer \in Accumulated /\ now \in Nat /\ ~finished
           /\ FieldsAgree /\ answer.finish = "stop"
           /\ held.content \in Seq(Nat) /\ held.reasoning \in Seq(Nat)
           /\ FoldedTo(answer, e, now, answer')
<1>1. SoFar(seen) /\ ~finished /\ now \in Nat
  BY LongerBody
<1>2. answer \in Accumulated /\ FieldsAgree /\ answer.finish = "stop"
  BY <1>1 DEF AnswersAgree, FieldsAgree
<1>3. held \in Message /\ held.content \in Seq(Nat) /\ held.reasoning \in Seq(Nat)
  BY DEF Held, Message
<1> QED
  BY <1>1, <1>2, <1>3, NextAnswer DEF IInv

\* A text delta.
LEMMA TextTogether ==
    ASSUME IInv, Held, AnswersAgree, NEW e \in Inputs, Line(e), SoFar(seen'), TextDelta(e)
    PROVE  FieldsAgree' /\ CallsGrowTogether(e)
<1>1. /\ TypeOK /\ held \in Message /\ now \in Nat /\ ~finished
      /\ FieldsAgree /\ answer.finish = "stop"
      /\ held.content \in Seq(Nat) /\ held.reasoning \in Seq(Nat)
      /\ FoldedTo(answer, e, now, answer')
  BY BothFields
<1>2. /\ finished' = finished /\ e.payload /\ e.type \in TextTypes
      /\ e.type \notin StartTypes \cup DeltaTypes \cup {"tool-call", "finish"}
  BY DEF TextDelta, TextTypes, StartTypes, DeltaTypes
<1>3. CASE e.type = "text-delta"
  <2>1. held' = [held EXCEPT !.content = Append(@, now)]
    BY <1>1, <1>3, TextHeld
  <2>2. held'.content = Append(held.content, now) /\ held'.reasoning = held.reasoning
        /\ held'.calls = held.calls
    BY <1>1, <2>1 DEF Message
  <2>3. FieldsAgree'
    BY <1>1, <1>2, <1>3, <2>2 DEF FieldsAgree, FoldedTo
  <2> QED
    BY <1>2, <2>2, <2>3, OtherTogether
<1>4. CASE e.type = "reasoning-delta"
  <2>1. held' = [held EXCEPT !.reasoning = Append(@, now)]
    BY <1>1, <1>4, TextHeld
  <2>2. held'.content = held.content /\ held'.reasoning = Append(held.reasoning, now)
        /\ held'.calls = held.calls
    BY <1>1, <2>1 DEF Message
  <2>3. FieldsAgree'
    BY <1>1, <1>2, <1>4, <2>2 DEF FieldsAgree, FoldedTo
  <2> QED
    BY <1>2, <2>2, <2>3, OtherTogether
<1> QED
  BY <1>2, <1>3, <1>4 DEF TextTypes

\* A finish.
LEMMA FinishTogether ==
    ASSUME IInv, Held, AnswersAgree, NEW e \in Inputs, Line(e), SoFar(seen'), Finish(e)
    PROVE  FieldsAgree' /\ CallsGrowTogether(e)
<1>1. /\ TypeOK /\ held \in Message /\ FieldsAgree /\ answer.finish = "stop"
      /\ FoldedTo(answer, e, now, answer')
  BY BothFields
<1>2. /\ finished' = TRUE /\ e.type = "finish"
      /\ e.type \notin TextTypes \cup StartTypes \cup DeltaTypes \cup {"tool-call"}
  BY DEF Finish, TextTypes, StartTypes, DeltaTypes
<1>3. PICK reason : reason = MapFinishReason(e.reason)
  OBVIOUS
<1>4. held' = [held EXCEPT !.finish = reason]
  BY <1>1, <1>3, FinishHeld
<1>5. /\ held'.content = held.content /\ held'.reasoning = held.reasoning
      /\ held'.calls = held.calls /\ held'.finish = reason
  BY <1>1, <1>4 DEF Message
<1>6. answer'.finish = reason
  <2>1. e.reason = "" => reason = "stop"
    BY <1>3 DEF MapFinishReason
  <2> QED
    BY <1>1, <1>2, <1>3, <2>1 DEF FoldedTo
<1>7. answer'.content = answer.content /\ answer'.reasoning = answer.reasoning
  BY <1>1, <1>2 DEF FoldedTo
<1>8. FieldsAgree'
  BY <1>1, <1>2, <1>5, <1>6, <1>7 DEF FieldsAgree
<1> QED
  BY <1>2, <1>5, <1>8, OtherTogether

\* A line that changes neither text nor finish reason of what the client holds.
LEMMA FieldsKept ==
    ASSUME IInv, Held, AnswersAgree, NEW e \in Inputs, Line(e), SoFar(seen'),
           held'.content = held.content, held'.reasoning = held.reasoning,
           ~finished', ~(e.type \in TextTypes /\ e.payload), e.type # "finish"
    PROVE  FieldsAgree'
<1>1. FieldsAgree /\ answer.finish = "stop" /\ FoldedTo(answer, e, now, answer')
  BY BothFields
<1>2. /\ answer'.content = answer.content /\ answer'.reasoning = answer.reasoning
      /\ answer'.finish = answer.finish
  BY <1>1 DEF FoldedTo, TextTypes
<1> QED
  BY <1>1, <1>2 DEF FieldsAgree

\* A tool event leaves the texts the client holds.
LEMMA ToolKeepsText ==
    ASSUME IInv, Held, NEW e \in Inputs, ToolStart(e) \/ ToolDelta(e)
    PROVE  held'.content = held.content /\ held'.reasoning = held.reasoning
<1>1. TypeOK /\ IndexPerCall /\ CallsHeld /\ held \in Message /\ now \in Nat
  BY NowType DEF IInv, Held
<1>2. <<>> \in Seq(Nat) /\ <<now>> \in Seq(Nat)
  BY <1>1, OneFragment
<1>3. CASE ToolStart(e)
  <2>1. PICK c \in CallId : c = StartedCall(e)
    BY <1>1, StartedCallType
  <2>2. held' = held \/ held' = Opened(held, c, <<>>)
    BY <1>1, <1>3, <2>1, StartHeld
  <2>3. Opened(held, c, <<>>).content = held.content /\ Opened(held, c, <<>>).reasoning = held.reasoning
    BY <1>1, <1>2, OpenedFields
  <2> QED
    BY <2>2, <2>3
<1>4. CASE ToolDelta(e)
  <2>1. PICK c \in CallId : c = Key(e)
    BY <1>1, StartedCallType
  <2>2. CASE c \in DOMAIN toolOpen
    <3>1. PICK n \in DOMAIN held.calls : n = toolOpen[c] + 1
      BY <1>1, <2>2, IndexHeld
    <3>2. held' = Extended(held, n, now)
      BY <1>1, <1>4, <2>1, <2>2, <3>1, DeltaHeld
    <3> QED
      BY <1>1, <3>2, ExtendedFields
  <2>3. CASE c \notin DOMAIN toolOpen
    <3>1. held' = Opened(held, c, <<now>>)
      BY <1>1, <1>4, <2>1, <2>3, DeltaHeld
    <3> QED
      BY <1>1, <1>2, <3>1, OpenedFields
  <2> QED
    BY <2>2, <2>3
<1> QED
  BY <1>3, <1>4

\* Each kind of line, for the texts, the finish reason and the calls.
LEMMA LineTogether ==
    ASSUME IInv, Held, AnswersAgree, NEW e \in Inputs, Line(e), SoFar(seen')
    PROVE  FieldsAgree' /\ CallsGrowTogether(e)
<1>1. ~finished /\ e.type # "error" /\ (e.type \in DeltaTypes => e.payload)
  BY LongerBody
<1>2. CASE TextDelta(e)
  BY <1>2, TextTogether
<1>3. CASE ToolStart(e)
  <2>1. /\ ~finished' /\ ~(e.type \in TextTypes /\ e.payload) /\ e.type # "finish"
    BY <1>3 DEF ToolStart, TextTypes, StartTypes
  <2>2. held'.content = held.content /\ held'.reasoning = held.reasoning
    BY <1>3, ToolKeepsText
  <2> QED
    BY <1>3, <2>1, <2>2, FieldsKept, StartTogether
<1>4. CASE ToolDelta(e)
  <2>1. /\ ~finished' /\ ~(e.type \in TextTypes /\ e.payload) /\ e.type # "finish"
    BY <1>4 DEF ToolDelta, TextTypes, DeltaTypes
  <2>2. held'.content = held.content /\ held'.reasoning = held.reasoning
    BY <1>4, ToolKeepsText
  <2> QED
    BY <1>4, <2>1, <2>2, FieldsKept, DeltaTogether
<1>5. CASE Ignored(e) \/ FinishStep(e)
  <2>1. held' = held /\ ~finished'
    <3>1. UNCHANGED <<finished, out>>
      BY <1>5 DEF Ignored, FinishStep
    <3> QED
      BY <1>1, <3>1 DEF held
  <2>2. /\ ~(e.type \in TextTypes /\ e.payload) /\ e.type # "finish"
        /\ e.type \notin StartTypes \cup DeltaTypes
    BY <1>1, <1>5 DEF Ignored, FinishStep, IgnoredByStream, TextTypes, StartTypes, DeltaTypes
  <2>3. FieldsAgree'
    BY <2>1, <2>2, FieldsKept
  <2>4. CallsGrowTogether(e)
    <3>1. CASE e.type = "tool-call"
      BY <3>1, CompleteCallTogether
    <3>2. CASE e.type # "tool-call"
      BY <2>1, <2>2, <3>2, OtherTogether
    <3> QED
      BY <3>1, <3>2
  <2> QED
    BY <2>3, <2>4
<1>6. CASE Finish(e)
  BY <1>6, FinishTogether
<1> QED
  BY <1>1, <1>2, <1>3, <1>4, <1>5, <1>6 DEF Line, Late, Error

\* A line keeps both readers together.
LEMMA LineAgrees ==
    ASSUME IInv, Held, AnswersAgree, NEW e \in Inputs, Line(e)
    PROVE  AnswersAgree'
<1> SUFFICES ASSUME SoFar(seen')
             PROVE  /\ (answer \in Accumulated)' /\ answer'.at = Len(seen')
                    /\ FieldsAgree' /\ SameCalls(held'.calls, answer'.calls)
                    /\ FragmentsKept' /\ UsageAgrees'
  BY DEF AnswersAgree, FieldsAgree
<1>1. /\ SoFar(seen) /\ Len(seen') = now /\ seen'[now] = e
      /\ \A k \in DOMAIN seen : seen'[k] = seen[k]
      /\ \A k \in DOMAIN seen' : k \in DOMAIN seen \/ k = now
  BY LongerBody
<1>2. answer' \in Accumulated /\ answer'.at = now
  BY NextAnswer DEF FoldedTo
<1>3. FieldsAgree' /\ CallsGrowTogether(e)
  BY LineTogether
<1>4. FragmentsKept'
  <2> SUFFICES ASSUME NEW k \in DOMAIN seen', seen'[k].type \in DeltaTypes
               PROVE  \E i \in DOMAIN answer'.calls :
                          answer'.calls[i].id = seen'[k].id /\ answer'.calls[i].args # <<>>
    BY DEF FragmentsKept
  <2>1. CASE k = now
    BY <1>1, <1>3, <2>1 DEF CallsGrowTogether
  <2>2. CASE k \in DOMAIN seen
    <3>1. PICK i \in DOMAIN answer.calls :
              answer.calls[i].id = seen[k].id /\ answer.calls[i].args # <<>>
      BY <1>1, <2>2 DEF AnswersAgree, FragmentsKept
    <3> QED
      BY <1>1, <1>3, <2>2, <3>1 DEF CallsGrowTogether
  <2> QED
    BY <1>1, <2>1, <2>2
<1> QED
  BY <1>1, <1>2, <1>3, <1>4, LineUsageAgrees DEF CallsGrowTogether

\* Both readers before the first line.
LEMMA AnswersAgreeInit == Init => AnswersAgree
<1> SUFFICES ASSUME Init PROVE AnswersAgree
  OBVIOUS
<1>1. answer = EmptyFold /\ held = EmptyMessage
  BY MessageFold, ResponseFold DEF answer, held, Init
<1>2. EmptyFold \in Accumulated
  <2>1. <<>> \in Seq(Nat) /\ <<>> \in Seq(AnswerCall) /\ NoUsage \in Usage
    BY DEF NoUsage, Usage
  <2> QED
    BY <2>1 DEF EmptyFold, Accumulated, FinishReasons
<1>3. /\ answer.content = held.content /\ answer.reasoning = held.reasoning
      /\ answer.calls = <<>> /\ held.calls = <<>> /\ answer.at = 0
      /\ answer.finish = "stop" /\ answer.usage = NoUsage
  BY <1>1 DEF EmptyFold, EmptyMessage
<1>4. ~finished /\ usage = NoUsage /\ Len(seen) = 0 /\ DOMAIN seen = {}
  BY DEF Init
<1>5. SameCalls(held.calls, answer.calls)
  <2>1. SameCalls(<<>>, <<>>)
    BY DEF SameCalls
  <2> QED
    BY <1>3, <2>1
<1>6. FragmentsKept /\ UsageAgrees
  BY <1>3, <1>4 DEF FragmentsKept, UsageAgrees
<1> QED
  BY <1>1, <1>2, <1>3, <1>4, <1>5, <1>6 DEF AnswersAgree

\* Closing the stream adds nothing to it but the finish reason the assembler
\* starts from.
LEMMA FinalizeAgrees ==
    ASSUME IInv, Held, AnswersAgree, Finalize
    PROVE  AnswersAgree'
<1>1. /\ TypeOK /\ held \in Message /\ (held.finish # "" <=> finished) /\ finished \in BOOLEAN
  BY DEF IInv, Held, TypeOK
<1>2. seen' = seen /\ usage' = usage /\ finished' = TRUE /\ answer' = answer
  BY DEF Finalize, answer
<1>3. PICK reason : reason = IF held.finish = "" THEN "stop" ELSE held.finish
  OBVIOUS
<1>4. held' = [held EXCEPT !.finish = reason, !.usage = usage]
  BY <1>1, <1>3, CloseHeld
<1>5. /\ held'.content = held.content /\ held'.reasoning = held.reasoning
      /\ held'.calls = held.calls /\ held'.finish = reason
  BY <1>1, <1>4 DEF Message
<1>6. (IF finished THEN held.finish ELSE "stop") = reason
  BY <1>1, <1>3
<1> QED
  BY <1>2, <1>5, <1>6 DEF AnswersAgree, FragmentsKept, UsageAgrees

\* Every step keeps both readers together.
LEMMA AnswersAgreeNext == IInv /\ Held /\ AnswersAgree /\ [Next]_vars => AnswersAgree'
<1> SUFFICES ASSUME IInv, Held, AnswersAgree, [Next]_vars PROVE AnswersAgree'
  OBVIOUS
<1>1. ASSUME NEW e \in Inputs, Line(e) PROVE AnswersAgree'
  BY <1>1, LineAgrees
<1>2. CASE Finalize
  BY <1>2, FinalizeAgrees
<1>3. CASE UNCHANGED vars
  <2>1. UNCHANGED <<seen, usage, finished>> /\ held' = held /\ answer' = answer
    BY <1>3 DEF vars, held, answer
  <2> QED
    BY <2>1 DEF AnswersAgree, FragmentsKept, UsageAgrees
<1> QED
  BY <1>1, <1>2, <1>3 DEF Next

(***************************************************************************)
(* The names of the calls.  The assembler keeps the first name a start or  *)
(* a complete call gives; a client keeps the first one a frame gives.  In  *)
(* a body that is expected so far these are the same, event by event.      *)
(***************************************************************************)
\* k is the first of the names given, or 0 if there is none.
FirstOf(k, given) == \/ given = {} /\ k = 0
                     \/ k \in given /\ \A other \in given : k <= other

\* The names the frames so far give the call of an id.
NamesTold(id) ==
    IF <<id, 0>> \in DOMAIN toolOpen THEN NamesGiven(out, toolOpen[<<id, 0>>]) ELSE {}

NamesAgree ==
    /\ \A index \in Nat : NamesGiven(out, index) \subseteq 1..Len(seen)
    /\ SoFar(seen) =>
         /\ \A id \in ToolIds \cup {NoId} : FirstOf(answer.names[id], NamesTold(id))
         /\ \A k \in DOMAIN seen : seen[k].type \in StartTypes /\ seen[k].named =>
               answer.names[seen[k].id] # 0

\* A frame that opens a call may give one name more, any other frame gives none.
LEMMA NamesPush ==
    ASSUME NEW frames \in Seq(Frame), NEW f \in Frame, NEW index \in Nat
    PROVE  /\ f.kind = "open" /\ f.index = index /\ f.name # 0 =>
                 NamesGiven(Append(frames, f), index) = NamesGiven(frames, index) \cup {f.name}
           /\ f.kind # "open" \/ f.index # index \/ f.name = 0 =>
                 NamesGiven(Append(frames, f), index) = NamesGiven(frames, index)
<1> DEFINE longer == Append(frames, f)
<1>1. /\ Len(frames) \in Nat /\ DOMAIN frames = 1..Len(frames)
      /\ DOMAIN longer = 1..(Len(frames) + 1)
      /\ \A i \in 1..Len(frames) : longer[i] = frames[i]
      /\ longer[Len(frames) + 1] = f
  BY Push
<1> HIDE DEF longer
<1>2. \A i \in DOMAIN longer : i \in DOMAIN frames \/ i = Len(frames) + 1
  BY <1>1
<1>3. \A i \in DOMAIN frames : i \in DOMAIN longer /\ longer[i] = frames[i]
  BY <1>1
<1>4. Len(frames) + 1 \in DOMAIN longer /\ longer[Len(frames) + 1] = f
  BY <1>1
<1>5. ASSUME f.kind = "open", f.index = index, f.name # 0
      PROVE  NamesGiven(longer, index) = NamesGiven(frames, index) \cup {f.name}
  BY <1>2, <1>3, <1>4, <1>5 DEF NamesGiven
<1>6. ASSUME f.kind # "open" \/ f.index # index \/ f.name = 0
      PROVE  NamesGiven(longer, index) = NamesGiven(frames, index)
  BY <1>2, <1>3, <1>4, <1>6 DEF NamesGiven
<1> QED
  BY <1>5, <1>6 DEF longer

\* The role delta gives no name.
LEMMA NamesLed ==
    ASSUME TypeOK, NEW index \in Nat
    PROVE  NamesGiven(Led, index) = NamesGiven(out, index)
<1>1. out \in Seq(Frame) /\ Chunk("role", 0) \in Frame /\ Chunk("role", 0).kind = "role"
  BY RoleFields DEF TypeOK
<1>2. NamesGiven(Append(out, Chunk("role", 0)), index) = NamesGiven(out, index)
  BY <1>1, NamesPush
<1> QED
  BY <1>2 DEF Led

\* One frame after the role delta that opens no call.
LEMMA NamesLedPush ==
    ASSUME TypeOK, NEW f \in Frame, f.kind # "open", out' = Append(Led, f), NEW index \in Nat
    PROVE  NamesGiven(out', index) = NamesGiven(out, index)
<1>1. NamesGiven(Append(Led, f), index) = NamesGiven(Led, index)
  BY LedType, NamesPush
<1> QED
  BY <1>1, NamesLed

\* A call that is not open yet has no name at the index it will get.
LEMMA NoNameYet ==
    ASSUME TypeOK, IndexPerCall
    PROVE  NamesGiven(out, toolIndex) = {}
<1>1. ASSUME NEW i \in DOMAIN out, out[i].kind = "open" PROVE out[i].index # toolIndex
  <2>1. out[i].call \in DOMAIN toolOpen /\ out[i].index = toolOpen[out[i].call]
    BY <1>1 DEF IndexPerCall
  <2>2. toolOpen[out[i].call] < toolIndex /\ toolIndex \in Nat /\ toolOpen[out[i].call] \in Nat
    BY <2>1 DEF IndexPerCall, TypeOK
  <2> QED
    BY <2>1, <2>2
<1> QED
  BY <1>1 DEF NamesGiven

\* The frame that opens a call, after the role delta, gives the event's name.
LEMMA NamesOpened ==
    ASSUME TypeOK, NEW c \in CallId, NEW i \in Nat, NEW e, NEW index \in Nat
    PROVE  /\ Append(Led, OpenFrame(c, i, e, now)) \in Seq(Frame)
           /\ NamesGiven(Append(Led, OpenFrame(c, i, e, now)), index) =
                 NamesGiven(out, index) \cup (IF i = index /\ e.named THEN {now} ELSE {})
<1>1. now \in Nat /\ now # 0
  BY NowPositive, NowType
<1>2. PICK f : f = OpenFrame(c, i, e, now)
  OBVIOUS
<1>3. f \in Frame /\ f.kind = "open" /\ f.index = i
  <2>1. OpenFrame(c, i, e, now) \in Frame
    BY <1>1, OpenFields
  <2> QED
    BY <1>2, <2>1 DEF OpenFrame, Chunk
<1>4. f.name = IF e.named THEN now ELSE 0
  BY <1>2 DEF OpenFrame, Chunk, NameIn
<1>5. Append(Led, f) \in Seq(Frame) /\ Led \in Seq(Frame)
  BY <1>3, LedType, Push
<1>6. CASE i = index /\ e.named
  <2>1. NamesGiven(Append(Led, f), index) = NamesGiven(Led, index) \cup {now}
    BY <1>1, <1>3, <1>4, <1>5, <1>6, NamesPush
  <2> QED
    BY <1>2, <1>5, <1>6, <2>1, NamesLed
<1>7. CASE ~(i = index /\ e.named)
  <2>1. NamesGiven(Append(Led, f), index) = NamesGiven(Led, index)
    BY <1>1, <1>3, <1>4, <1>5, <1>7, NamesPush
  <2> QED
    BY <1>2, <1>5, <1>7, <2>1, NamesLed
<1> QED
  BY <1>6, <1>7

\* A line that opens no call gives no name.
LEMMA NamesUntold ==
    ASSUME TypeOK, NEW e \in Inputs, Line(e), NEW index \in Nat,
           ~ToolStart(e), ~(ToolDelta(e) /\ Key(e) \notin DOMAIN toolOpen)
    PROVE  /\ NamesGiven(out', index) = NamesGiven(out, index)
           /\ toolOpen' = toolOpen
<1>1. now \in Nat
  BY NowType
<1>2. CASE Late(e) \/ Ignored(e) \/ FinishStep(e)
  BY <1>2 DEF Late, Ignored, FinishStep
<1>3. CASE TextDelta(e)
  <2>1. PICK f : f = Chunk(IF e.type = "text-delta" THEN "content" ELSE "reasoning", now)
    OBVIOUS
  <2>2. f \in Frame /\ f.kind # "open" /\ out' = Append(Led, f) /\ toolOpen' = toolOpen
    <3>1. PICK kind \in {"content", "reasoning"} :
             kind = IF e.type = "text-delta" THEN "content" ELSE "reasoning"
      OBVIOUS
    <3>2. f = Chunk(kind, now) /\ kind \in Kinds /\ kind # "open"
      BY <2>1, <3>1 DEF Kinds
    <3>3. f \in Frame /\ f.kind # "open"
      BY ONLY <1>1, <3>2, ChunkFields
    <3> QED
      BY <1>3, <2>1, <3>3 DEF TextDelta
  <2> QED
    BY <2>2, NamesLedPush
<1>4. CASE ToolDelta(e)
  <2>1. PICK f : f = ArgsFrame(toolOpen[Key(e)], now)
    OBVIOUS
  <2>2. Key(e) \in DOMAIN toolOpen /\ toolOpen[Key(e)] \in Nat
    BY <1>4 DEF TypeOK
  <2>3. PICK i \in Nat : i = toolOpen[Key(e)]
    BY <2>2
  <2>4. ArgsFrame(i, now) \in Frame
    BY <1>1, ArgsFields
  <2>5. f \in Frame /\ f.kind = "args" /\ out \in Seq(Frame)
    BY <2>1, <2>3, <2>4 DEF TypeOK, ArgsFrame, Chunk
  <2>6. out' = Append(out, f) /\ toolOpen' = WithCall(Key(e))
    BY <1>4, <2>1, <2>2 DEF ToolDelta, TookCall, Key
  <2>7. NamesGiven(Append(out, f), index) = NamesGiven(out, index)
    BY <2>5, NamesPush
  <2>8. toolOpen' = toolOpen
    BY <1>4, <2>2, TookKnownCall DEF ToolDelta, Key
  <2> QED
    BY <2>6, <2>7, <2>8
<1>5. CASE Finish(e)
  <2>1. PICK f : f = FinishFrame(MapFinishReason(e.reason))
    OBVIOUS
  <2>2. f \in Frame /\ f.kind = "finish" /\ out' = Append(Led, f) /\ toolOpen' = toolOpen
    BY <1>5, <2>1, FinishFields, MapFinishReasonType DEF Finish
  <2> QED
    BY <2>2, NamesLedPush
<1>6. CASE Error(e)
  <2>1. ErrorFrame(now) \in Frame /\ ErrorFrame(now).kind = "content"
    BY <1>1, ErrorFields
  <2>2. out' = Append(Led, ErrorFrame(now)) /\ toolOpen' = toolOpen
    BY <1>6 DEF Error
  <2> QED
    BY <2>1, <2>2, NamesLedPush
<1> QED
  BY <1>2, <1>3, <1>4, <1>5, <1>6 DEF Line

\* What a line that opens a call tells.
LEMMA NamesOfStart ==
    ASSUME TypeOK, NEW e \in Inputs, ToolStart(e), NEW c \in CallId, c = StartedCall(e)
    PROVE  /\ toolOpen' = WithCall(c) /\ WithCall(c)[c] \in Nat
           /\ \A index \in Nat : NamesGiven(out', index) =
                 NamesGiven(out, index) \cup (IF WithCall(c)[c] = index /\ e.named THEN {now} ELSE {})
<1>1. PICK i \in Nat : i = WithCall(c)[c]
  BY WithCallType
<1>2. toolOpen' = WithCall(c) /\ out' = Append(Led, OpenFrame(c, i, e, now))
  BY <1>1 DEF ToolStart, TookCall
<1> QED
  BY <1>1, <1>2, NamesOpened

\* What the first fragment of a call tells.
LEMMA NamesOfDelta ==
    ASSUME TypeOK, NEW e \in Inputs, ToolDelta(e), Key(e) \notin DOMAIN toolOpen
    PROVE  /\ toolOpen' = WithCall(Key(e)) /\ WithCall(Key(e))[Key(e)] = toolIndex
           /\ \A index \in Nat : NamesGiven(out', index) =
                 NamesGiven(out, index) \cup (IF toolIndex = index /\ e.named THEN {now} ELSE {})
<1>1. PICK c \in CallId : c = Key(e)
  BY StartedCallType
<1>2. toolIndex \in Nat /\ now \in Nat
  BY NowType DEF TypeOK
<1>3. PICK s : s = Append(Led, OpenFrame(c, toolIndex, e, now))
  OBVIOUS
<1>4. /\ out' = Append(s, ArgsFrame(toolIndex, now))
      /\ toolOpen' = WithCall(c)
  BY <1>1, <1>3 DEF ToolDelta, TookCall, Key
<1>5. WithCall(c)[c] = toolIndex
  BY <1>1, WithCallType
<1>6. ArgsFrame(toolIndex, now) \in Frame /\ ArgsFrame(toolIndex, now).kind = "args"
  <2>1. ArgsFrame(toolIndex, now) \in Frame
    BY <1>2, ArgsFields
  <2> QED
    BY <2>1 DEF ArgsFrame, Chunk
<1>7. ASSUME NEW index \in Nat
      PROVE  NamesGiven(out', index) =
                NamesGiven(out, index) \cup (IF toolIndex = index /\ e.named THEN {now} ELSE {})
  <2>1. /\ s \in Seq(Frame)
        /\ NamesGiven(s, index) =
              NamesGiven(out, index) \cup (IF toolIndex = index /\ e.named THEN {now} ELSE {})
    BY <1>2, <1>3, NamesOpened
  <2>2. NamesGiven(out', index) = NamesGiven(s, index)
    BY <1>4, <1>6, <2>1, NamesPush
  <2> QED
    BY <2>1, <2>2
<1> QED
  BY <1>1, <1>4, <1>5, <1>7

\* Every name is a line of the body.
LEMMA LineNamesType ==
    ASSUME IInv, NamesAgree, NEW e \in Inputs, Line(e), NEW index \in Nat
    PROVE  NamesGiven(out', index) \subseteq 1..Len(seen')
<1>1. TypeOK /\ Len(seen) \in Nat /\ Len(seen') = Len(seen) + 1 /\ now = Len(seen) + 1
  BY SeenGrows DEF IInv, now
<1>2. NamesGiven(out', index) \subseteq NamesGiven(out, index) \cup {now}
  <2>1. CASE ToolStart(e)
    <3>1. PICK c \in CallId : c = StartedCall(e)
      BY <1>1, StartedCallType
    <3> QED
      BY <1>1, <2>1, <3>1, NamesOfStart
  <2>2. CASE ToolDelta(e) /\ Key(e) \notin DOMAIN toolOpen
    BY <1>1, <2>2, NamesOfDelta
  <2> QED
    BY <1>1, <2>1, <2>2, NamesUntold
<1> QED
  BY <1>1, <1>2 DEF NamesAgree

\* The first name of a call after one line more.
LEMMA LineFirstName ==
    ASSUME IInv, Held, AnswersAgree, NamesAgree, NEW e \in Inputs, Line(e), SoFar(seen'),
           NEW id \in ToolIds \cup {NoId}
    PROVE  FirstOf(answer'.names[id], NamesTold(id)')
<1>1. /\ TypeOK /\ IndexPerCall /\ e.id \in ToolIds \cup {NoId} /\ e \in Event /\ now \in Nat
      /\ FoldedTo(answer, e, now, answer') /\ answer.names \in [ToolIds \cup {NoId} -> Nat]
      /\ SoFar(seen) /\ toolIndex \in Nat
  <2>1. answer \in Accumulated /\ SoFar(seen)
    BY LongerBody DEF AnswersAgree
  <2> QED
    BY <2>1, BothCalls DEF Accumulated, TypeOK
<1>2. answer'.names[id] = IF id = e.id /\ answer.names[id] = 0 /\ e.type \in StartTypes \cup {"tool-call"}
                          THEN NameIn(e, now) ELSE answer.names[id]
  <2>1. answer'.names = WithName(answer.names, e, now)
    BY <1>1 DEF FoldedTo
  <2>2. PICK names \in [ToolIds \cup {NoId} -> Nat] : names = answer.names
    BY <1>1
  <2>3. e \in Event /\ now \in Nat
    BY <1>1
  <2>4. WithName(names, e, now)[id]
          = IF id = e.id /\ names[id] = 0 /\ e.type \in StartTypes \cup {"tool-call"}
            THEN NameIn(e, now) ELSE names[id]
    BY <2>2, <2>3, WithNameType
  <2> QED
    BY <2>1, <2>2, <2>4
<1>3. FirstOf(answer.names[id], NamesTold(id))
  BY <1>1 DEF NamesAgree
<1>4. PICK given, given2 : given = NamesTold(id) /\ given2 = NamesTold(id)'
  OBVIOUS
<1>5. given \subseteq 1..Len(seen) /\ Len(seen) \in Nat /\ now = Len(seen) + 1
  BY <1>1, <1>4, LongerBody DEF NamesTold, NamesAgree, TypeOK
<1>6. CASE ToolStart(e)
  <2>1. e.type \in StartTypes /\ e.id # NoId
    BY <1>6, LongerBody DEF ToolStart, ToolTypes
  <2>2. PICK c \in CallId : c = StartedCall(e) /\ c = <<e.id, 0>>
    BY <1>1, <2>1, StartedCallType DEF StartedCall
  <2>3. PICK i \in Nat : i = WithCall(c)[c]
    BY <1>1, WithCallType
  <2>4. /\ toolOpen' = WithCall(c)
        /\ \A index \in Nat : NamesGiven(out', index) =
              NamesGiven(out, index) \cup (IF i = index /\ e.named THEN {now} ELSE {})
    <3>1. TypeOK /\ ToolStart(e)
      BY <1>1, <1>6
    <3> QED
      BY <2>2, <2>3, <3>1, NamesOfStart
  <2>5. CASE id = e.id
    <3>1. given2 = NamesGiven(out', i)
      BY <1>1, <1>4, <2>2, <2>3, <2>4, <2>5, WithCallType DEF NamesTold
    <3>2. NamesGiven(out, i) = given
      <4>1. CASE c \in DOMAIN toolOpen
        BY <1>1, <1>4, <2>2, <2>3, <2>5, <4>1, WithCallType DEF NamesTold
      <4>2. CASE c \notin DOMAIN toolOpen
        BY <1>1, <1>4, <2>2, <2>3, <2>5, <4>2, WithCallType, NoNameYet DEF NamesTold
      <4> QED
        BY <4>1, <4>2
    <3>3. given2 = given \cup (IF e.named THEN {now} ELSE {})
      BY <2>4, <3>1, <3>2
    <3>4. answer'.names[id] = IF answer.names[id] = 0 THEN (IF e.named THEN now ELSE 0)
                              ELSE answer.names[id]
      BY <1>2, <2>1, <2>5 DEF NameIn
    <3>5. FirstOf(answer.names[id], given)
      BY <1>3, <1>4
    <3> QED
      BY <1>4, <1>5, <3>3, <3>4, <3>5 DEF FirstOf
  <2>6. CASE id # e.id
    <3>1. <<id, 0>> # c
      BY <2>2, <2>6
    <3>2. given2 = given
      <4>1. CASE <<id, 0>> \in DOMAIN toolOpen
        <5>1. /\ toolOpen'[<<id, 0>>] = toolOpen[<<id, 0>>] /\ <<id, 0>> \in DOMAIN toolOpen'
              /\ toolOpen[<<id, 0>>] \in Nat
          BY <1>1, <2>4, <4>1, WithCallType DEF TypeOK
        <5>2. toolOpen[<<id, 0>>] # i
          <6>1. CASE c \in DOMAIN toolOpen
            <7>1. i = toolOpen[c]
              BY <1>1, <2>3, <6>1, WithCallType
            <7> QED
              BY <1>1, <3>1, <4>1, <6>1, <7>1 DEF IndexPerCall
          <6>2. CASE c \notin DOMAIN toolOpen
            <7>1. i = toolIndex /\ toolOpen[<<id, 0>>] < toolIndex
              BY <1>1, <2>3, <4>1, <6>2, WithCallType DEF IndexPerCall
            <7> QED
              BY <1>1, <5>1, <7>1
          <6> QED
            BY <6>1, <6>2
        <5> QED
          BY <1>4, <2>4, <4>1, <5>1, <5>2 DEF NamesTold
      <4>2. CASE <<id, 0>> \notin DOMAIN toolOpen
        <5>1. <<id, 0>> \notin DOMAIN toolOpen'
          <6>1. DOMAIN WithCall(c) = DOMAIN toolOpen \cup {c}
            BY <1>1, WithCallType
          <6> QED
            BY <2>4, <3>1, <4>2, <6>1
        <5> QED
          BY <1>4, <4>2, <5>1 DEF NamesTold
      <4> QED
        BY <4>1, <4>2
    <3> QED
      BY <1>2, <1>3, <1>4, <2>6, <3>2
  <2> QED
    BY <2>5, <2>6
<1>7. CASE ToolDelta(e) /\ Key(e) \notin DOMAIN toolOpen
  <2>1. e.type \in DeltaTypes /\ e.type \notin StartTypes \cup {"tool-call"}
    BY <1>7 DEF ToolDelta, DeltaTypes, StartTypes
  <2>2. answer'.names[id] = answer.names[id]
    BY <1>2, <2>1
  <2>3. ~e.named
    <3> SUFFICES ASSUME e.named PROVE FALSE
      OBVIOUS
    <3>1. PICK j \in DOMAIN seen : /\ seen[j].type \in StartTypes
                                   /\ seen[j].id = e.id /\ seen[j].named
      BY <2>1, LongerBody
    <3>2. answer.names[e.id] # 0
      BY <1>1, <3>1 DEF NamesAgree
    <3>3. FirstOf(answer.names[e.id], NamesTold(e.id))
      BY <1>1 DEF NamesAgree
    <3> QED
      BY <1>7, <3>2, <3>3 DEF FirstOf, NamesTold, Key
  <2>4. /\ toolOpen' = WithCall(Key(e)) /\ WithCall(Key(e))[Key(e)] = toolIndex
        /\ \A index \in Nat : NamesGiven(out', index) = NamesGiven(out, index)
    BY <1>1, <1>7, <2>3, NamesOfDelta
  <2>5. PICK c \in CallId : c = Key(e)
    BY <1>1, StartedCallType
  <2>6. given2 = given
    <3>1. CASE id = e.id
      <4>1. given = {}
        BY <1>4, <1>7, <3>1 DEF NamesTold, Key
      <4>2. given2 = NamesGiven(out, toolIndex)
        BY <1>1, <1>4, <2>4, <2>5, <3>1, WithCallType DEF NamesTold, Key
      <4> QED
        BY <1>1, <4>1, <4>2, NoNameYet
    <3>2. CASE id # e.id
      <4>1. <<id, 0>> # c
        BY <2>5, <3>2 DEF Key
      <4>2. <<id, 0>> \in DOMAIN toolOpen' <=> <<id, 0>> \in DOMAIN toolOpen
        <5>1. DOMAIN WithCall(c) = DOMAIN toolOpen \cup {c}
          BY <1>1, WithCallType
        <5>2. toolOpen' = WithCall(c)
          BY <2>4, <2>5
        <5> QED
          BY <4>1, <5>1, <5>2
      <4>3. <<id, 0>> \in DOMAIN toolOpen => /\ toolOpen'[<<id, 0>>] = toolOpen[<<id, 0>>]
                                             /\ toolOpen[<<id, 0>>] \in Nat
        BY <1>1, <2>4, <2>5, WithCallType DEF TypeOK
      <4> QED
        BY <1>4, <2>4, <4>2, <4>3 DEF NamesTold
    <3> QED
      BY <3>1, <3>2
  <2> QED
    BY <1>3, <1>4, <2>2, <2>6
<1>8. CASE ~ToolStart(e) /\ ~(ToolDelta(e) /\ Key(e) \notin DOMAIN toolOpen)
  <2>1. given2 = given
    <3>1. toolOpen' = toolOpen /\ \A index \in Nat : NamesGiven(out', index) = NamesGiven(out, index)
      <4>1. 0 \in Nat
        OBVIOUS
      <4> QED
        BY <1>1, <1>8, <4>1, NamesUntold
    <3>2. <<id, 0>> \in DOMAIN toolOpen => toolOpen[<<id, 0>>] \in Nat
      BY <1>1 DEF TypeOK
    <3> QED
      BY <1>4, <3>1, <3>2 DEF NamesTold
  <2>2. answer'.names[id] = answer.names[id]
    <3>1. e.type \notin StartTypes
      <4>1. ~finished
        BY LongerBody
      <4> QED
        BY <1>8, <4>1 DEF Line, Late, TextDelta, ToolDelta, Ignored, FinishStep, Finish, Error,
           TextTypes, StartTypes, DeltaTypes, IgnoredByStream
    <3>2. CASE e.type = "tool-call" /\ e.named
      <4>1. PICK j \in DOMAIN seen : /\ seen[j].type \in StartTypes
                                     /\ seen[j].id = e.id /\ seen[j].named
        BY <3>2, LongerBody
      <4>2. answer.names[e.id] # 0
        BY <1>1, <4>1 DEF NamesAgree
      <4> QED
        BY <1>2, <4>2
    <3>3. CASE ~e.named
      BY <1>2, <3>3 DEF NameIn
    <3> QED
      BY <1>2, <3>1, <3>2, <3>3
  <2> QED
    BY <1>3, <1>4, <2>1, <2>2
<1> QED
  BY <1>6, <1>7, <1>8

\* A line keeps the names of both readers together.
LEMMA LineNamesAgree ==
    ASSUME IInv, Held, AnswersAgree, NamesAgree, NEW e \in Inputs, Line(e)
    PROVE  NamesAgree'
<1>1. ASSUME SoFar(seen'), NEW k \in DOMAIN seen', seen'[k].type \in StartTypes, seen'[k].named
      PROVE  answer'.names[seen'[k].id] # 0
  <2>1. /\ SoFar(seen) /\ seen'[now] = e /\ now \in Nat /\ now # 0
        /\ \A j \in DOMAIN seen : seen'[j] = seen[j]
        /\ k \in DOMAIN seen \/ k = now
        /\ seen \in Seq(Inputs) /\ DOMAIN seen = 1..Len(seen)
    BY <1>1, LongerBody, NowPositive DEF IInv
  <2>2. /\ answer.names \in [ToolIds \cup {NoId} -> Nat] /\ e \in Event
        /\ FoldedTo(answer, e, now, answer')
    BY <1>1, <2>1, BothCalls DEF AnswersAgree, Accumulated
  <2>3. \A id \in ToolIds \cup {NoId} :
           answer'.names[id] =
              IF id = e.id /\ answer.names[id] = 0 /\ e.type \in StartTypes \cup {"tool-call"}
              THEN NameIn(e, now) ELSE answer.names[id]
    <3>1. answer'.names = WithName(answer.names, e, now)
      BY <2>2 DEF FoldedTo
    <3>2. PICK names \in [ToolIds \cup {NoId} -> Nat] : names = answer.names
      BY <2>2
    <3>3. now \in Nat /\ e \in Event
      BY <2>1, <2>2
    <3> QED
      BY <3>1, <3>2, <3>3, WithNameType
  <2>4. CASE k = now
    <3>1. e.id \in ToolIds \cup {NoId} /\ NameIn(e, now) # 0 /\ e.type \in StartTypes
      BY <1>1, <2>1, <2>2, <2>4 DEF Event, NameIn
    <3> QED
      BY <2>1, <2>3, <2>4, <3>1
  <2>5. CASE k \in DOMAIN seen
    <3>1. answer.names[seen[k].id] # 0
      BY <1>1, <2>1, <2>5 DEF NamesAgree
    <3>2. seen[k].id \in ToolIds \cup {NoId}
      <4>1. seen[k] \in Inputs
        BY <2>1, <2>5, ElementOfSeq
      <4> QED
        BY <4>1, InputsAssumption DEF Event
    <3> QED
      BY <2>1, <2>3, <2>5, <3>1, <3>2
  <2> QED
    BY <2>1, <2>4, <2>5
<1> QED
  BY <1>1, LineNamesType, LineFirstName DEF NamesAgree

\* No call has a name before the first line.
LEMMA NamesAgreeInit == Init => NamesAgree
<1> SUFFICES ASSUME Init PROVE NamesAgree
  OBVIOUS
<1>1. answer = EmptyFold /\ DOMAIN toolOpen = {} /\ DOMAIN out = {} /\ DOMAIN seen = {}
  BY ResponseFold DEF answer, Init
<1>2. \A index \in Nat : NamesGiven(out, index) = {}
  BY <1>1 DEF NamesGiven
<1>3. \A id \in ToolIds \cup {NoId} : answer.names[id] = 0 /\ NamesTold(id) = {}
  BY <1>1 DEF EmptyFold, NamesTold
<1> QED
  BY <1>1, <1>2, <1>3 DEF NamesAgree, FirstOf

\* Closing the stream gives no name.
LEMMA FinalizeNamesAgree ==
    ASSUME IInv, NamesAgree, Finalize
    PROVE  NamesAgree'
<1>1. TypeOK /\ out \in Seq(Frame) /\ seen' = seen /\ toolOpen' = toolOpen /\ answer' = answer
  BY DEF IInv, TypeOK, Finalize, answer
<1>2. \A index \in Nat : NamesGiven(out', index) = NamesGiven(out, index)
  <2> SUFFICES ASSUME NEW index \in Nat
               PROVE  NamesGiven(out', index) = NamesGiven(out, index)
    OBVIOUS
  <2>1. FinishFrame("stop") \in Frame /\ FinishFrame("stop").kind = "finish" /\ Finished \in Seq(Frame)
    BY <1>1, FinishFields, FinishedType DEF FinishReasons
  <2>2. NamesGiven(Finished, index) = NamesGiven(out, index)
    <3>1. NamesGiven(Append(out, FinishFrame("stop")), index) = NamesGiven(out, index)
      BY <1>1, <2>1, NamesPush
    <3> QED
      BY <3>1 DEF Finished
  <2>3. UsageFrame(usage) \in Frame /\ UsageFrame(usage).kind = "usage"
    BY <1>1, UsageFields DEF TypeOK
  <2>4. NamesGiven(Append(Finished, UsageFrame(usage)), index) = NamesGiven(Finished, index)
    BY <2>1, <2>3, NamesPush
  <2> QED
    BY <2>2, <2>4 DEF Finalize
<1>3. \A id \in ToolIds \cup {NoId} : NamesTold(id)' = NamesTold(id)
  <2>1. \A c \in DOMAIN toolOpen : toolOpen[c] \in Nat
    BY <1>1 DEF TypeOK
  <2> QED
    BY <1>1, <1>2, <2>1 DEF NamesTold
<1> QED
  BY <1>1, <1>2, <1>3 DEF NamesAgree

\* Every step keeps the names together.
LEMMA NamesAgreeNext == IInv /\ Held /\ AnswersAgree /\ NamesAgree /\ [Next]_vars => NamesAgree'
<1> SUFFICES ASSUME IInv, Held, AnswersAgree, NamesAgree, [Next]_vars PROVE NamesAgree'
  OBVIOUS
<1>1. ASSUME NEW e \in Inputs, Line(e) PROVE NamesAgree'
  BY <1>1, LineNamesAgree
<1>2. CASE Finalize
  BY <1>2, FinalizeNamesAgree
<1>3. CASE UNCHANGED vars
  <2>1. UNCHANGED <<seen, out, toolOpen>> /\ answer' = answer
    BY <1>3 DEF vars, answer
  <2> QED
    BY <2>1 DEF NamesAgree, NamesTold
<1> QED
  BY <1>1, <1>2, <1>3 DEF Next

\* The first of the names given is the one a client keeps.
LEMMA FirstIsKept ==
    ASSUME NEW index \in Nat, NEW k, FirstOf(k, NamesGiven(out, index)),
           NamesGiven(out, index) \subseteq Nat
    PROVE  ToolName(out, index) = k
<1>1. PICK given : given = NamesGiven(out, index)
  OBVIOUS
<1>2. CASE given = {}
  BY <1>1, <1>2 DEF FirstOf, ToolName
<1>3. CASE given # {}
  <2>1. k \in given /\ \A other \in given : k <= other
    BY <1>1, <1>3 DEF FirstOf
  <2>2. PICK n : n = CHOOSE j \in given : \A other \in given : j <= other
    OBVIOUS
  <2>3. n \in given /\ \A other \in given : n <= other
    BY <2>1, <2>2, Zenon
  <2>4. n = k
    BY <1>1, <2>1, <2>3
  <2> QED
    BY <1>1, <1>3, <2>2, <2>4 DEF ToolName
<1> QED
  BY <1>2, <1>3

\* When the stream is closed, that is agreement on the whole answer.
LEMMA AgreementAtClose == IInv /\ Held /\ AnswersAgree /\ NamesAgree => BothReadersAgree
<1> SUFFICES ASSUME IInv, Held, AnswersAgree, NamesAgree, doneSent, AsExpected(seen)
             PROVE  /\ held.content = answer.content /\ held.reasoning = answer.reasoning
                    /\ Calls(held, seen) = Response(answer, seen).calls
                    /\ held.finish = answer.finish /\ Tokens(held.usage) = Tokens(answer.usage)
                    /\ ~held.orphan
  BY DEF BothReadersAgree, held, answer, Assemble, Response
<1>1. finished /\ SoFar(seen) /\ TypeOK
  BY DEF IInv, Bookkeeping, AsExpected
<1>2. /\ held.content = answer.content /\ held.reasoning = answer.reasoning
      /\ SameCalls(held.calls, answer.calls) /\ answer.finish = held.finish
      /\ answer \in Accumulated /\ usage = answer.usage
  BY <1>1 DEF AnswersAgree, AsExpected, UsageAgrees
<1>3. held.usage = usage /\ ~held.orphan /\ held \in Message
  BY DEF Held
<1>4. Calls(held, seen) = Response(answer, seen).calls
  <2>1. answer.calls \in Seq(AnswerCall) /\ held.calls \in Seq(HeldCall)
    BY <1>2, <1>3 DEF Accumulated, Message
  <2>2. PICK hs, xs, names : hs = held.calls /\ xs = answer.calls /\ names = answer.names
    OBVIOUS
  <2>3. /\ hs \in Seq(HeldCall) /\ xs \in Seq(AnswerCall) /\ DOMAIN hs = DOMAIN xs
        /\ \A i \in DOMAIN hs : hs[i].call = <<xs[i].id, 0>> /\ hs[i].args = xs[i].args
    BY <1>2, <2>1, <2>2, LenProperties DEF SameCalls
  <2>4. ASSUME NEW i \in DOMAIN xs
        PROVE  /\ hs[i].call[1] = xs[i].id /\ hs[i].args = xs[i].args
               /\ ToolName(out, i - 1) = names[xs[i].id]
    <3>1. xs[i] \in AnswerCall /\ hs[i].call = <<xs[i].id, 0>> /\ hs[i].args = xs[i].args
      BY <2>3, ElementOfSeq, LenProperties
    <3>2. PICK id \in ToolIds \cup {NoId} : id = xs[i].id
      BY <3>1 DEF AnswerCall
    <3>3. <<id, 0>> \in DOMAIN toolOpen /\ toolOpen[<<id, 0>>] + 1 = i /\ toolOpen[<<id, 0>>] \in Nat
      <4>1. <<id, 0>> = hs[i].call /\ i \in DOMAIN held.calls /\ hs[i] = held.calls[i]
        BY <2>2, <2>3, <3>1, <3>2
      <4>2. held.calls[i].call \in DOMAIN toolOpen /\ toolOpen[held.calls[i].call] + 1 = i
        BY <4>1 DEF Held, CallsHeld
      <4> QED
        BY <1>1, <4>1, <4>2 DEF TypeOK
    <3>4. PICK index \in Nat : index = toolOpen[<<id, 0>>] /\ index = i - 1
      BY <3>3
    <3>5. FirstOf(names[id], NamesGiven(out, index))
      BY <1>1, <2>2, <3>2, <3>3, <3>4 DEF NamesAgree, NamesTold
    <3>6. NamesGiven(out, index) \subseteq Nat
      BY <3>4 DEF NamesAgree
    <3> QED
      BY <3>1, <3>2, <3>4, <3>5, <3>6, FirstIsKept
  <2>5. Calls(held, seen) =
           [i \in DOMAIN xs |-> [id |-> xs[i].id, name |-> names[xs[i].id],
                                 arguments |-> Trimmed(xs[i].args, seen)]]
    BY <2>2, <2>3, <2>4 DEF Calls
  <2>6. Response(answer, seen).calls =
           [i \in DOMAIN xs |-> [id |-> xs[i].id, name |-> names[xs[i].id],
                                 arguments |-> Trimmed(xs[i].args, seen)]]
    BY <2>2 DEF Response
  <2> QED
    BY <2>5, <2>6
<1> QED
  BY <1>2, <1>3, <1>4

\* executor.go, frames and finalize against assembleNonStreaming: for a body
\* upstream writes as expected, whatever its calls, its interleaving of their
\* fragments and where it ends, a streaming client and a non-streaming one get
\* the same content, reasoning, finish reason, calls and token counts; trimmed
\* arguments with "{}" for none, zeros for no usage and the missing reasoning
\* tokens are all the second can see differently.
THEOREM BothReadersAgreeAlways == Spec => []BothReadersAgree
BY AnswersAgreeInit, AnswersAgreeNext, NamesAgreeInit, NamesAgreeNext, AgreementAtClose,
   IInvAlways, HeldAlways, PTL DEF Spec
=============================================================================
