-------------------------- MODULE HostStream_proofs --------------------------
(***************************************************************************)
(* Proofs about HostStream, for any number of payloads: DoStream keeps the *)
(* promise of OrderedBody, and has released the host's stream when the     *)
(* reader can see the end.                                                 *)
(*                                                                         *)
(* The inductive invariant counts: what the reader has, plus what is       *)
(* buffered for it, are the first payloads in order, all of them but the   *)
(* one being offered; and a goroutine on its way out has delivered an      *)
(* error or the whole body, unless the request was cancelled.              *)
(***************************************************************************)
EXTENDS HostStream, SequenceTheorems, TLAPS

Errored == got # <<>> /\ got[Len(got)] = Error
Leaving == {"release", "close", "end"}

\* The reader has the payloads in order, the buffer those that follow.
InOrder ==
    /\ ~Errored => \A i \in 1..Len(got) : got[i] = i
    /\ \A i \in 1..Len(buffer) : buffer[i] = Len(got) + i
    /\ buffer # <<>> => /\ Len(got) + Len(buffer) = sent
                        /\ pc \in Leaving /\ ~Errored

\* How much of the body is with the reader at each stage.
Delivered ==
    /\ pc = "request" => sent = 0 /\ got = <<>> /\ reader = "waiting" /\ open /\ stream = "none"
    /\ pc \in {"check", "read", "offerError"} => Len(got) = sent /\ ~Errored
    /\ pc = "offer" => Len(got) + 1 = sent /\ ~Errored
    /\ pc \in {"request", "check", "read", "offerError"} => ~last
    /\ pc = "offer" => (last <=> next = "done")
    /\ pc \in Leaving => \/ Errored \/ cancelled \/ reader = "refused"
                         \/ last /\ Len(got) + Len(buffer) = sent

\* The channel is closed at the very end, and the host's stream before that;
\* whoever is refused gets no channel.
Ended ==
    /\ ~open => pc = "end"
    /\ reader = "ended" => ~open
    /\ reader = "refused" => open /\ pc = "end"
    /\ pc \in {"close", "end"} => stream # "open" \/ ~host \/ reader = "refused"

Inv == TypeOK /\ InOrder /\ Delivered /\ Ended

-----------------------------------------------------------------------------
(* Sequences                                                               *)

\* Appending keeps what was there and puts the new element last.
LEMMA Appended ==
    ASSUME NEW S, NEW s \in Seq(S), NEW e \in S
    PROVE  /\ Append(s, e) \in Seq(S) /\ Append(s, e) # <<>>
           /\ Len(Append(s, e)) = Len(s) + 1
           /\ \A i \in 1..Len(s) : Append(s, e)[i] = s[i]
           /\ Append(s, e)[Len(s) + 1] = e
OBVIOUS

\* What is got is a sequence of items, what is buffered one of payloads.
LEMMA Typed ==
    ASSUME Inv
    PROVE  /\ Len(got) \in Nat /\ Len(buffer) \in Nat /\ sent \in Nat
           /\ got \in Seq(Items) /\ buffer \in Seq(1..MaxPayloads)
           /\ pc \notin Leaving => buffer = <<>> /\ Len(buffer) = 0
           /\ pc = "request" => Len(got) = 0
<1>1. sent \in Nat /\ got \in Seq(Items) /\ buffer \in Seq(1..MaxPayloads)
    BY StreamAssumption DEF Inv, TypeOK
<1>2. Len(<<>>) = 0
    BY EmptySeq
<1>. QED
    BY <1>1, <1>2 DEF Inv, InOrder, Delivered

-----------------------------------------------------------------------------
(* The invariant                                                           *)

\* The request starts with nothing sent, buffered or received.
LEMMA InitInv == Init => Inv
<1> SUFFICES ASSUME Init PROVE Inv
    OBVIOUS
<1>1. Len(<<>>) = 0 /\ <<>> \in Seq(Items) /\ <<>> \in Seq(1..MaxPayloads)
    BY EmptySeq
<1>2. sent \in 0..MaxPayloads /\ buffer \in Seq(1..MaxPayloads) /\ got \in Seq(Items)
    BY <1>1, StreamAssumption DEF Init
<1>2a. TypeOK
    BY <1>2 DEF Init, TypeOK
<1>3. ~Errored
    BY DEF Init, Errored
<1>4. InOrder
    BY <1>1, <1>3 DEF Init, InOrder, Leaving
<1>5. Delivered /\ Ended
    BY <1>1, <1>3 DEF Init, Delivered, Ended, Leaving
<1>. QED
    BY <1>2a, <1>4, <1>5 DEF Inv

\* DoStream's own steps, and the goroutine's, that hand nothing over.
LEMMA QuietInv ==
    ASSUME Inv,
           \/ (\E lost \in BOOLEAN : RequestFails(lost)) \/ AnswerEmpty \/ AnswerStream
           \/ CheckContext \/ Reads \/ GiveUp \/ ReleaseStream \/ CloseChannel
           \/ SeeEnd \/ Leave \/ Cancel \/ Shutdown
    PROVE  Inv'
<1>1. got' = got /\ buffer' = buffer
    BY DEF RequestFails, AnswerEmpty, AnswerStream, CheckContext, Reads, ReadFails, ReadAnswers,
           GiveUp, ReleaseStream, CloseChannel, SeeEnd, Leave, Cancel, Shutdown
<1>2. Errored' = Errored
    BY <1>1 DEF Errored
<1>. USE StreamAssumption, Typed DEF Goes, Outside, Inv
<1>3. ASSUME NEW lost \in BOOLEAN, RequestFails(lost)
      PROVE  Inv'
    <2>1. TypeOK'
        BY <1>1, <1>3 DEF RequestFails, TypeOK, Delivered, Ended
    <2>2. InOrder'
        BY <1>1, <1>2, <1>3 DEF RequestFails, InOrder, Leaving
    <2>3. Delivered' /\ Ended'
        BY <1>1, <1>2, <1>3 DEF RequestFails, Delivered, Ended, Leaving
    <2>. QED
        BY <2>1, <2>2, <2>3
<1>4. CASE AnswerEmpty
    <2>1. TypeOK'
        BY <1>1, <1>4 DEF AnswerEmpty, TypeOK, Delivered, Ended
    <2>2. InOrder'
        BY <1>1, <1>2, <1>4 DEF AnswerEmpty, InOrder, Leaving
    <2>3. Len(got) = 0 /\ Len(buffer) = 0 /\ sent = 0 /\ stream = "none"
        BY <1>4 DEF AnswerEmpty, Delivered, Leaving
    <2>4. /\ pc' = "end" /\ last' = TRUE /\ open' = FALSE /\ reader' = "reading"
          /\ stream' = stream /\ sent' = sent
        BY <1>4 DEF AnswerEmpty
    <2>5. Delivered'
        BY <1>1, <2>3, <2>4 DEF Delivered, Leaving
    <2>6. Ended'
        BY <2>3, <2>4 DEF Ended
    <2>. QED
        BY <2>1, <2>2, <2>5, <2>6
<1>5. CASE AnswerStream
    <2>1. TypeOK'
        BY <1>1, <1>5 DEF AnswerStream, TypeOK, Delivered, Ended
    <2>2. InOrder'
        BY <1>1, <1>2, <1>5 DEF AnswerStream, InOrder, Leaving
    <2>3. Len(got) = 0 /\ sent = 0 /\ open /\ ~Errored /\ ~last
        BY <1>5 DEF AnswerStream, Delivered, Errored
    <2>4. /\ pc' = "check" /\ last' = last /\ open' = open /\ reader' = "reading" /\ sent' = sent
        BY <1>5 DEF AnswerStream
    <2>5. Delivered'
        BY <1>1, <1>2, <2>3, <2>4 DEF Delivered, Leaving
    <2>6. Ended'
        BY <2>3, <2>4 DEF Ended
    <2>. QED
        BY <2>1, <2>2, <2>5, <2>6
<1>6. CASE CheckContext
    BY <1>1, <1>2, <1>6 DEF CheckContext, TypeOK, InOrder, Delivered, Ended, Leaving
<1>7. CASE ReadFails
    BY <1>1, <1>2, <1>7 DEF ReadFails, TypeOK, InOrder, Delivered, Ended, Leaving
<1>8. ASSUME NEW payload \in BOOLEAN, NEW what \in {"more", "error", "done"}, ReadAnswers(payload, what)
      PROVE  Inv'
    <2>1. pc' \in {"offer", "check", "offerError", "release"} /\ buffer = <<>> /\ Len(buffer) = 0
        BY <1>8, Typed DEF ReadAnswers, Then, Leaving
    <2>2. sent' \in 0..MaxPayloads
        BY <1>8 DEF ReadAnswers, TypeOK
    <2>3. TypeOK'
        BY <1>1, <1>8, <2>1, <2>2 DEF ReadAnswers, TypeOK
    <2>4. InOrder'
        BY <1>1, <1>2, <2>1, <1>8 DEF ReadAnswers, InOrder, Delivered
    <2>5. Delivered'
        <3>1. Len(got) = sent /\ ~Errored /\ Len(got') = Len(got) /\ ~Errored'
            BY <1>1, <1>2, <1>8 DEF ReadAnswers, Delivered
        <3>2. last' = (what = "done") /\ next' = what /\ sent' = sent + (IF payload THEN 1 ELSE 0)
            BY <1>8 DEF ReadAnswers
        <3>3. pc' # "request" /\ Len(buffer') = 0
            BY <1>1, <2>1
        <3>4. CASE payload
            <4>1. pc' = "offer" /\ Len(got') + 1 = sent'
                BY <1>8, <3>1, <3>2, <3>4 DEF ReadAnswers
            <4>. QED
                BY <3>1, <3>2, <4>1 DEF Delivered, Leaving
        <3>5. CASE ~payload
            <4>1. pc' = Then(what) /\ Len(got') = sent'
                BY <1>8, <3>1, <3>2, <3>5 DEF ReadAnswers
            <4>2. pc' = "release" => last'
                BY <1>8, <3>2, <4>1 DEF Then
            <4>3. pc' # "release" => ~last'
                BY <1>8, <3>2, <4>1 DEF Then
            <4>. QED
                BY <2>1, <3>1, <3>3, <4>1, <4>2, <4>3 DEF Delivered, Leaving, Then
        <3>. QED
            BY <3>4, <3>5
    <2>6. Ended'
        BY <1>8, <2>1 DEF ReadAnswers, TypeOK, Ended
    <2>. QED
        BY <2>3, <2>4, <2>5, <2>6
<1>9. CASE GiveUp
    BY <1>1, <1>2, <1>9 DEF GiveUp, TypeOK, InOrder, Delivered, Ended, Leaving
<1>10. CASE ReleaseStream
    BY <1>1, <1>2, <1>10 DEF ReleaseStream, TypeOK, InOrder, Delivered, Ended, Leaving
<1>11. CASE CloseChannel
    <2>1. TypeOK'
        BY <1>1, <1>11 DEF CloseChannel, TypeOK, Delivered, Ended
    <2>2. InOrder'
        BY <1>1, <1>2, <1>11 DEF CloseChannel, InOrder, Leaving
    <2>3. Delivered' /\ Ended'
        BY <1>1, <1>2, <1>11 DEF CloseChannel, Delivered, Ended, Leaving
    <2>. QED
        BY <2>1, <2>2, <2>3
<1>12. CASE SeeEnd
    BY <1>1, <1>2, <1>12 DEF SeeEnd, TypeOK, InOrder, Delivered, Ended, Leaving
<1>13. CASE Leave
    BY <1>1, <1>2, <1>13 DEF Leave, TypeOK, InOrder, Delivered, Ended, Leaving
<1>14. CASE Cancel
    BY <1>1, <1>2, <1>14 DEF Cancel, TypeOK, InOrder, Delivered, Ended, Leaving
<1>15. CASE Shutdown
    <2>1. TypeOK'
        <3>1. host' \in BOOLEAN
            BY <1>15 DEF Shutdown
        <3>2. UNCHANGED <<stream, pc, sent, last, next, buffer, open, reader, got, cancelled>>
            BY <1>15 DEF Shutdown
        <3>. QED
            BY <1>1, <3>1, <3>2 DEF TypeOK
    <2>2. InOrder' /\ Delivered'
        BY <1>2, <1>15 DEF Shutdown, InOrder, Delivered
    <2>3. Ended'
        BY <1>15 DEF Shutdown, Ended
    <2>. QED
        BY <2>1, <2>2, <2>3
<1>16. CASE Reads
    BY <1>7, <1>8, <1>16 DEF Reads
<1>. HIDE DEF Inv
<1>. QED
    BY <1>3, <1>4, <1>5, <1>6, <1>9, <1>10, <1>11, <1>12, <1>13, <1>14, <1>15, <1>16

\* The buffered body is all of it, and nothing has been received.
LEMMA AnswerBufferedInv ==
    ASSUME Inv, NEW n \in 1..MaxPayloads, NEW withStream \in BOOLEAN, AnswerBuffered(n, withStream)
    PROVE  Inv'
<1>1. /\ buffer' = [i \in 1..n |-> i] /\ n \in Nat
      /\ got' = got /\ got = <<>> /\ sent' = n /\ last' = TRUE /\ open' = open /\ open
      /\ reader' = reader /\ reader = "waiting" /\ pc' \in Leaving
    BY StreamAssumption DEF AnswerBuffered, Goes, Leaving, Inv, Delivered
<1>2. /\ buffer' \in Seq(1..MaxPayloads) /\ Len(buffer') = n
      /\ \A i \in 1..Len(buffer') : buffer'[i] = i
    BY <1>1, StreamAssumption
<1>3. Len(got') = 0 /\ ~Errored'
    BY <1>1, EmptySeq DEF Errored
<1>4. TypeOK'
    BY <1>1, <1>2, StreamAssumption DEF AnswerBuffered, Goes, Outside, Inv, TypeOK
<1>5. InOrder'
    BY <1>1, <1>2, <1>3 DEF InOrder
<1>6. Delivered'
    BY <1>1, <1>2, <1>3 DEF Delivered, Leaving
<1>7. Ended'
    BY <1>1 DEF AnswerBuffered, Goes, Outside, Inv, Ended
<1>. QED
    BY <1>4, <1>5, <1>6, <1>7 DEF Inv

\* The next payload goes to the reader.
LEMMA HandOverInv ==
    ASSUME Inv, HandOver
    PROVE  Inv' /\ got' = Append(got, Len(got) + 1)
<1>1. /\ got' = Append(got, sent) /\ sent = Len(got) + 1 /\ sent \in Items /\ sent # Error
      /\ sent' = sent /\ buffer' = buffer /\ buffer = <<>> /\ pc = "offer" /\ ~Errored
    BY Typed, StreamAssumption DEF HandOver, Inv, TypeOK, InOrder, Delivered, Items, Leaving
<1>2. /\ got' \in Seq(Items) /\ got' # <<>> /\ Len(got') = Len(got) + 1
      /\ \A i \in 1..Len(got) : got'[i] = got[i]
      /\ got'[Len(got) + 1] = sent
    BY <1>1, Typed, Appended
<1>3. ~Errored'
    BY <1>1, <1>2 DEF Errored
<1>4. pc' \in {"check", "offerError", "release"} /\ UNCHANGED <<stream, open, reader, last, next>>
    BY DEF HandOver, Goes, Then, Inv, TypeOK
<1>5. TypeOK'
    BY <1>1, <1>2, <1>4 DEF HandOver, Outside, Inv, TypeOK
<1>6. InOrder'
    <2>1. \A i \in 1..Len(got') : got'[i] = i
        BY <1>1, <1>2, Typed DEF Inv, InOrder
    <2>2. Len(buffer') = 0
        BY <1>1
    <2>. QED
        BY <1>1, <2>1, <2>2 DEF InOrder
<1>7. Delivered'
    <2>1. Len(buffer') = 0 /\ Len(got') = sent'
        BY <1>1, <1>2
    <2>2. pc' \in {"check", "offerError"} => next # "done"
        BY DEF HandOver, Goes, Then, Inv, TypeOK
    <2>3. pc' = "release" => last'
        BY <1>1, <1>4 DEF HandOver, Goes, Then, Inv, TypeOK, Delivered
    <2>4. pc' # "release" => ~last'
        BY <1>1, <1>4, <2>2 DEF Inv, Delivered
    <2>. QED
        BY <1>3, <1>4, <2>1, <2>3, <2>4, Typed DEF Delivered, Leaving
<1>8. Ended'
    BY <1>1, <1>4 DEF HandOver, Inv, Ended
<1>. QED
    BY <1>1, <1>5, <1>6, <1>7, <1>8 DEF Inv

\* The error goes to the reader, behind everything sent.
LEMMA HandOverErrorInv ==
    ASSUME Inv, HandOverError
    PROVE  Inv' /\ got' = Append(got, Error) /\ Len(got) = sent /\ ~Errored
<1>1. /\ got' = Append(got, Error) /\ Len(got) = sent /\ ~Errored /\ Error \in Items
      /\ sent' = sent /\ buffer' = buffer /\ buffer = <<>> /\ pc' = "release"
      /\ UNCHANGED <<stream, open, reader, last, next, host, cancelled>> /\ pc = "offerError"
    BY Typed DEF HandOverError, Goes, Outside, Inv, InOrder, Delivered, Items, Leaving
<1>2. got' \in Seq(Items) /\ got' # <<>> /\ Len(got') = Len(got) + 1 /\ got'[Len(got) + 1] = Error
    BY <1>1, Typed, Appended
<1>3. Errored'
    BY <1>2 DEF Errored
<1>4. TypeOK'
    BY <1>1, <1>2 DEF Inv, TypeOK
<1>5. InOrder'
    <2>1. Len(buffer') = 0
        BY <1>1
    <2>. QED
        BY <1>1, <1>3, <2>1 DEF InOrder
<1>6. Delivered' /\ Ended'
    BY <1>1, <1>3 DEF Inv, Delivered, Ended, Leaving
<1>. QED
    BY <1>1, <1>4, <1>5, <1>6 DEF Inv

\* The reader takes the first of what is buffered, which is the next payload.
LEMMA TakeBufferedInv ==
    ASSUME Inv, TakeBuffered
    PROVE  Inv' /\ got' = Append(got, Len(got) + 1) /\ Len(got) < sent /\ ~Errored
<1>1. /\ buffer # <<>> /\ ~Errored /\ pc \in Leaving /\ Len(got) + Len(buffer) = sent
      /\ buffer' = Tail(buffer) /\ got' = Append(got, Head(buffer))
      /\ UNCHANGED <<host, cancelled, stream, pc, sent, last, next, open, reader>>
    BY DEF TakeBuffered, Outside, Inv, InOrder
<1>2. Len(buffer) \in Nat \ {0} /\ Head(buffer) = buffer[1] /\ Head(buffer) \in 1..MaxPayloads
    <2>1. Len(buffer) \in Nat \ {0}
        BY <1>1, Typed, EmptySeq
    <2>2. Head(buffer) \in 1..MaxPayloads
        BY <1>1, Typed, HeadTailProperties
    <2>3. Head(buffer) = buffer[1]
        BY <2>1, Typed
    <2>. QED
        BY <2>1, <2>2, <2>3
<1>3. Head(buffer) = Len(got) + 1 /\ Head(buffer) \in Items /\ Head(buffer) # Error
    BY <1>2, Typed, StreamAssumption DEF Inv, InOrder, Items
<1>4. /\ Tail(buffer) \in Seq(1..MaxPayloads) /\ Len(buffer') = Len(buffer) - 1
      /\ \A i \in 1..Len(buffer') : buffer'[i] = buffer[i + 1]
    BY <1>1, Typed, HeadTailProperties
<1>5. /\ got' \in Seq(Items) /\ got' # <<>> /\ Len(got') = Len(got) + 1
      /\ \A i \in 1..Len(got) : got'[i] = got[i]
      /\ got'[Len(got) + 1] = Len(got) + 1
    BY <1>1, <1>3, Typed, Appended
<1>6. ~Errored'
    BY <1>3, <1>5 DEF Errored
<1>7. TypeOK'
    BY <1>1, <1>4, <1>5 DEF Inv, TypeOK
<1>8. InOrder'
    <2>1. \A i \in 1..Len(got') : got'[i] = i
        BY <1>1, <1>5, Typed DEF Inv, InOrder
    <2>2. \A i \in 1..Len(buffer') : buffer'[i] = Len(got') + i
        <3>. TAKE i \in 1..Len(buffer')
        <3>1. i + 1 \in 1..Len(buffer) /\ i \in Nat
            BY <1>2, <1>4
        <3>2. buffer[i + 1] = Len(got) + (i + 1)
            BY <3>1 DEF Inv, InOrder
        <3>. QED
            BY <1>4, <1>5, <3>1, <3>2, Typed
    <2>. QED
        BY <1>1, <1>2, <1>4, <1>5, <1>6, <2>1, <2>2, Typed DEF InOrder
<1>9. Delivered'
    BY <1>1, <1>2, <1>4, <1>5, Typed DEF Inv, Delivered, Leaving
<1>10. Ended'
    BY <1>1 DEF Inv, Ended
<1>11. Len(got) < sent /\ got' = Append(got, Len(got) + 1)
    BY <1>1, <1>2, <1>3, Typed
<1>. QED
    BY <1>1, <1>7, <1>8, <1>9, <1>10, <1>11 DEF Inv

\* Every step keeps the invariant.
LEMMA NextInv == Inv /\ [Next]_vars => Inv'
<1> SUFFICES ASSUME Inv, [Next]_vars PROVE Inv'
    OBVIOUS
<1>1. CASE UNCHANGED vars
    BY <1>1 DEF vars, Inv, TypeOK, InOrder, Delivered, Ended, Errored
<1>2. CASE Next
    BY <1>2, QuietInv, AnswerBufferedInv, HandOverInv, HandOverErrorInv, TakeBufferedInv
       DEF Next, Answers, Goroutine
<1>. QED
    BY <1>1, <1>2

\* The invariant holds throughout.
THEOREM Invariance == Spec => []Inv
BY InitInv, NextInv, PTL DEF Spec

\* The variables keep their types, and the goroutine asks the host only for a
\* stream that is open and sends only on a channel that is.
THEOREM TypeCorrect == Spec => []TypeOK
BY Invariance, PTL DEF Inv

\* A closed channel means the host's stream is released, on the buffered path
\* as on the other.
THEOREM ReleasedBeforeEndAlways == Spec => []ReleasedBeforeEnd
<1>1. Inv => ReleasedBeforeEnd
    BY DEF Inv, Ended, ReleasedBeforeEnd
<1>. QED
    BY <1>1, Invariance, PTL

-----------------------------------------------------------------------------
(* The refinement                                                          *)

\* The reader sees the end when the error, the cancellation or the whole body
\* is with it.
LEMMA SeeEndEnds == ASSUME Inv, SeeEnd PROVE Body!End
<1>1. pc = "end" /\ reader = "reading" /\ Len(buffer) = 0
    BY DEF SeeEnd, Inv, Ended
<1>2. Errored \/ cancelled \/ (last /\ Len(got) = sent)
    BY <1>1, Typed DEF Inv, Delivered, Leaving
<1>3. /\ reader # "ended" /\ reader' = "ended" /\ UNCHANGED <<sent, last, got, cancelled>>
    BY <1>1 DEF SeeEnd, Outside
<1>. QED
    BY <1>2, <1>3 DEF Body!End, Body!Failed, Body!Complete, Errored

\* Every step is a step of OrderedBody, or changes nothing it sees.
LEMMA StepRefines == Inv /\ [Next]_vars => [Body!Next]_Body!vars
<1> SUFFICES ASSUME Inv, [Next]_vars PROVE [Body!Next]_Body!vars
    OBVIOUS
<1>. USE DEF Outside
<1>0. CASE UNCHANGED vars
    BY <1>0 DEF vars, Body!vars
<1>1. CASE (\E lost \in BOOLEAN : RequestFails(lost)) \/ AnswerStream \/ CheckContext \/ ReadFails \/ GiveUp \/ ReleaseStream
           \/ CloseChannel \/ Leave \/ Shutdown
    BY <1>1 DEF RequestFails, AnswerStream, CheckContext, ReadFails, GiveUp, ReleaseStream,
           CloseChannel, Leave, Shutdown, Body!vars, Inv, Ended, Delivered
<1>2. CASE AnswerEmpty
    <2>1. Body!HostSends
        BY <1>2, Typed DEF AnswerEmpty, Body!HostSends, Inv, Delivered
    <2>. QED
        BY <2>1 DEF Body!Next
<1>3. ASSUME NEW n \in 1..MaxPayloads, NEW withStream \in BOOLEAN, AnswerBuffered(n, withStream)
      PROVE  [Body!Next]_Body!vars
    <2>1. Body!HostSends
        BY <1>3, Typed, StreamAssumption DEF AnswerBuffered, Body!HostSends, Inv, Delivered
    <2>. QED
        BY <2>1 DEF Body!Next
<1>4. ASSUME NEW payload \in BOOLEAN, NEW what \in {"more", "error", "done"}, ReadAnswers(payload, what)
      PROVE  [Body!Next]_Body!vars
    <2>1. Body!HostSends
        BY <1>4, Typed DEF ReadAnswers, Body!HostSends, Inv, Delivered
    <2>. QED
        BY <2>1 DEF Body!Next
<1>5. CASE HandOver
    <2>1. Body!Receive
        BY <1>5, HandOverInv, Typed DEF HandOver, Body!Receive, Body!Failed, Inv, Delivered, Errored
    <2>. QED
        BY <2>1 DEF Body!Next
<1>6. CASE HandOverError
    <2>1. Body!Fail
        BY <1>6, HandOverErrorInv DEF HandOverError, Body!Fail, Body!Failed, Body!Complete, Errored
    <2>. QED
        BY <2>1 DEF Body!Next
<1>7. CASE TakeBuffered
    <2>1. Body!Receive
        BY <1>7, TakeBufferedInv DEF TakeBuffered, Body!Receive, Body!Failed, Errored
    <2>. QED
        BY <2>1 DEF Body!Next
<1>8. CASE SeeEnd
    BY <1>8, SeeEndEnds DEF Body!Next
<1>9. CASE Cancel
    BY <1>9 DEF Cancel, Body!Next, Body!Cancel
<1>. QED
    BY <1>0, <1>1, <1>2, <1>3, <1>4, <1>5, <1>6, <1>7, <1>8, <1>9 DEF Next, Answers, Reads, Goroutine

\* Whatever the host answers and whenever the reader leaves, the request is
\* cancelled or the plugin is shut down, the reader gets every payload in order,
\* an error only at the end, and no silent truncation but by a cancellation.
THEOREM BodyKept == Spec => BodySpec
<1>1. Init => Body!Init
    BY DEF Init, Body!Init
<1>. QED
    BY <1>1, StepRefines, Invariance, PTL DEF Spec, BodySpec, Body!Spec
=============================================================================
