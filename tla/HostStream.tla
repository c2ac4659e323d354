------------------------------ MODULE HostStream ------------------------------
(***************************************************************************)
(* hostHTTPClient.DoStream: the host answers with buffered chunks or with  *)
(* a stream id; for a stream, a goroutine asks the host for one part after *)
(* another and hands each to the reader over an unbuffered channel.  The   *)
(* host, the reader, the request's context and shutdown are the            *)
(* environment.  Nothing in the plugin calls DoStream yet; the SDK's       *)
(* interface requires it.                                                  *)
(***************************************************************************)
EXTENDS Naturals, Sequences

CONSTANTS
    Error,         \* the item that carries an error
    MaxPayloads    \* bound: how many payloads the host hands over

ASSUME StreamAssumption == MaxPayloads \in Nat /\ Error \notin Nat

VARIABLES
    host,        \* abiState.host is set
    stream,      \* the stream on the host's side: "none", "open" or "closed"
    pc,          \* of DoStream and then of its goroutine
    sent, last,  \* as in OrderedBody
    next,        \* what the read that is being handed on says comes after it
    buffer,      \* the buffered channel
    open,        \* the channel is not closed
    reader,      \* "waiting" for DoStream, "reading", "left", "ended" or "refused"
    got,         \* what the reader has received
    cancelled    \* ctx is cancelled

vars == <<host, stream, pc, sent, last, next, buffer, open, reader, got, cancelled>>

Init ==
    /\ host \in BOOLEAN /\ stream = "none" /\ pc = "request"
    /\ sent = 0 /\ last = FALSE /\ next = "more"
    /\ buffer = <<>> /\ open = TRUE
    /\ reader = "waiting" /\ got = <<>> /\ cancelled = FALSE

Goes(stage) == pc' = stage
Outside == <<host, cancelled>>

-----------------------------------------------------------------------------
(* DoStream                                                                *)

\* There is no host, it answers with an error, or nobody can decode its answer:
\* then a stream it opened stays open, since its id is lost.
RequestFails(lost) ==
    /\ pc = "request" /\ Goes("end")
    /\ lost => host
    /\ reader' = "refused"
    /\ stream' = (IF lost THEN "open" ELSE "none")
    /\ UNCHANGED <<sent, last, next, buffer, open, got>> /\ UNCHANGED Outside

\* Mutant of AnswerBuffered: the stream beside the chunks is forgotten.
AnswerBufferedOnly(n, withStream) ==
    /\ pc = "request" /\ host /\ Goes("close")
    /\ stream' = (IF withStream THEN "open" ELSE "none")
    /\ sent' = n /\ last' = TRUE
    /\ buffer' = [i \in 1..n |-> i]
    /\ UNCHANGED <<next, open, reader, got>> /\ UNCHANGED Outside

\* The whole body at once.  A stream the host opened beside it is released, and
\* the channel closed, before the reader sees either.
AnswerBuffered(n, withStream) ==
    /\ pc = "request" /\ host
    /\ Goes(IF withStream THEN "release" ELSE "close")
    /\ stream' = (IF withStream THEN "open" ELSE "none")
    /\ sent' = n /\ last' = TRUE
    /\ buffer' = [i \in 1..n |-> i]
    /\ UNCHANGED <<next, open, reader, got>> /\ UNCHANGED Outside

\* Mutant of AnswerEmpty: a stream is read that the host never opened.
AnswerEmptyRead ==
    /\ pc = "request" /\ host /\ Goes("check")
    /\ last' = TRUE
    /\ reader' = "reading"
    /\ UNCHANGED <<stream, sent, next, buffer, open, got>> /\ UNCHANGED Outside

\* Neither chunks nor a stream: an empty body.
AnswerEmpty ==
    /\ pc = "request" /\ host /\ Goes("end")
    /\ last' = TRUE /\ open' = FALSE
    /\ reader' = "reading"
    /\ UNCHANGED <<stream, sent, next, buffer, got>> /\ UNCHANGED Outside

\* A stream id: the goroutine starts and the reader gets its channel.
AnswerStream ==
    /\ pc = "request" /\ host /\ Goes("check")
    /\ stream' = "open"
    /\ reader' = "reading"
    /\ UNCHANGED <<sent, last, next, buffer, open, got>> /\ UNCHANGED Outside

-----------------------------------------------------------------------------
(* The goroutine                                                           *)

CheckContext ==
    /\ pc = "check" /\ Goes(IF cancelled THEN "offerError" ELSE "read")
    /\ UNCHANGED <<stream, sent, last, next, buffer, open, reader, got>> /\ UNCHANGED Outside

\* Mutant of Then: the goroutine reads on after the end.
ThenReadsOn(what) == IF what = "error" THEN "offerError" ELSE "check"

\* The error is reported before the end, and an error or the end may come with
\* the last payload.
Then(what) ==
    CASE what = "more" -> "check" [] what = "error" -> "offerError" [] what = "done" -> "release"

ReadFails ==
    /\ pc = "read" /\ Goes("offerError")
    /\ UNCHANGED <<stream, sent, last, next, buffer, open, reader, got>> /\ UNCHANGED Outside

\* Mutant of ReadAnswers: the end is looked at before the payload.
EndBeforePayload(payload, what) ==
    /\ pc = "read" /\ host
    /\ payload => sent < MaxPayloads
    /\ Goes(IF payload /\ what # "done" THEN "offer" ELSE Then(what))
    /\ sent' = sent + (IF payload THEN 1 ELSE 0)
    /\ last' = (what = "done")
    /\ next' = what
    /\ UNCHANGED <<stream, buffer, open, reader, got>> /\ UNCHANGED Outside

ReadAnswers(payload, what) ==
    /\ pc = "read" /\ host
    /\ payload => sent < MaxPayloads
    /\ Goes(IF payload THEN "offer" ELSE Then(what))
    /\ sent' = sent + (IF payload THEN 1 ELSE 0)
    /\ last' = (what = "done")
    /\ next' = what
    /\ UNCHANGED <<stream, buffer, open, reader, got>> /\ UNCHANGED Outside

\* The channel has no buffer: the goroutine and the reader meet.
HandOver ==
    /\ pc = "offer" /\ reader = "reading" /\ Goes(Then(next))
    /\ got' = Append(got, sent)
    /\ UNCHANGED <<stream, sent, last, next, buffer, open, reader>> /\ UNCHANGED Outside

\* Mutant of GiveUp: the payload is sent without looking at the context.
NeverGivesUp == FALSE /\ UNCHANGED vars

\* ... or the context ends the wait, and the payload is dropped.
GiveUp ==
    /\ pc = "offer" /\ cancelled /\ Goes("release")
    /\ UNCHANGED <<stream, sent, last, next, buffer, open, reader, got>> /\ UNCHANGED Outside

\* An error waits for the reader whatever the context says.
HandOverError ==
    /\ pc = "offerError" /\ reader = "reading" /\ Goes("release")
    /\ got' = Append(got, Error)
    /\ UNCHANGED <<stream, sent, last, next, buffer, open, reader>> /\ UNCHANGED Outside

\* closeHostStream; what the host answers is ignored.
ReleaseStream ==
    /\ pc = "release" /\ Goes("close")
    /\ stream' = (IF host THEN "closed" ELSE stream)
    /\ UNCHANGED <<sent, last, next, buffer, open, reader, got>> /\ UNCHANGED Outside

\* close(chunks); a buffered answer is returned only now.
CloseChannel ==
    /\ pc = "close" /\ Goes("end")
    /\ open' = FALSE
    /\ reader' = (IF reader = "waiting" THEN "reading" ELSE reader)
    /\ UNCHANGED <<stream, sent, last, next, buffer, got>> /\ UNCHANGED Outside

-----------------------------------------------------------------------------
(* The reader, the context and the host                                    *)

TakeBuffered ==
    /\ reader = "reading" /\ buffer # <<>>
    /\ got' = Append(got, Head(buffer)) /\ buffer' = Tail(buffer)
    /\ UNCHANGED <<stream, pc, sent, last, next, open, reader>> /\ UNCHANGED Outside

SeeEnd ==
    /\ reader = "reading" /\ ~open /\ buffer = <<>>
    /\ reader' = "ended"
    /\ UNCHANGED <<stream, pc, sent, last, next, buffer, open, got>> /\ UNCHANGED Outside

Leave ==
    /\ reader = "reading" /\ reader' = "left"
    /\ UNCHANGED <<stream, pc, sent, last, next, buffer, open, got>> /\ UNCHANGED Outside

Cancel ==
    /\ ~cancelled /\ cancelled' = TRUE
    /\ UNCHANGED <<host, stream, pc, sent, last, next, buffer, open, reader, got>>

Shutdown ==
    /\ host /\ host' = FALSE
    /\ UNCHANGED <<stream, pc, sent, last, next, buffer, open, reader, got, cancelled>>

Answers ==
    \/ AnswerEmpty \/ AnswerStream \/ \E lost \in BOOLEAN : RequestFails(lost)
    \/ \E n \in 1..MaxPayloads, withStream \in BOOLEAN : AnswerBuffered(n, withStream)

Reads == ReadFails \/ \E payload \in BOOLEAN, what \in {"more", "error", "done"} : ReadAnswers(payload, what)

Goroutine == CheckContext \/ HandOver \/ GiveUp \/ HandOverError \/ ReleaseStream \/ CloseChannel

Next ==
    \/ Answers \/ Reads \/ Goroutine
    \/ TakeBuffered \/ SeeEnd \/ Leave \/ Cancel \/ Shutdown

Spec == Init /\ [][Next]_vars

\* Go runs a goroutine that can go on, the host answers its calls, and a body
\* ends some time; a reader that reads goes on reading.
BodyEnds == ReadFails \/ \E payload \in BOOLEAN, what \in {"error", "done"} : ReadAnswers(payload, what)
Fairness ==
    /\ WF_vars(Answers) /\ WF_vars(Reads) /\ WF_vars(Goroutine) /\ SF_vars(BodyEnds)
    /\ WF_vars(TakeBuffered) /\ WF_vars(SeeEnd)
FairSpec == Spec /\ Fairness

-----------------------------------------------------------------------------
(* Properties                                                              *)

Items == 1..MaxPayloads \cup {Error}

\* The type invariant; in it, that the goroutine asks the host only for a stream
\* that is open, and sends only on a channel that is.
TypeOK ==
    /\ host \in BOOLEAN /\ last \in BOOLEAN /\ open \in BOOLEAN /\ cancelled \in BOOLEAN
    /\ stream \in {"none", "open", "closed"}
    /\ pc \in {"request", "check", "read", "offer", "offerError", "release", "close", "end"}
    /\ sent \in 0..MaxPayloads
    /\ next \in {"more", "error", "done"}
    /\ buffer \in Seq(1..MaxPayloads) /\ got \in Seq(Items)
    /\ reader \in {"waiting", "reading", "left", "ended", "refused"}
    /\ pc \in {"check", "read", "offer", "offerError"} => stream = "open" /\ open

\* What the reader gets is what OrderedBody promises: every payload in order, an
\* error only at the end, and no silent truncation except by a cancellation
\* (hostcall.go:158-193).
Body == INSTANCE OrderedBody WITH ended <- reader = "ended"
BodySpec == Body!Spec

\* When the channel is closed the host has been told to close the stream, on
\* the buffered path too (hostcall.go:134-137, 156-157): a reader that has seen
\* the end leaves nothing running in a host that is still there.
ReleasedBeforeEnd == ~open => stream # "open" \/ ~host

\* A reader that goes on reading comes to the end, whatever the host answers,
\* whether it is shut down or the request cancelled.
ReaderSeesEnd == reader = "reading" ~> reader # "reading"

\* The reader has left and the goroutine holds an error for it, or a payload of
\* a request that is not cancelled (hostcall.go:160, 167, 180-184).
Abandoned == reader = "left" /\ (pc = "offerError" \/ (pc = "offer" /\ ~cancelled))

\* The goroutine and the host's stream are released in the end, except when the
\* goroutine waits for a reader that has left, or when the stream was opened by
\* an answer that could not be decoded (hostcall.go:125-127).
StreamReleased ==
    stream = "open" ~> (stream = "closed" \/ ~host \/ Abandoned \/ reader = "refused")
=============================================================================
