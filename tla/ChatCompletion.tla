-------------------------- MODULE ChatCompletion --------------------------
(***************************************************************************)
(* What a streamed answer promises to the client that puts it together:    *)
(* every upstream event adds at most its own payload to the message, in    *)
(* the order of the events; a call is opened once; a finish reason is set  *)
(* once and freezes the message; the usage comes last, with the close.     *)
(*                                                                         *)
(* Stated of the message the client holds, not of frames; StreamConverter  *)
(* implements it under the client's fold of the frames (ChatClient).       *)
(***************************************************************************)
EXTENDS ChatClient

CONSTANT CallIds     \* the ids tool calls can be announced under

VARIABLES
    at,       \* the number of upstream events delivered so far
    message,  \* what the client has put together
    closed    \* the stream has ended

vars == <<at, message, closed>>

-----------------------------------------------------------------------------
Init == at = 0 /\ message = EmptyMessage /\ closed = FALSE

Open == message.finish = "" /\ ~closed

Delivered == at' = at + 1 /\ UNCHANGED closed

\* An event with nothing for the client; every event after the finish is one.
Skip == ~closed /\ Delivered /\ UNCHANGED message

(***************************************************************************)
(* What an event may add to a message that is Open.                        *)
(***************************************************************************)
Text(field) == message' = [message EXCEPT ![field] = Append(@, at + 1)]

KnownCall(c) == \E i \in DOMAIN message.calls : message.calls[i].call = c

OpenCall(c) ==
    /\ ~KnownCall(c)
    /\ message' = [message EXCEPT !.calls = Append(@, [call |-> c, args |-> <<>>])]

\* A fragment for a call opens the call when it was not announced.
Arguments(c) ==
    IF KnownCall(c)
    THEN \E i \in DOMAIN message.calls :
            /\ message.calls[i].call = c
            /\ message' = [message EXCEPT !.calls[i].args = Append(@, at + 1)]
    ELSE message' = [message EXCEPT !.calls =
                        Append(@, [call |-> c, args |-> <<at + 1>>])]

Finish(reason) == message' = [message EXCEPT !.finish = reason]

\* An upstream error is told to the client as content, and ends the answer.
Fail == message' = [message EXCEPT !.content = Append(@, at + 1), !.finish = "stop"]

Close ==
    /\ ~closed /\ closed' = TRUE
    /\ UNCHANGED at
    /\ \E k \in 0..at, total \in BOOLEAN, reasoned \in BOOLEAN :
          message' = [message EXCEPT !.finish = IF @ = "" THEN "stop" ELSE @,
                                     !.usage  = UsageBlock(k, total, reasoned)]

Next == \/ Skip \/ Close
        \/ /\ Open /\ Delivered
           /\ \/ Fail
              \/ \E field \in {"content", "reasoning"} : Text(field)
              \/ \E c \in CallIds : OpenCall(c) \/ Arguments(c)
              \/ \E r \in FinishReasons : Finish(r)

Spec == Init /\ [][Next]_vars
=============================================================================
