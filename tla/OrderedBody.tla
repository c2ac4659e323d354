----------------------------- MODULE OrderedBody -----------------------------
(***************************************************************************)
(* What hostHTTPClient.DoStream promises whoever reads its channel: the    *)
(* payloads the host hands over, in order and each once; an error only as  *)
(* the last item, after every payload before it; and an end without error  *)
(* means that the whole body has been read, unless the request was         *)
(* cancelled.  Payloads are numbered in the order of the host.             *)
(***************************************************************************)
EXTENDS Naturals, Sequences

CONSTANT Error   \* the item that carries an error

VARIABLES
    sent,       \* how many payloads the host has handed over
    last,       \* the host has said that there are no more
    got,        \* what the reader has received
    ended,      \* the reader has seen the end
    cancelled   \* the request's context is cancelled

vars == <<sent, last, got, ended, cancelled>>

Failed == got # <<>> /\ got[Len(got)] = Error
Complete == Len(got) = sent

Init == sent = 0 /\ last = FALSE /\ got = <<>> /\ ended = FALSE /\ cancelled = FALSE

HostSends ==
    /\ ~last
    /\ sent' >= sent
    /\ last' \in BOOLEAN
    /\ UNCHANGED <<got, ended, cancelled>>

Receive ==
    /\ ~ended /\ ~Failed /\ Len(got) < sent
    /\ got' = Append(got, Len(got) + 1)
    /\ UNCHANGED <<sent, last, ended, cancelled>>

Fail ==
    /\ ~ended /\ ~Failed /\ Complete
    /\ got' = Append(got, Error)
    /\ UNCHANGED <<sent, last, ended, cancelled>>

End ==
    /\ ~ended
    /\ Failed \/ cancelled \/ (last /\ Complete)
    /\ ended' = TRUE
    /\ UNCHANGED <<sent, last, got, cancelled>>

Cancel == cancelled' = TRUE /\ UNCHANGED <<sent, last, got, ended>>

Next == HostSends \/ Receive \/ Fail \/ End \/ Cancel

Spec == Init /\ [][Next]_vars
=============================================================================
