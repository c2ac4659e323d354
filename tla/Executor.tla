------------------------------ MODULE Executor -----------------------------
(***************************************************************************)
(* callOnce (executor.go): concurrent requests that fail over across the   *)
(* key pool, while admin operations change the pool under them.            *)
(*                                                                         *)
(* A request reads the pool once (members, under cfg.mu), orders it once   *)
(* (selectMembersOrder, under wrrMu) and then walks its own copy, so the   *)
(* steps of a request are Begin, Select and one Answer per upstream call;  *)
(* the call itself touches nothing shared.  The host's client is outside   *)
(* this repository and may answer anything.  The context is never          *)
(* cancelled: the ABI passes context.Background (abi.go).  Of an admin     *)
(* operation only the critical section matters here; what it persists is   *)
(* AccountStore's.                                                         *)
(***************************************************************************)
EXTENDS KeySelection

CONSTANTS
    Requests,     \* the requests that can be in progress at once
    InitialPools  \* the pools the plugin may be configured with

ASSUME InitialPoolsAssumption == InitialPools \subseteq Pool

VARIABLES
    pool,    \* cfg.APIKeys and cfg.APIKey
    credit,  \* wrrCur
    calls    \* the local state of each request's callOnce

vars == <<pool, credit, calls>>

\* What one upstream call brings: a 2xx answer, a status that retryableStatus
\* accepts, any other status, or a transport error.
Answers == {"ok", "retryable", "final", "transport"}

Idle == [pc |-> "idle", members |-> <<>>, candidates |-> <<>>,
         answers |-> <<>>, result |-> "none"]

Init ==
    /\ pool \in InitialPools
    /\ credit = [k \in Keys |-> 0]
    /\ calls = [r \in Requests |-> Idle]

Begin(r) ==
    /\ calls[r].pc = "idle"
    /\ calls' = [calls EXCEPT ![r] =
          IF Members(pool) = <<>>
          THEN [Idle EXCEPT !.pc = "done", !.result = "unauthorized"]
          ELSE [Idle EXCEPT !.pc = "select", !.members = Members(pool)]]
    /\ UNCHANGED <<pool, credit>>

Select(r) ==
    LET members == calls[r].members IN
    /\ calls[r].pc = "select"
    /\ credit' = CreditAfter(credit, members)
    /\ calls' = [calls EXCEPT ![r].pc = "call", ![r].candidates = Candidates(credit, members)]
    /\ UNCHANGED pool

\* Mutants of MovesOn: every failing status is retried, or none is.
MovesOnAlways(c, a)  == a # "ok" /\ Len(c.answers) + 1 < Len(c.candidates)
MovesOnRarely(c, a)  == a = "transport" /\ Len(c.answers) + 1 < Len(c.candidates)

\* After a transport error, or a retryable status when there was a choice, the
\* next candidate is tried if there is one.
MovesOn(c, a) ==
    /\ a = "transport" \/ (a = "retryable" /\ Len(c.candidates) > 1)
    /\ Len(c.answers) + 1 < Len(c.candidates)

\* What callOnce returns for the answer it ends with; Begin returns the 401 of an
\* empty pool.
ResultOf(a) == IF a \in {"retryable", "final"} THEN "status" ELSE a

Answer(r, a) ==
    LET c == calls[r] IN
    /\ c.pc = "call"
    /\ calls' = [calls EXCEPT
          ![r].answers = Append(@, a),
          ![r].pc      = IF MovesOn(c, a) THEN @ ELSE "done",
          ![r].result  = IF MovesOn(c, a) THEN @ ELSE ResultOf(a)]
    /\ UNCHANGED <<pool, credit>>

\* The reply leaves the plugin and the host may send the next request.
Reply(r) ==
    /\ calls[r].pc = "done"
    /\ calls' = [calls EXCEPT ![r] = Idle]
    /\ UNCHANGED <<pool, credit>>

\* The admin operations, as far as the pool.
Admin ==
    /\ \/ \E k \in Keys, w \in 1..MaxWeight, l \in Labels : pool' = AddAccount(pool, k, w, l)
       \/ \E k \in Keys, w \in Weights, d \in {{}, {TRUE}, {FALSE}} :
             CanUpdate(pool, k) /\ pool' = UpdateAccount(pool, k, w, NoLabel, d)
       \/ \E k \in Keys : CanToggle(pool, k) /\ pool' = ToggleAccount(pool, k)
       \/ \E k \in Keys : pool' = RemoveAccount(pool, k)
    /\ UNCHANGED <<credit, calls>>

Next ==
    \/ \E r \in Requests : \/ Begin(r) \/ Select(r) \/ Reply(r)
                           \/ \E a \in Answers : Answer(r, a)
    \/ Admin

Spec == Init /\ [][Next]_vars

-----------------------------------------------------------------------------
\* The members a request has tried so far, in order.
Tried(c) == [i \in DOMAIN c.answers |-> c.candidates[i]]
Enabled(members) == {members[i].key : i \in {j \in DOMAIN members : ~members[j].disabled}}

\* A request fails over without repeating a key and without skipping one: it
\* gives up on a failure another key could still have saved only when every
\* key that was enabled when it read the pool has failed (callOnce's loop).
FailoverCoversPool ==
    \A r \in Requests :
        LET c == calls[r] IN
        /\ Distinct(Tried(c))
        /\ c.result \in {"status", "transport"} /\ Last(c.answers) # "final" =>
              KeysOf(Tried(c)) = IF Enabled(c.members) = {} THEN KeysOf(c.members)
                                                            ELSE Enabled(c.members)

\* An answer is never thrown away: a request that upstream served stops there,
\* and no request tries another key after a status that rules them all out.
StopsAtAnswer ==
    \A r \in Requests : \A i \in DOMAIN calls[r].answers :
        calls[r].answers[i] \in {"ok", "final"} =>
            /\ i = Len(calls[r].answers) /\ calls[r].pc = "done"
            /\ calls[r].result = ResultOf(calls[r].answers[i])

\* Credit is only moved between keys, also by selections over pools that
\* changed in between (wrrCur).
CreditConserved == SumFunction(credit) = 0
=============================================================================
