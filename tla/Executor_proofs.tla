-------------------------- MODULE Executor_proofs --------------------------
(***************************************************************************)
(* Proofs about Executor, for every set of requests, keys and weights and  *)
(* every pool the requests start from.                                     *)
(***************************************************************************)
EXTENDS Executor, KeySelection_proofs

\* What callOnce may come to: nothing yet, the answer, an upstream status, a
\* transport error, or the 401 for an empty pool.
Results == {"none", "ok", "status", "transport", "unauthorized"}

\* What the proof needs of a request's local state: its fields, and
\* answers that are answers.
Local(M, O) == [pc : {"idle", "select", "call", "done"}, members : M, candidates : O,
                answers : Seq(Answers), result : Results]
Shape(c) == \E M, O : c \in Local(M, O)

Shapes ==
    /\ DOMAIN calls = Requests /\ calls = [r \in Requests |-> calls[r]]
    /\ \A r \in Requests : Shape(calls[r])

Stops(c) ==
    \A i \in DOMAIN c.answers :
        c.answers[i] \in {"ok", "final"} =>
            /\ i = Len(c.answers) /\ c.pc = "done"
            /\ c.result = ResultOf(c.answers[i])

\* A request that has nothing to give back has not been answered.
LEMMA FreshStops ==
    ASSUME NEW c, c.answers = <<>>
    PROVE  Stops(c)
BY DEF Stops

\* An idle request has no answers.
LEMMA IdleShape == Idle \in Local({<<>>}, {<<>>}) /\ Idle.answers = <<>>
BY EmptySeq DEF Idle, Local, Results

\* The request that changes is r; the others stay as they are.
LEMMA OneCall ==
    ASSUME Shapes, StopsAtAnswer, NEW r \in Requests, NEW c,
           calls' = [calls EXCEPT ![r] = c],
           Shape(c), Stops(c)
    PROVE  Shapes' /\ StopsAtAnswer'
<1>1. \A q \in Requests : calls'[q] = IF q = r THEN c ELSE calls[q]
  BY DEF Shapes
<1>2. Shapes'
  BY <1>1 DEF Shapes
<1>3. ASSUME NEW q \in Requests PROVE Stops(calls'[q])
  <2>1. CASE q = r
    BY <2>1, <1>1
  <2>2. CASE q # r
    <3>1. Stops(calls[q])
      BY DEF StopsAtAnswer, Stops
    <3> QED
      BY <3>1, <2>2, <1>1
  <2> QED
    BY <2>1, <2>2
<1>4. StopsAtAnswer'
  BY <1>3 DEF StopsAtAnswer, Stops
<1> QED
  BY <1>2, <1>4

\* A request that begins has no answers.
LEMMA BeginStops ==
    ASSUME Shapes, StopsAtAnswer, NEW r \in Requests, Begin(r)
    PROVE  Shapes' /\ StopsAtAnswer'
<1> DEFINE unauthorized == [Idle EXCEPT !.pc = "done", !.result = "unauthorized"]
           started == [Idle EXCEPT !.pc = "select", !.members = Members(pool)]
<1>1. /\ Shape(unauthorized) /\ unauthorized.answers = <<>>
      /\ Shape(started) /\ started.answers = <<>>
  <2>1. unauthorized \in Local({<<>>}, {<<>>}) /\ unauthorized.answers = <<>>
    BY IdleShape DEF Local, Results
  <2>2. started \in Local({Members(pool)}, {<<>>}) /\ started.answers = <<>>
    <3> HIDE DEF Members
    <3> QED
      BY IdleShape DEF Local, Results
  <2> HIDE DEF unauthorized, started
  <2> QED
    BY <2>1, <2>2 DEF Shape
<1>2. PICK c \in {unauthorized, started} : calls' = [calls EXCEPT ![r] = c]
  BY DEF Begin
<1> QED
  BY <1>1, <1>2, FreshStops, OneCall

\* A request that has not been ordered yet may still hold no answer that ends
\* it: it would be done.
LEMMA SelectStops ==
    ASSUME Shapes, StopsAtAnswer, NEW r \in Requests, Select(r)
    PROVE  Shapes' /\ StopsAtAnswer'
<1> DEFINE order == Candidates(credit, calls[r].members)
           c == [calls[r] EXCEPT !.pc = "call", !.candidates = order]
<1> HIDE DEF order
<1>1. calls' = [calls EXCEPT ![r] = c] /\ calls[r].pc = "select"
  BY DEF Select, Shapes, order
<1>2. PICK M, O : calls[r] \in Local(M, O)
  BY DEF Shapes, Shape
<1>3. Shape(c) /\ c.answers = calls[r].answers
  <2>1. c \in Local(M, {order}) /\ c.answers = calls[r].answers
    BY <1>2 DEF Local
  <2> HIDE DEF c
  <2> QED
    BY <2>1 DEF Shape
<1>4. Stops(c)
  BY <1>1, <1>3 DEF StopsAtAnswer, Stops
<1> QED
  BY <1>1, <1>3, <1>4, OneCall

\* The answers before this one would have ended the request; this one does if
\* it is an answer or a final status, whatever the pool.
LEMMA AnswerStops ==
    ASSUME Shapes, StopsAtAnswer, NEW r \in Requests, NEW a \in Answers, Answer(r, a)
    PROVE  Shapes' /\ StopsAtAnswer'
<1> DEFINE old == calls[r]
           goes == IF MovesOn(old, a) THEN old.pc ELSE "done"
           gives == IF MovesOn(old, a) THEN old.result ELSE ResultOf(a)
           c == [old EXCEPT !.answers = Append(@, a), !.pc = goes, !.result = gives]
<1>1. calls' = [calls EXCEPT ![r] = c] /\ old.pc = "call"
  BY DEF Answer, Shapes
<1>2. PICK M, O : old \in Local(M, O)
  BY DEF Shapes, Shape
<1> DEFINE s == old.answers
<1>3. s \in Seq(Answers)
  BY <1>2 DEF Local
<1>4. /\ Len(s) \in Nat
      /\ DOMAIN s = 1..Len(s)
      /\ Append(s, a) \in Seq(Answers)
      /\ DOMAIN Append(s, a) = 1..(Len(s) + 1)
      /\ Len(Append(s, a)) = Len(s) + 1
      /\ \A i \in 1..Len(s) : Append(s, a)[i] = s[i]
      /\ Append(s, a)[Len(s) + 1] = a
  BY <1>3, AppendProperties, LenProperties
<1>5. Shape(c) /\ c.answers = Append(s, a) /\ c.pc = goes /\ c.result = gives
  <2>1. goes \in {old.pc, "done"} /\ gives \in {old.result, ResultOf(a)}
    OBVIOUS
  <2>2. ResultOf(a) \in Results
    BY DEF ResultOf, Results, Answers
  <2> HIDE DEF goes, gives, old
  <2>3. /\ c \in Local(M, O)
        /\ c.answers = Append(s, a) /\ c.pc = goes /\ c.result = gives
    BY <1>2, <1>4, <2>1, <2>2 DEF Local
  <2> HIDE DEF c
  <2> QED
    BY <2>3 DEF Shape
<1>6. \A i \in DOMAIN old.answers : old.answers[i] \notin {"ok", "final"}
  BY <1>1 DEF StopsAtAnswer
<1>7. a \in {"ok", "final"} => ~MovesOn(old, a)
  BY DEF MovesOn
<1>8. Stops(c)
  <2> SUFFICES ASSUME NEW i \in DOMAIN c.answers, c.answers[i] \in {"ok", "final"}
               PROVE  i = Len(c.answers) /\ c.pc = "done" /\ c.result = ResultOf(c.answers[i])
    BY DEF Stops
  <2> HIDE DEF c, old
  <2>1. i = Len(s) + 1
    BY <1>4, <1>5, <1>6
  <2>2. c.answers[i] = a
    BY <2>1, <1>4, <1>5
  <2> QED
    BY <2>1, <2>2, <1>4, <1>5, <1>7
<1> QED
  BY <1>1, <1>5, <1>8, OneCall

\* Nor has one that has replied.
LEMMA ReplyStops ==
    ASSUME Shapes, StopsAtAnswer, NEW r \in Requests, Reply(r)
    PROVE  Shapes' /\ StopsAtAnswer'
<1>1. Shape(Idle) /\ Stops(Idle)
  BY IdleShape, FreshStops DEF Shape
<1> QED
  BY <1>1, OneCall DEF Reply

\* Every request starts idle.
LEMMA StopsInit == Init => Shapes /\ StopsAtAnswer
<1> SUFFICES ASSUME Init PROVE Shapes /\ StopsAtAnswer
  OBVIOUS
<1>1. \A r \in Requests : calls[r] = Idle
  BY DEF Init
<1>2. Shapes
  BY <1>1, IdleShape DEF Init, Shapes, Shape
<1> QED
  BY <1>1, <1>2, IdleShape DEF StopsAtAnswer

\* Every step keeps StopsAtAnswer and the shapes it rests on.
LEMMA StopsNext ==
    ASSUME Shapes, StopsAtAnswer, [Next]_vars
    PROVE  Shapes' /\ StopsAtAnswer'
<1>1. ASSUME NEW r \in Requests, Begin(r) PROVE Shapes' /\ StopsAtAnswer'
  BY <1>1, BeginStops
<1>2. ASSUME NEW r \in Requests, Select(r) PROVE Shapes' /\ StopsAtAnswer'
  BY <1>2, SelectStops
<1>3. ASSUME NEW r \in Requests, Reply(r) PROVE Shapes' /\ StopsAtAnswer'
  BY <1>3, ReplyStops
<1>4. ASSUME NEW r \in Requests, NEW a \in Answers, Answer(r, a)
      PROVE  Shapes' /\ StopsAtAnswer'
  BY <1>4, AnswerStops
<1>5. CASE calls' = calls
  BY <1>5 DEF Shapes, StopsAtAnswer
<1> QED
  BY <1>1, <1>2, <1>3, <1>4, <1>5 DEF Next, Admin, vars

\* An answer is never thrown away and a final status never retried, for any
\* number of concurrent requests over any pool that changes in any way
\* (callOnce).
THEOREM StopsAtAnswerAlways == Spec => []StopsAtAnswer
<1>1. Init => Shapes /\ StopsAtAnswer
  BY StopsInit
<1>2. Shapes /\ StopsAtAnswer /\ [Next]_vars => (Shapes /\ StopsAtAnswer)'
  BY StopsNext
<1> QED
  BY <1>1, <1>2, PTL DEF Spec

-----------------------------------------------------------------------------
(***************************************************************************)
(* What the requests walk through: candidates that are the active members  *)
(* of the pool as the request has read it.                                 *)
(***************************************************************************)

\* c has the candidates of its own members, and n answers of them.
Ordered(c) ==
    /\ Scheduled(c.members)
    /\ c.candidates \in Seq(Member) /\ Distinct(c.candidates)
    /\ KeysOf(c.candidates) = KeysOf(Active(c.members))
    /\ c.answers \in Seq(Answers) /\ Len(c.answers) <= Len(c.candidates)

Walk(c) ==
    /\ c.pc \in {"idle", "select"} => c.answers = <<>> /\ c.result = "none"
    /\ c.pc = "select" => Scheduled(c.members)
    /\ c.pc = "call" => Ordered(c) /\ Len(c.answers) < Len(c.candidates) /\ c.result = "none"
    /\ c.pc = "done" =>
         \/ c.answers = <<>> /\ c.result = "unauthorized"
         \/ /\ Ordered(c)
            /\ c.result \in {"status", "transport"} /\ Last(c.answers) # "final" =>
                  Len(c.answers) = Len(c.candidates)

Walks ==
    /\ pool \in Pool /\ credit \in Credits /\ SumFunctionOnSet(credit, Keys) = 0
    /\ \A r \in Requests : Walk(calls[r])

\* The request that changes is r.
LEMMA OneWalk ==
    ASSUME Shapes, Walks, NEW r \in Requests, NEW c, calls' = [calls EXCEPT ![r] = c], Walk(c)
    PROVE  \A q \in Requests : Walk(calls'[q])
<1>1. \A q \in Requests : calls'[q] = IF q = r THEN c ELSE calls[q]
  BY DEF Shapes
<1> QED
  BY <1>1 DEF Walks

\* A request begins over a pool that can be scheduled.
LEMMA BeginWalks ==
    ASSUME Shapes, Walks, NEW r \in Requests, Begin(r)
    PROVE  Walks'
<1> DEFINE unauthorized == [Idle EXCEPT !.pc = "done", !.result = "unauthorized"]
           started == [Idle EXCEPT !.pc = "select", !.members = Members(pool)]
<1>1. Walk(unauthorized)
  BY DEF Walk, Idle
<1>2. CASE Members(pool) = <<>>
  <2>1. calls' = [calls EXCEPT ![r] = unauthorized]
    BY <1>2 DEF Begin
  <2> HIDE DEF unauthorized
  <2> QED
    BY <1>1, <2>1, OneWalk DEF Begin, Walks
<1>3. CASE Members(pool) # <<>>
  <2>1. calls' = [calls EXCEPT ![r] = started]
    BY <1>3 DEF Begin
  <2>2. Walk(started)
    <3>1. Scheduled(Members(pool))
      BY <1>3, MembersScheduled DEF Walks
    <3> HIDE DEF Members
    <3> QED
      BY <3>1 DEF Walk, Idle
  <2> HIDE DEF started
  <2> QED
    BY <2>1, <2>2, OneWalk DEF Begin, Walks
<1> QED
  BY <1>2, <1>3

\* A request is ordered, and the credits keep their sum.
LEMMA SelectWalks ==
    ASSUME Shapes, Walks, NEW r \in Requests, Select(r)
    PROVE  Walks'
<1> DEFINE old == calls[r]
           order == Candidates(credit, old.members)
           c == [old EXCEPT !.pc = "call", !.candidates = order]
<1>1. /\ calls' = [calls EXCEPT ![r] = c] /\ old.pc = "select" /\ pool' = pool
      /\ credit' = CreditAfter(credit, old.members)
  BY DEF Select, Shapes
<1>2. Scheduled(old.members) /\ old.answers = <<>> /\ old.result = "none" /\ credit \in Credits
  BY <1>1 DEF Walks, Walk
<1>3. PICK M, O : old \in Local(M, O)
  BY DEF Shapes, Shape
<1> HIDE DEF old
<1>4. /\ order \in Seq(Member) /\ Len(order) = Len(Active(old.members)) /\ order # <<>>
      /\ Distinct(order) /\ KeysOf(order) = KeysOf(Active(old.members))
  BY <1>2, CandidatesAre
<1> HIDE DEF order
<1>5. c.pc = "call" /\ c.candidates = order /\ c.members = old.members
      /\ c.answers = <<>> /\ c.result = "none"
  BY <1>2, <1>3 DEF Local
<1> HIDE DEF c
<1>6. Walk(c)
  <2>1. <<>> \in Seq(Answers) /\ Len(<<>>) = 0 /\ Len(order) \in Nat \ {0}
    BY <1>4, EmptySeq
  <2> QED
    BY <1>2, <1>4, <1>5, <2>1 DEF Walk, Ordered
<1>7. \A q \in Requests : Walk(calls'[q])
  BY <1>1, <1>6, OneWalk
<1>8. credit' \in Credits /\ SumFunctionOnSet(credit', Keys) = 0
  BY <1>1, <1>2, CreditAfterIs, CreditAfterKeeps DEF Walks
<1> QED
  BY <1>1, <1>7, <1>8 DEF Walks

\* A request moves on to the next candidate as long as there is one, unless
\* the answer rules it out.
LEMMA AnswerWalks ==
    ASSUME Shapes, Walks, NEW r \in Requests, NEW a \in Answers, Answer(r, a)
    PROVE  Walks'
<1> DEFINE old == calls[r]
           goes == IF MovesOn(old, a) THEN old.pc ELSE "done"
           gives == IF MovesOn(old, a) THEN old.result ELSE ResultOf(a)
           c == [old EXCEPT !.answers = Append(@, a), !.pc = goes, !.result = gives]
           s == old.answers
<1>1. calls' = [calls EXCEPT ![r] = c] /\ old.pc = "call" /\ pool' = pool /\ credit' = credit
  BY DEF Answer, Shapes
<1>2. Ordered(old) /\ Len(s) < Len(old.candidates) /\ old.result = "none"
  BY <1>1 DEF Walks, Walk
<1>3. PICK M, O : old \in Local(M, O)
  BY DEF Shapes, Shape
<1>4. /\ s \in Seq(Answers) /\ Len(s) \in Nat /\ Len(old.candidates) \in Nat
      /\ Append(s, a) \in Seq(Answers) /\ Len(Append(s, a)) = Len(s) + 1
      /\ Last(Append(s, a)) = a
  <2>1. s \in Seq(Answers) /\ Len(s) \in Nat /\ Len(old.candidates) \in Nat
    BY <1>2 DEF Ordered
  <2>2. /\ Append(s, a) \in Seq(Answers) /\ Len(Append(s, a)) = Len(s) + 1
        /\ Append(s, a)[Len(s) + 1] = a
    BY <2>1, AppendProperties
  <2> QED
    BY <2>1, <2>2 DEF Last
<1> HIDE DEF old
<1>5. /\ c.members = old.members /\ c.candidates = old.candidates
      /\ c.answers = Append(s, a) /\ c.pc = goes /\ c.result = gives
  <2> HIDE DEF goes, gives
  <2> QED
    BY <1>3 DEF Local
<1> HIDE DEF c, s
<1>6. Ordered(c)
  BY <1>2, <1>4, <1>5 DEF Ordered, s
<1>7. CASE MovesOn(old, a)
  <2>1. c.pc = "call" /\ c.result = "none" /\ Len(c.answers) < Len(c.candidates)
    BY <1>1, <1>2, <1>4, <1>5, <1>7 DEF MovesOn, s, old
  <2>2. Walk(c)
    BY <1>6, <2>1 DEF Walk
  <2> QED
    BY <1>1, <2>2, OneWalk DEF Walks
<1>8. CASE ~MovesOn(old, a)
  <2>1. c.pc = "done" /\ c.result = ResultOf(a) /\ Last(c.answers) = a
    BY <1>4, <1>5, <1>8
  <2>2. ASSUME c.result \in {"status", "transport"}, a # "final"
        PROVE  Len(c.answers) = Len(c.candidates)
    <3>1. a \in {"retryable", "transport"}
      BY <2>1, <2>2 DEF ResultOf, Answers
    <3>2. ~(Len(s) + 1 < Len(old.candidates))
      BY <3>1, <1>2, <1>4, <1>8 DEF MovesOn, s
    <3> QED
      BY <3>2, <1>2, <1>4, <1>5
  <2>3. Walk(c)
    BY <1>6, <2>1, <2>2 DEF Walk
  <2> QED
    BY <1>1, <2>3, OneWalk DEF Walks
<1> QED
  BY <1>7, <1>8

\* The admin operations keep the pool a pool.
LEMMA AdminKeepsPool ==
    ASSUME pool \in Pool, Admin
    PROVE  pool' \in Pool
<1>1. \A w \in 1..MaxWeight : w \in Weights
  BY PoolAssumption DEF Weights
<1>2. \A l \in Labels : l \in Labels \cup {NoLabel}
  OBVIOUS
<1>3. \A d \in {{}, {TRUE}, {FALSE}} : d \in Flags
  BY DEF Flags
<1>4. CASE \E k \in Keys, w \in 1..MaxWeight, l \in Labels : pool' = AddAccount(pool, k, w, l)
  BY <1>1, <1>4, AddAccountIs
<1>5. CASE \E k \in Keys, w \in Weights, d \in {{}, {TRUE}, {FALSE}} :
              CanUpdate(pool, k) /\ pool' = UpdateAccount(pool, k, w, NoLabel, d)
  <2>1. PICK k \in Keys, w \in Weights, d \in Flags :
           pool' = UpdateAccount(pool, k, w, NoLabel, d)
    BY <1>5 DEF Flags
  <2> QED
    BY <2>1, UpdateAccountIs
<1>6. CASE \E k \in Keys : CanToggle(pool, k) /\ pool' = ToggleAccount(pool, k)
  BY <1>6, ToggleAccountIs
<1>7. CASE \E k \in Keys : pool' = RemoveAccount(pool, k)
  BY <1>7, RemoveAccountIs
<1> QED
  BY <1>4, <1>5, <1>6, <1>7 DEF Admin

\* Every request walks its candidates; no request and no admin operation
\* changes the sum of the credits.
LEMMA WalksInvariant == Init /\ [][Next]_vars => [](Shapes /\ Walks)
<1>1. Init => Shapes /\ Walks
  <2> SUFFICES ASSUME Init PROVE Shapes /\ Walks
    OBVIOUS
  <2>1. Shapes
    BY StopsInit
  <2>2. \A r \in Requests : Walk(calls[r])
    BY DEF Init, Walk, Idle
  <2>3. credit \in Credits /\ SumFunctionOnSet(credit, Keys) = 0
    <3>1. \A k \in Keys : credit[k] = 0
      BY DEF Init
    <3>2. Summable(credit, Keys) /\ NoKey \notin Keys /\ \A k \in Keys : k # NoKey => credit[k] = 0
      BY <3>1, PoolAssumption DEF Summable
    <3>3. SumFunctionOnSet(credit, Keys) = 0
      BY <3>2, SumSingle
    <3> QED
      BY <3>3 DEF Init, Credits
  <2> QED
    BY <2>1, <2>2, <2>3, InitialPoolsAssumption DEF Walks, Init
<1>2. Shapes /\ StopsAtAnswer /\ Walks /\ [Next]_vars => Walks'
  <2> SUFFICES ASSUME Shapes, Walks, [Next]_vars PROVE Walks'
    OBVIOUS
  <2>1. ASSUME NEW r \in Requests, Begin(r) PROVE Walks'
    BY <2>1, BeginWalks
  <2>2. ASSUME NEW r \in Requests, Select(r) PROVE Walks'
    BY <2>2, SelectWalks
  <2>3. ASSUME NEW r \in Requests, NEW a \in Answers, Answer(r, a) PROVE Walks'
    BY <2>3, AnswerWalks
  <2>4. ASSUME NEW r \in Requests, Reply(r) PROVE Walks'
    <3>1. Walk(Idle)
      BY DEF Walk, Idle
    <3>2. calls' = [calls EXCEPT ![r] = Idle] /\ pool' = pool /\ credit' = credit
      BY <2>4 DEF Reply
    <3> QED
      BY <3>1, <3>2, OneWalk DEF Walks
  <2>5. CASE Admin
    <3>1. credit' = credit /\ calls' = calls
      BY <2>5 DEF Admin
    <3>2. pool' \in Pool
      BY <2>5, AdminKeepsPool DEF Walks
    <3> QED
      BY <3>1, <3>2 DEF Walks
  <2>6. CASE UNCHANGED vars
    BY <2>6 DEF vars, Walks
  <2> QED
    BY <2>1, <2>2, <2>3, <2>4, <2>5, <2>6 DEF Next
<1>3. Shapes /\ StopsAtAnswer /\ [Next]_vars => (Shapes /\ StopsAtAnswer)'
  BY StopsNext
<1>4. Init => Shapes /\ StopsAtAnswer
  BY StopsInit
<1> QED
  BY <1>1, <1>2, <1>3, <1>4, PTL

\* Credit is only moved between keys, by any number of concurrent requests
\* over pools that change in between (wrrCur).
THEOREM CreditConservedAlways == Spec => []CreditConserved
<1>1. Walks => CreditConserved
  <2> SUFFICES ASSUME Walks PROVE SumFunction(credit) = 0
    BY DEF CreditConserved
  <2>1. DOMAIN credit = Keys /\ SumFunctionOnSet(credit, Keys) = 0
    BY DEF Walks, Credits
  <2> QED
    BY <2>1 DEF SumFunction
<1> QED
  BY <1>1, WalksInvariant, PTL DEF Spec

\* The active members are the enabled ones, or all when none is.
LEMMA ActiveKeys ==
    ASSUME NEW s, Scheduled(s)
    PROVE  KeysOf(Active(s)) = IF Enabled(s) = {} THEN KeysOf(s) ELSE Enabled(s)
<1> DEFINE a == Active(s)
<1>1. /\ \A i \in DOMAIN a : \E j \in DOMAIN s : a[i] = s[j]
      /\ \A j \in DOMAIN s : ~s[j].disabled => \E i \in DOMAIN a : a[i] = s[j]
      /\ KeysOf(a) # {}
  <2>1. Scheduled(a)
    BY ActiveScheduled
  <2>2. KeysOf(a) # {}
    <3> HIDE DEF a
    <3> QED
      BY <2>1, MemberFacts
  <2> QED
    BY <2>2, ActiveScheduled
<1>2. \/ a = s /\ \A i \in DOMAIN s : s[i].disabled
      \/ \A i \in DOMAIN a : ~a[i].disabled
  BY ActiveEnabled
<1> HIDE DEF a
<1>3. CASE a = s /\ \A i \in DOMAIN s : s[i].disabled
  <2>1. Enabled(s) = {}
    BY <1>3 DEF Enabled
  <2> QED
    BY <1>3, <2>1 DEF a
<1>4. CASE \A i \in DOMAIN a : ~a[i].disabled
  <2>1. KeysOf(a) \subseteq Enabled(s)
    BY <1>1, <1>4 DEF KeysOf, Enabled
  <2>2. Enabled(s) \subseteq KeysOf(a)
    BY <1>1 DEF KeysOf, Enabled
  <2> QED
    BY <2>1, <2>2, <1>1 DEF a
<1> QED
  BY <1>2, <1>3, <1>4

\* A request repeats no key and gives up only when every key that was enabled
\* when it read the pool has failed, whatever happens to the pool meanwhile
\* (callOnce's loop).
THEOREM FailoverCoversPoolAlways == Spec => []FailoverCoversPool
<1>1. Shapes /\ Walks => FailoverCoversPool
  <2> SUFFICES ASSUME Shapes, Walks, NEW r \in Requests
               PROVE  LET c == calls[r] IN
                      /\ Distinct(Tried(c))
                      /\ c.result \in {"status", "transport"} /\ Last(c.answers) # "final" =>
                           KeysOf(Tried(c)) = IF Enabled(c.members) = {} THEN KeysOf(c.members)
                                                                         ELSE Enabled(c.members)
    BY DEF FailoverCoversPool
  <2> DEFINE c == calls[r]
  <2>1. Walk(c) /\ c.pc \in {"idle", "select", "call", "done"}
    BY DEF Walks, Shapes, Shape, Local
  <2> HIDE DEF c
  <2>2. CASE Ordered(c)
    <3>1. /\ DOMAIN c.answers = 1..Len(c.answers) /\ DOMAIN c.candidates = 1..Len(c.candidates)
          /\ Len(c.answers) \in Nat /\ Len(c.candidates) \in Nat
          /\ Len(c.answers) <= Len(c.candidates)
      BY <2>2 DEF Ordered
    <3>2. Distinct(Tried(c))
      BY <2>2, <3>1 DEF Ordered, Distinct, Tried
    <3>3. ASSUME Len(c.answers) = Len(c.candidates)
          PROVE  KeysOf(Tried(c)) = KeysOf(Active(c.members))
      <4>1. KeysOf(Tried(c)) = KeysOf(c.candidates)
        BY <3>1, <3>3 DEF KeysOf, Tried
      <4> QED
        BY <4>1, <2>2 DEF Ordered
    <3>4. c.result \in {"status", "transport"} /\ Last(c.answers) # "final" =>
             Len(c.answers) = Len(c.candidates)
      BY <2>1 DEF Walk
    <3>5. KeysOf(Active(c.members)) =
             IF Enabled(c.members) = {} THEN KeysOf(c.members) ELSE Enabled(c.members)
      BY <2>2, ActiveKeys DEF Ordered
    <3> QED
      BY <3>2, <3>3, <3>4, <3>5 DEF c
  <2>3. CASE ~Ordered(c)
    <3>1. c.answers = <<>> /\ c.result \notin {"status", "transport"}
      BY <2>1, <2>3 DEF Walk
    <3>2. Distinct(Tried(c))
      BY <3>1 DEF Distinct, Tried
    <3> QED
      BY <3>1, <3>2 DEF c
  <2> QED
    BY <2>2, <2>3
<1> QED
  BY <1>1, WalksInvariant, PTL DEF Spec
=============================================================================
