------------------------ MODULE KeyScheduler_proofs ------------------------
(***************************************************************************)
(* The scheduler is fair over an unchanged pool, and no sequence of        *)
(* changes to the pool makes the credits grow without limit.               *)
(***************************************************************************)
EXTENDS KeyScheduler, KeySelection_proofs

-----------------------------------------------------------------------------
(***************************************************************************)
(* The lists of members, and the history variables' types.                 *)
(***************************************************************************)

WeightsIn(s, W) == \A i \in DOMAIN s : s[i].weight \in W

ListInv ==
    /\ Scheduled(members)
    /\ taken # <<>> => Scheduled(taken) /\ KeysOf(taken) = KeysOf(members)
    /\ adjusted \in BOOLEAN
    /\ ~adjusted => taken \in {<<>>, members}
    /\ adjusted => WeightsIn(members, NewWeights) /\ WeightsIn(taken, NewWeights)
    /\ credit \in Credits
    /\ rounds \in Nat /\ picks \in [Keys -> Nat]

\* A list t with the entries of s, but for labels, flags and weights from W.
Reworked(t, s, W) ==
    /\ t \in Seq(Member) /\ DOMAIN t = DOMAIN s
    /\ \A i \in DOMAIN s : /\ t[i].key = s[i].key
                           /\ t[i].weight > 0
                           /\ t[i].weight = s[i].weight \/ t[i].weight \in W

\* It can be scheduled like s.
LEMMA ReworkedScheduled ==
    ASSUME NEW s, Scheduled(s), NEW t, NEW W, Reworked(t, s, W)
    PROVE  /\ Scheduled(t) /\ KeysOf(t) = KeysOf(s) /\ Len(t) = Len(s)
           /\ WeightsIn(s, W) => WeightsIn(t, W)
<1>1. DOMAIN s = 1..Len(s) /\ DOMAIN t = 1..Len(t) /\ Len(t) \in Nat /\ Len(s) \in Nat \ {0}
  BY MemberFacts DEF Reworked
<1>2. Len(t) = Len(s)
  BY <1>1 DEF Reworked
<1>3. Scheduled(t)
  BY <1>1, <1>2 DEF Scheduled, Reworked, Distinct
<1>4. KeysOf(t) = KeysOf(s)
  BY DEF KeysOf, Reworked
<1>5. WeightsIn(s, W) => WeightsIn(t, W)
  BY DEF WeightsIn, Reworked
<1> QED
  BY <1>2, <1>3, <1>4, <1>5

\* The admin's changes are such.
LEMMA AdjustReworks ==
    ASSUME Scheduled(members), NEW k \in Keys, Adjust(k)
    PROVE  Reworked(members', members, NewWeights)
<1> DEFINE pool == [keys |-> members, legacy |-> NoKey]
<1>1. DOMAIN members = 1..Len(members) /\ Len(members) \in Nat
      /\ \A i \in DOMAIN members : members[i] \in Member /\ members[i].weight > 0
  BY MemberFacts DEF Scheduled
<1>2. CASE members' = Members(ToggleAccount(pool, k))
  <2> DEFINE q == [i \in DOMAIN members |->
                     IF members[i].key = k THEN [members[i] EXCEPT !.disabled = ~@] ELSE members[i]]
  <2>1. ToggleAccount(pool, k) = [keys |-> q, legacy |-> NoKey]
    BY DEF ToggleAccount, ChangeEntry
  <2>2. \A i \in DOMAIN members : q[i] \in Member /\ q[i].key = members[i].key
                                  /\ q[i].weight = members[i].weight
    BY <1>1 DEF Member
  <2> HIDE DEF q
  <2>3. members' = [i \in DOMAIN q |-> [q[i] EXCEPT !.weight = IF @ = 0 THEN 1 ELSE @]]
    BY <1>2, <2>1 DEF Members
  <2>4. DOMAIN q = DOMAIN members
    BY DEF q
  <2>5. \A i \in DOMAIN members : members'[i] = q[i]
    BY <1>1, <2>2, <2>3, <2>4 DEF Member
  <2>6. members' \in Seq(Member) /\ DOMAIN members' = DOMAIN members
    BY <1>1, <2>2, <2>3, <2>4, <2>5
  <2> QED
    BY <1>1, <2>2, <2>5, <2>6 DEF Reworked
<1>3. ASSUME NEW w \in NewWeights, CanUpdate(pool, k),
             members' = Members(UpdateAccount(pool, k, w, NoLabel, {}))
      PROVE  Reworked(members', members, NewWeights)
  <2> DEFINE q == [i \in DOMAIN members |->
                     IF members[i].key = k THEN [members[i] EXCEPT !.weight = w] ELSE members[i]]
  <2>1. w \in Weights /\ w \in Nat /\ w > 0
    BY PoolsAssumption, PoolAssumption DEF Weights
  <2>2. Has(pool, k)
    BY <1>3, PoolAssumption DEF CanUpdate
  <2>3. UpdateAccount(pool, k, w, NoLabel, {}) = [keys |-> q, legacy |-> NoKey]
    <3> DEFINE Merge(m) == [m EXCEPT !.weight   = IF w > 0 THEN w ELSE @,
                                     !.label    = IF NoLabel # NoLabel THEN NoLabel ELSE @,
                                     !.disabled = IF {} # {} THEN TRUE \in {} ELSE @]
               r == [i \in DOMAIN members |->
                       IF members[i].key = k THEN Merge(members[i]) ELSE members[i]]
    <3>1. UpdateAccount(pool, k, w, NoLabel, {}) = [pool EXCEPT !.keys = r]
      BY <2>2 DEF UpdateAccount, ChangeEntry
    <3>2. \A m \in Member : Merge(m) = [m EXCEPT !.weight = w]
      BY <2>1 DEF Member
    <3> HIDE DEF Merge
    <3>3. r = q
      BY <3>2, <1>1
    <3> HIDE DEF r, q
    <3> QED
      BY <3>1, <3>3
  <2>4. \A i \in DOMAIN members : q[i] \in Member /\ q[i].key = members[i].key
                                  /\ q[i].weight > 0
                                  /\ q[i].weight \in {members[i].weight, w}
    BY <1>1, <2>1 DEF Member
  <2> HIDE DEF q
  <2>5. members' = [i \in DOMAIN q |-> [q[i] EXCEPT !.weight = IF @ = 0 THEN 1 ELSE @]]
    BY <1>3, <2>3 DEF Members
  <2>6. DOMAIN q = DOMAIN members
    BY DEF q
  <2>7. \A i \in DOMAIN members : members'[i] = q[i]
    BY <1>1, <2>4, <2>5, <2>6 DEF Member
  <2>8. members' \in Seq(Member) /\ DOMAIN members' = DOMAIN members
    BY <1>1, <2>4, <2>5, <2>6, <2>7
  <2> QED
    BY <1>1, <2>4, <2>7, <2>8 DEF Reworked
<1> QED
  BY <1>2, <1>3 DEF Adjust

\* What they change has weights the admin may give.
LEMMA AdjustWeights ==
    ASSUME ListInv, NEW k \in Keys, Adjust(k)
    PROVE  WeightsIn(members, NewWeights) /\ WeightsIn(taken, NewWeights)
<1>1. CASE adjusted
  BY <1>1 DEF ListInv
<1>2. CASE ~adjusted
  <2>1. members \in ChangeablePools /\ taken \in {<<>>, members}
    BY <1>2 DEF Adjust, ListInv
  <2> QED
    BY <2>1, PoolsAssumption DEF WeightsIn
<1> QED
  BY <1>1, <1>2

\* The lists stay schedulable and keep their keys.
LEMMA ListInvariant == Init /\ [][Next]_vars => []ListInv
<1>1. Init => ListInv
  <2> SUFFICES ASSUME Init PROVE ListInv
    OBVIOUS
  <2>1. members \in Pools /\ taken = <<>> /\ adjusted = FALSE
    BY DEF Init
  <2>2. Scheduled(members)
    BY <2>1, PoolsAssumption DEF Scheduled
  <2>3. credit \in Credits /\ rounds \in Nat /\ picks \in [Keys -> Nat]
    BY DEF Init, Credits
  <2> QED
    BY <2>1, <2>2, <2>3 DEF ListInv
<1>2. ListInv /\ [Next]_vars => ListInv'
  <2> SUFFICES ASSUME ListInv, [Next]_vars PROVE ListInv'
    OBVIOUS
  <2>1. CASE Read
    BY <2>1 DEF Read, ListInv
  <2>2. CASE Select
    <3>1. Scheduled(taken) /\ taken' = <<>> /\ members' = members /\ adjusted' = adjusted
      BY <2>2 DEF Select, ListInv
    <3>2. credit' \in Credits
      BY <2>2, <3>1, CreditAfterIs DEF Select, ListInv
    <3>3. rounds' \in Nat /\ picks' \in [Keys -> Nat]
      <4>1. first' \in Keys
        <5>1. first' = Candidates(credit, taken)[1].key /\ credit \in Credits
          BY <2>2 DEF Select, ListInv
        <5>2. Candidates(credit, taken)[1].key = BestKey(credit, taken)
          BY <3>1, <5>1, CandidatesAre
        <5>3. BestKey(credit, taken) \in Keys
          BY <3>1, <5>1, CreditAfterIs
        <5> QED
          BY <5>1, <5>2, <5>3
      <4> QED
        BY <2>2, <4>1 DEF Select, ListInv
    <3>4. WeightsIn(<<>>, NewWeights)
      BY DEF WeightsIn
    <3> QED
      BY <3>1, <3>2, <3>3, <3>4 DEF ListInv
  <2>3. ASSUME NEW k \in Keys, Adjust(k) PROVE ListInv'
    <3>1. Reworked(members', members, NewWeights) /\ Scheduled(members)
      BY <2>3, AdjustReworks DEF ListInv
    <3>2. /\ Scheduled(members') /\ KeysOf(members') = KeysOf(members)
          /\ WeightsIn(members, NewWeights) => WeightsIn(members', NewWeights)
      BY <3>1, ReworkedScheduled
    <3>3. WeightsIn(members, NewWeights) /\ WeightsIn(taken, NewWeights)
      BY <2>3, AdjustWeights
    <3>4. /\ adjusted' = TRUE /\ taken' = taken /\ credit' = credit
          /\ rounds' = 0 /\ picks' = [j \in Keys |-> 0]
      BY <2>3 DEF Adjust
    <3>5. rounds' \in Nat /\ picks' \in [Keys -> Nat]
      BY <3>4
    <3> QED
      BY <3>2, <3>3, <3>4, <3>5 DEF ListInv
  <2>4. CASE UNCHANGED vars
    BY <2>4 DEF vars, ListInv
  <2> QED
    BY <2>1, <2>2, <2>3, <2>4 DEF Next
<1> QED
  BY <1>1, <1>2, PTL

-----------------------------------------------------------------------------
(***************************************************************************)
(* Fairness over an unchanged pool: what a key has earned beyond what its  *)
(* turns have cost is its credit.                                          *)
(***************************************************************************)

LeadOf(a, r, p) == [k \in Keys |-> r * Earned(a, k) - p[k] * TotalWeight(a)]

NoPicks == [k \in Keys |-> 0]

\* Before the first selection nothing is earned.
LEMMA LeadAtFirst ==
    ASSUME NEW s, Scheduled(s)
    PROVE  LET lead == LeadOf(Active(s), 0, NoPicks) IN
           /\ lead = [k \in Keys |-> 0] /\ SumFunctionOnSet(lead, Keys) = 0
           /\ \A k \in Keys : lead[k] > -TotalWeight(Active(s))
<1> DEFINE a == Active(s)
           zero == [k \in Keys |-> 0]
<1>1. TotalWeight(a) \in Nat \ {0} /\ \A k \in Keys : Earned(a, k) \in Nat
  BY ActiveScheduled, EarnedIs
<1> HIDE DEF a
<1>2. LeadOf(a, 0, NoPicks) = zero
  BY <1>1 DEF LeadOf, NoPicks
<1>3. SumFunctionOnSet(zero, Keys) = 0
  <2>1. Summable(zero, Keys) /\ \A k \in Keys : k # NoKey => zero[k] = 0
    BY PoolAssumption DEF Summable
  <2> HIDE DEF zero
  <2>2. SumFunctionOnSet(zero, Keys) = IF NoKey \in Keys THEN zero[NoKey] ELSE 0
    BY <2>1, SumSingle
  <2> QED
    BY <2>2, PoolAssumption
<1>4. \A k \in Keys : zero[k] > -TotalWeight(a)
  BY <1>1
<1> QED
  BY <1>2, <1>3, <1>4 DEF a

\* A counted selection changes the lead as it changes the credit, and the one
\* that pays had something to pay with.
LEMMA LeadStep ==
    ASSUME NEW s, Scheduled(s), NEW r \in Nat, NEW p \in [Keys -> Nat],
           NEW lead, lead = LeadOf(Active(s), r, p), SumFunctionOnSet(lead, Keys) = 0,
           \A k \in Keys : lead[k] > -TotalWeight(Active(s))
    PROVE  LET next == LeadOf(Active(s), r + 1, [p EXCEPT ![BestKey(lead, s)] = @ + 1]) IN
           /\ lead \in Credits
           /\ next = CreditAfter(lead, s) /\ SumFunctionOnSet(next, Keys) = 0
           /\ \A k \in Keys : next[k] > -TotalWeight(Active(s))
<1> DEFINE a == Active(s)
           W == TotalWeight(a)
           best == BestKey(lead, s)
           b == Best(lead, a)
           new == CreditAfter(lead, s)
           q == [p EXCEPT ![best] = @ + 1]
           next == LeadOf(a, r + 1, q)
           raised == Raised(lead, a)
<1>1. Scheduled(a)
  BY ActiveScheduled
<1>2. /\ W \in Nat \ {0} /\ \A k \in Keys : Earned(a, k) \in Nat
      /\ \A k : k \notin KeysOf(a) => Earned(a, k) = 0
      /\ Summable(Earnings(a), Keys) /\ SumFunctionOnSet(Earnings(a), Keys) = W
  <2> HIDE DEF a
  <2> QED
    BY <1>1, EarnedIs
<1>3. lead \in Credits /\ \A k \in Keys : lead[k] = r * Earned(a, k) - p[k] * W
  <2> HIDE DEF W, a
  <2> QED
    BY <1>2 DEF LeadOf, Credits, W, a
<1>4. /\ new \in Credits /\ best \in Keys
      /\ \A k \in Keys : new[k] = lead[k] + Earned(a, k) - (IF k = best THEN W ELSE 0)
  BY <1>3, CreditAfterIs
<1>5. /\ raised \in Credits /\ \A k \in Keys : raised[k] = lead[k] + Earned(a, k)
      /\ \A j \in DOMAIN a : raised[a[j].key] <= raised[best]
  <2>1. /\ raised \in Credits /\ \A k \in Keys : raised[k] = lead[k] + Earned(a, k)
    BY <1>1, <1>3, RaisedIs
  <2>2. \A j \in DOMAIN a : raised[a[j].key] <= raised[a[b].key]
    BY <1>1, <1>3, BestIs
  <2> QED
    BY <2>1, <2>2 DEF BestKey
<1> HIDE DEF a, W, best, new, raised, b
<1>6. next = new
  <2>1. \A k \in Keys : q[k] = IF k = best THEN p[k] + 1 ELSE p[k]
    OBVIOUS
  <2> HIDE DEF q
  <2>2. \A k \in Keys : next[k] = (r + 1) * Earned(a, k) - q[k] * W
    BY DEF LeadOf, W
  <2>3. ASSUME NEW k \in Keys PROVE next[k] = new[k]
    <3>1. (r + 1) * Earned(a, k) = r * Earned(a, k) + Earned(a, k)
          /\ r * Earned(a, k) \in Int /\ Earned(a, k) \in Int
      BY <1>2
    <3>2. q[k] * W = p[k] * W + (IF k = best THEN W ELSE 0) /\ p[k] * W \in Int /\ W \in Int
      <4>1. p[k] \in Nat
        OBVIOUS
      <4>2. (p[k] + 1) * W = p[k] * W + W
        BY <4>1, <1>2
      <4> QED
        BY <4>1, <4>2, <2>1, <1>2
    <3> QED
      BY <2>2, <3>1, <3>2, <1>3, <1>4
  <2>4. next = [k \in Keys |-> next[k]] /\ new = [k \in Keys |-> new[k]]
    BY <1>4 DEF LeadOf, Credits
  <2> QED
    BY <2>3, <2>4
<1>7. SumFunctionOnSet(new, Keys) = 0
  BY <1>3, CreditAfterKeeps DEF new
<1>8. raised[best] > 0
  <2>1. SumFunctionOnSet(raised, Keys) = SumFunctionOnSet(lead, Keys) + SumFunctionOnSet(Earnings(a), Keys)
    <3>1. Summable(lead, Keys) /\ \A k \in Keys : raised[k] = lead[k] + Earnings(a)[k]
      BY <1>3, <1>5, PoolAssumption DEF Summable, Credits, Earnings
    <3> QED
      BY <3>1, <1>2, SumPlus
  <2>2. SumFunctionOnSet(raised, Keys) = W /\ SumFunctionOnSet(raised, Keys) > 0
    BY <2>1, <1>2
  <2>3. PICK k \in Keys : raised[k] > 0
    <3> SUFFICES ASSUME \A k \in Keys : ~(raised[k] > 0) PROVE FALSE
      OBVIOUS
    <3>1. Summable(raised, Keys) /\ \A k \in Keys : raised[k] <= 0
      BY <1>5, PoolAssumption DEF Summable, Credits
    <3>2. SumFunctionOnSet(raised, Keys) <= Cardinality(Keys) * 0
      BY <3>1, SumBound
    <3>3. Cardinality(Keys) \in Nat
      BY PoolAssumption, FS_CardinalityType
    <3>4. SumFunctionOnSet(raised, Keys) <= 0
      BY <3>2, <3>3
    <3> QED
      BY <2>2, <3>4, <1>2
  <2>4. k \in KeysOf(a)
    <3> SUFFICES ASSUME k \notin KeysOf(a) PROVE FALSE
      OBVIOUS
    <3>1. raised[k] = lead[k] + 0 /\ lead[k] = r * 0 - p[k] * W
      <4>1. Earned(a, k) = 0
        BY <1>2
      <4> QED
        BY <4>1, <1>3, <1>5
    <3>2. r * 0 = 0
      OBVIOUS
    <3>3. p[k] * W \in Nat
      <4>1. p[k] \in Nat /\ W \in Nat
        BY <1>2
      <4> QED
        BY <4>1
    <3> DEFINE cost == p[k] * W
    <3> HIDE DEF cost
    <3>4. raised[k] = lead[k] + 0 /\ lead[k] = 0 - cost /\ cost \in Nat
      BY <3>1, <3>2, <3>3 DEF cost
    <3> QED
      BY <2>3, <3>4
  <2>5. PICK j \in DOMAIN a : a[j].key = k
    BY <2>4 DEF KeysOf
  <2>6. raised[k] <= raised[best] /\ raised[k] \in Int /\ raised[best] \in Int
    BY <2>5, <1>4, <1>5 DEF Credits
  <2> QED
    BY <2>3, <2>6
<1>9. ASSUME NEW k \in Keys PROVE new[k] > -W
  <2>1. lead[k] \in Int /\ Earned(a, k) \in Nat /\ W \in Nat \ {0} /\ lead[k] > -W
    BY <1>2, <1>3 DEF Credits, W, a
  <2>2. CASE k = best
    BY <2>1, <2>2, <1>4, <1>5, <1>8
  <2>3. CASE k # best
    BY <2>1, <2>3, <1>4
  <2> QED
    BY <2>2, <2>3
<1> QED
  BY <1>3, <1>6, <1>7, <1>9 DEF a, W, best, new

Lead == LeadOf(Active(members), rounds, picks)

LeadInv ==
    /\ adjusted => rounds = 0 /\ picks = NoPicks
    /\ SumFunctionOnSet(Lead, Keys) = 0
    /\ \A k \in Keys : Lead[k] > -total
    /\ Counted => credit = Lead

\* The credits are the lead as long as the selections are counted.
LEMMA LeadInvariant == Init /\ [][Next]_vars => []LeadInv
<1>1. Init /\ ListInv => LeadInv
  <2> SUFFICES ASSUME Init, ListInv PROVE LeadInv
    OBVIOUS
  <2>1. Lead = LeadOf(Active(members), 0, NoPicks) /\ credit = [k \in Keys |-> 0]
        /\ adjusted = FALSE
    BY DEF Lead, Init, NoPicks
  <2>2. /\ Lead = [k \in Keys |-> 0] /\ SumFunctionOnSet(Lead, Keys) = 0
        /\ \A k \in Keys : Lead[k] > -total
    BY <2>1, LeadAtFirst DEF ListInv, total
  <2> QED
    BY <2>1, <2>2 DEF LeadInv
<1>2. LeadInv /\ ListInv /\ ListInv' /\ [Next]_vars => LeadInv'
  <2> SUFFICES ASSUME LeadInv, ListInv, ListInv', [Next]_vars PROVE LeadInv'
    OBVIOUS
  <2>1. ASSUME UNCHANGED <<members, credit, adjusted, picks, rounds>> PROVE LeadInv'
    BY <2>1 DEF LeadInv, Lead, total, Counted
  <2>2. CASE Read
    BY <2>1, <2>2 DEF Read
  <2>3. CASE Select /\ Counted
    <3>1. /\ taken = members /\ Scheduled(members) /\ rounds \in Nat /\ picks \in [Keys -> Nat]
          /\ members' = members /\ adjusted' = adjusted
      BY <2>3 DEF Select, ListInv, Counted
    <3>2. /\ credit' = CreditAfter(Lead, members)
          /\ picks' = [picks EXCEPT ![first'] = @ + 1] /\ rounds' = rounds + 1
          /\ first' = Candidates(Lead, members)[1].key
      BY <2>3, <3>1 DEF Select, LeadInv
    <3> DEFINE next == LeadOf(Active(members), rounds + 1,
                              [picks EXCEPT ![BestKey(Lead, members)] = @ + 1])
    <3>3. /\ Lead \in Credits
          /\ next = CreditAfter(Lead, members) /\ SumFunctionOnSet(next, Keys) = 0
          /\ \A k \in Keys : next[k] > -TotalWeight(Active(members))
      BY <3>1, LeadStep DEF LeadInv, Lead, total
    <3>4. first' = BestKey(Lead, members)
      BY <3>1, <3>2, <3>3, CandidatesAre
    <3>5. Lead' = next /\ total' = TotalWeight(Active(members))
      BY <3>1, <3>2, <3>4 DEF Lead, total
    <3>6. ~adjusted'
      BY <2>3, <3>1 DEF Counted
    <3> HIDE DEF next
    <3> QED
      BY <3>2, <3>3, <3>5, <3>6 DEF LeadInv
  <2>4. CASE Select /\ ~Counted
    <3>1. UNCHANGED <<members, adjusted, picks, rounds>> /\ ~Counted'
      BY <2>4 DEF Select, Counted
    <3> QED
      BY <3>1 DEF LeadInv, Lead, total
  <2>5. ASSUME NEW k \in Keys, Adjust(k) PROVE LeadInv'
    <3>1. adjusted' = TRUE /\ rounds' = 0 /\ picks' = NoPicks
      BY <2>5 DEF Adjust, NoPicks
    <3>2. Lead' = LeadOf(Active(members'), 0, NoPicks) /\ total' = TotalWeight(Active(members'))
      BY <3>1 DEF Lead, total
    <3>3. Scheduled(members')
      BY DEF ListInv
    <3>4. SumFunctionOnSet(Lead', Keys) = 0 /\ \A j \in Keys : Lead'[j] > -total'
      BY <3>2, <3>3, LeadAtFirst
    <3> QED
      BY <3>1, <3>4 DEF LeadInv, Counted
  <2>6. CASE UNCHANGED vars
    BY <2>1, <2>6 DEF vars
  <2> QED
    BY <2>2, <2>3, <2>4, <2>5, <2>6 DEF Next
<1> QED
  BY <1>1, <1>2, ListInvariant, PTL

\* The totals and shares are natural numbers, and what Lead stands for.
LEMMA LeadFacts ==
    ASSUME ListInv
    PROVE  /\ total \in Nat \ {0} /\ rounds \in Nat
           /\ \A k \in Keys : /\ Share(k) \in Nat /\ picks[k] \in Nat
                              /\ Lead[k] = rounds * Share(k) - picks[k] * total
<1>1. Scheduled(Active(members)) /\ rounds \in Nat /\ picks \in [Keys -> Nat]
  BY ActiveScheduled DEF ListInv
<1>2. total \in Nat \ {0} /\ \A k \in Keys : Share(k) \in Nat
  BY <1>1, EarnedIs DEF total, Share
<1> QED
  BY <1>1, <1>2 DEF Lead, LeadOf, Share, total

\* Arithmetic.
LEMMA Factor ==
    ASSUME NEW q \in Int, NEW t \in Int, NEW s \in Int, NEW p \in Int
    PROVE  (q * t) * s - p * t = (q * s - p) * t
<1>1. (q * t) * s = (q * s) * t
  OBVIOUS
<1>2. ASSUME NEW x \in Int PROVE (x - p) * t = x * t - p * t
  OBVIOUS
<1>3. q * s \in Int
  OBVIOUS
<1>4. (q * s - p) * t = (q * s) * t - p * t
  BY <1>2, <1>3
<1> QED
  BY <1>1, <1>4

\* Within a cycle no key runs a whole request ahead of its share
\* (selectMembersOrder), for every pool, weights and number of requests.
THEOREM NeverAheadAlways == Spec => []NeverAhead
<1>1. ListInv /\ LeadInv => NeverAhead
  <2> SUFFICES ASSUME ListInv, LeadInv, NEW k \in Keys
               PROVE  picks[k] * total < rounds * Share(k) + total
    BY DEF NeverAhead
  <2> DEFINE x == picks[k] * total
             y == rounds * Share(k)
  <2>1. x \in Int /\ y \in Int /\ total \in Int /\ y - x > -total
    BY LeadFacts DEF LeadInv
  <2> HIDE DEF x, y
  <2>2. x < y + total
    BY <2>1
  <2> QED
    BY <2>2 DEF x, y
<1> QED
  BY <1>1, ListInvariant, LeadInvariant, PTL DEF Spec

\* Over every full cycle each key is first exactly as often as its weight says
\* (selectMembersOrder, "according to its configured weight").
THEOREM ExactShareAlways == Spec => []ExactShare
<1>1. ListInv /\ LeadInv => ExactShare
  <2> SUFFICES ASSUME ListInv, LeadInv, rounds % total = 0, NEW k \in Keys
               PROVE  picks[k] * total = rounds * Share(k)
    BY DEF ExactShare
  <2>1. total \in Nat \ {0} /\ rounds \in Nat
    BY LeadFacts
  <2>2. PICK q \in Int : rounds = q * total
    <3> DEFINE q == rounds \div total
    <3>1. q \in Int /\ rounds = total * q + (rounds % total)
      BY <2>1
    <3>2. rounds = q * total
      BY <3>1, <2>1
    <3> QED
      BY <3>1, <3>2
  <2>3. ASSUME NEW j \in Keys PROVE Lead[j] \in Nat
    <3>1. Share(j) \in Nat /\ picks[j] \in Nat /\ Lead[j] = rounds * Share(j) - picks[j] * total
      BY LeadFacts
    <3> DEFINE d == q * Share(j) - picks[j]
    <3>2. d \in Int
      BY <2>2, <3>1
    <3>3. Lead[j] = d * total
      <4>1. (q * total) * Share(j) - picks[j] * total = d * total
        <5>1. Share(j) \in Int /\ picks[j] \in Int /\ total \in Int /\ q \in Int
          BY <2>1, <2>2, <3>1
        <5> QED
          BY <5>1, Factor, ZenonT(30)
      <4> QED
        BY <4>1, <2>2, <3>1, Zenon
    <3>4. Lead[j] > -total
      BY DEF LeadInv
    <3> HIDE DEF d
    <3>5. d >= 0
      <4> SUFFICES ASSUME d <= -1 PROVE FALSE
        BY <3>2
      <4>1. d * total <= (-1) * total
        BY <3>2, <2>1
      <4> QED
        BY <4>1, <3>2, <3>3, <3>4, <2>1
    <3> QED
      BY <2>1, <3>2, <3>3, <3>5
  <2>4. Lead[k] = 0
    <3>1. SumFunctionOnSet(Lead, Keys) = 0
      BY DEF LeadInv
    <3> QED
      BY <2>3, <3>1, SumNatural, PoolAssumption
  <2> DEFINE x == picks[k] * total
             y == rounds * Share(k)
  <2>5. x \in Int /\ y \in Int /\ y - x = 0
    BY <2>4, LeadFacts
  <2> HIDE DEF x, y
  <2>6. x = y
    BY <2>5
  <2> QED
    BY <2>6 DEF x, y
<1> QED
  BY <1>1, ListInvariant, LeadInvariant, PTL DEF Spec

-----------------------------------------------------------------------------
(***************************************************************************)
(* The credits stay bounded however the pool is changed.  What a single    *)
(* key may have depends on what the others have; the bound that each       *)
(* selection keeps is one for every set of keys together: a of n keys have *)
(* at most a * (n - a) times the heaviest weight.                          *)
(***************************************************************************)

\* A step of the bound below, in numbers: ci and cj are the credit of i keys
\* that earn nothing and of m that do, cb that of the best, ej and eb what they
\* earn, W the heaviest weight.
LEMMA SpreadNumbers ==
    ASSUME NEW i \in Nat, NEW m \in Nat \ {0}, NEW n \in Nat, NEW W \in Nat,
           NEW ci \in Int, NEW cj \in Int, NEW cb \in Int, NEW ej \in Int, NEW eb \in Int,
           cj + ej <= m * (cb + eb),
           ej <= m * W, eb <= W,
           ci <= i * (n - i) * W,
           ci + cj + cb <= (i + m + 1) * (n - (i + m + 1)) * W
    PROVE  ci + cj + ej <= (i + m) * (n - (i + m)) * W
<1> DEFINE P == i * (n - i) * W
           Q == (i + m + 1) * (n - (i + m + 1)) * W
           Z == (i + m) * (n - (i + m)) * W
           V == m * W
           X == ci + cj + ej
<1>0. P \in Int /\ Q \in Int /\ Z \in Int /\ V \in Int /\ X \in Int
  OBVIOUS
<1>1. P + m * Q + m * V + V = (m + 1) * Z
  OBVIOUS
<1>2. ASSUME NEW x \in Int, NEW y \in Int, x <= y PROVE m * x <= m * y
  BY <1>2
<1>3. m * (ci + cj + cb) <= m * Q
  BY <1>2, <1>0
<1>4. m * (ej + eb) <= m * (V + W)
  BY <1>2, <1>0
<1>5. (m + 1) * X <= ci + m * (ci + cj + cb) + m * (ej + eb)
  <2>1. (m + 1) * X = ci + m * ci + m * (cj + ej) + (cj + ej)
    OBVIOUS
  <2>2. ci + m * ci + m * (cj + ej) + m * (cb + eb) = ci + m * (ci + cj + cb) + m * (ej + eb)
    OBVIOUS
  <2> QED
    BY <2>1, <2>2
<1>6. m * (V + W) = m * V + V
  OBVIOUS
<1>7. (m + 1) * X <= (m + 1) * Z
  <2> HIDE DEF P, Q, Z, V, X
  <2>1. m * Q \in Int /\ m * V \in Int /\ (m + 1) * X \in Int /\ (m + 1) * Z \in Int
        /\ m * (ci + cj + cb) \in Int /\ m * (ej + eb) \in Int
    BY <1>0
  <2>2. ci <= P
    BY DEF P
  <2> QED
    BY <1>0, <1>1, <1>3, <1>4, <1>5, <1>6, <2>1, <2>2
<1>8. X <= Z
  <2> HIDE DEF Z, X
  <2> SUFFICES ASSUME Z + 1 <= X PROVE FALSE
    BY <1>0
  <2>1. (m + 1) * (Z + 1) <= (m + 1) * X
    BY <1>0
  <2>2. (m + 1) * (Z + 1) = (m + 1) * Z + m + 1 /\ (m + 1) * Z \in Int /\ (m + 1) * X \in Int
    BY <1>0
  <2> QED
    BY <1>7, <2>1, <2>2
<1> QED
  BY <1>8

Spread(credits, K, W) ==
    \A A \in SUBSET K :
       SumFunctionOnSet(credits, A) <= Cardinality(A) * (Cardinality(K) - Cardinality(A)) * W

\* A selection keeps the bound.
LEMMA SpreadStep ==
    ASSUME NEW c \in Credits, NEW s, Scheduled(s),
           NEW W \in Nat, \A i \in DOMAIN s : s[i].weight <= W,
           Spread(c, KeysOf(s), W)
    PROVE  Spread(CreditAfter(c, s), KeysOf(s), W)
<1> DEFINE K == KeysOf(s)
           n == Cardinality(K)
           a == Active(s)
           best == BestKey(c, s)
           new == CreditAfter(c, s)
           e == Earnings(a)
           T == TotalWeight(a)
           raised == Raised(c, a)
           J == KeysOf(a)
<1>1. Scheduled(a) /\ \A i \in DOMAIN a : a[i].weight <= W /\ a[i].key \in K
  BY ActiveScheduled DEF KeysOf
<1>2. K \in SUBSET Keys /\ IsFiniteSet(Keys) /\ \A A \in SUBSET Keys : IsFiniteSet(A)
  BY MemberFacts, PoolAssumption, FS_Subset
<1>3. J \subseteq K /\ best \in J
  <2>1. J \subseteq K
    BY <1>1 DEF KeysOf
  <2>2. best \in J
    BY CreditAfterIs
  <2> QED
    BY <2>1, <2>2
<1>4. /\ T \in Nat /\ \A k \in Keys : e[k] \in Nat /\ e[k] <= W /\ (k \notin J => e[k] = 0)
      /\ Summable(e, Keys) /\ SumFunctionOnSet(e, Keys) = T
  <2> HIDE DEF a
  <2>1. /\ T \in Nat /\ Summable(e, Keys) /\ SumFunctionOnSet(e, Keys) = T
        /\ \A k \in Keys : e[k] \in Nat /\ e[k] = Earned(a, k) /\ (k \notin J => e[k] = 0)
    <3>1. /\ \A k : k \notin KeysOf(a) => Earned(a, k) = 0
          /\ \A k \in Keys : Earned(a, k) \in Nat
          /\ Summable(Earnings(a), Keys) /\ TotalWeight(a) \in Nat \ {0}
          /\ SumFunctionOnSet(Earnings(a), Keys) = TotalWeight(a)
      BY <1>1, EarnedIs
    <3>2. \A k \in Keys : e[k] = Earned(a, k)
      BY DEF Earnings
    <3> HIDE DEF e
    <3> QED
      BY <3>1, <3>2 DEF e
  <2>2. ASSUME NEW k \in J PROVE Earned(a, k) <= W
    <3>1. PICK i \in DOMAIN a : a[i].key = k
      BY <2>2 DEF KeysOf
    <3>2. Earned(a, a[i].key) = a[i].weight
      BY <1>1, EarnedIs
    <3> QED
      BY <1>1, <3>1, <3>2
  <2> HIDE DEF e, J, T
  <2> QED
    BY <2>1, <2>2
<1>5. /\ raised \in Credits
      /\ \A k \in Keys : raised[k] = c[k] + e[k]
      /\ \A k \in J : raised[k] <= raised[best]
  <2>1. raised \in Credits /\ \A k \in Keys : raised[k] = c[k] + Earned(a, k)
    BY <1>1, RaisedIs
  <2>2. \A j \in DOMAIN a : raised[a[j].key] <= raised[best]
    BY <1>1, BestIs DEF BestKey
  <2> HIDE DEF raised, best
  <2> QED
    BY <2>1, <2>2 DEF KeysOf, Earnings
<1>6. \A A \in SUBSET Keys : SumFunctionOnSet(new, A) =
         SumFunctionOnSet(c, A) + SumFunctionOnSet(e, A) - (IF best \in A THEN T ELSE 0)
  BY CreditAfterSum
<1> HIDE DEF K, a, best, new, e, T, raised, J
<1> DEFINE C(A) == SumFunctionOnSet(c, A)
           E(A) == SumFunctionOnSet(e, A)
<1>7. \A A \in SUBSET Keys : /\ Summable(c, A) /\ Summable(e, A) /\ Summable(raised, A)
                             /\ C(A) \in Int /\ E(A) \in Nat /\ Cardinality(A) \in Nat
  <2> TAKE A \in SUBSET Keys
  <2>1. Summable(c, A) /\ Summable(e, A) /\ Summable(raised, A)
    BY <1>2, <1>4, <1>5 DEF Summable, Credits
  <2>2. E(A) \in Nat
    BY <1>2, <1>4, SumNatural
  <2>3. C(A) \in Int
    BY <2>1, SumInt
  <2> QED
    BY <1>2, <2>1, <2>2, <2>3, FS_CardinalityType
<1> HIDE DEF C, E
<1>8. \A A \in SUBSET K : C(A) <= Cardinality(A) * (n - Cardinality(A)) * W
  BY DEF Spread, K, C
<1> SUFFICES ASSUME NEW A \in SUBSET K
             PROVE  SumFunctionOnSet(new, A) <= Cardinality(A) * (n - Cardinality(A)) * W
  BY DEF Spread, K, new
<1>9. A \in SUBSET Keys
  BY <1>2
<1>10. SumFunctionOnSet(new, A) = C(A) + E(A) - (IF best \in A THEN T ELSE 0)
  BY <1>6, <1>9 DEF C, E
<1>11. CASE best \in A
  <2>1. T = E(A) + E(Keys \ A)
    <3> DEFINE R == Keys \ A
    <3>1. A \cup R = Keys /\ A \cap R = {}
      BY <1>9
    <3> HIDE DEF R
    <3>2. Summable(e, A \cup R)
      BY <3>1, <1>4
    <3>3. SumFunctionOnSet(e, A \cup R) = SumFunctionOnSet(e, A) + SumFunctionOnSet(e, R)
      BY <3>1, <3>2, SumUnion
    <3>4. T = E(A) + E(R)
      BY <3>1, <3>3, <1>4 DEF E
    <3> QED
      BY <3>4 DEF R
  <2>2. E(Keys \ A) \in Nat /\ E(A) \in Nat /\ C(A) \in Int
    BY <1>7, <1>9
  <2>3. SumFunctionOnSet(new, A) <= C(A)
    BY <1>10, <1>11, <2>1, <2>2
  <2> QED
    BY <1>2, <1>8, <1>9, <1>10, <1>4, <1>7, <2>2, <2>3
<1>12. CASE best \notin A /\ A \cap J = {}
  <2>1. SumFunctionOnSet(e, A) = IF best \in A THEN e[best] ELSE 0
    <3>1. \A k \in A : k # best => e[k] = 0
      BY <1>4, <1>9, <1>12
    <3> QED
      BY <3>1, <1>7, <1>9, SumSingle
  <2>2. E(A) = 0 /\ C(A) \in Int
    BY <2>1, <1>7, <1>9, <1>12 DEF E
  <2>3. SumFunctionOnSet(new, A) = C(A)
    BY <1>10, <1>12, <2>2
  <2> QED
    BY <1>8, <2>3
<1>13. CASE best \notin A /\ A \cap J # {}
  <2> DEFINE M == A \cap J
             I == A \ J
             m == Cardinality(M)
             i == Cardinality(I)
             B == A \cup {best}
  <2>1. M \in SUBSET Keys /\ I \in SUBSET K /\ I \in SUBSET Keys /\ B \in SUBSET K
        /\ B \in SUBSET Keys /\ I \cup M = A /\ I \cap M = {} /\ M # {} /\ best \in Keys
    BY <1>2, <1>3, <1>9, <1>13
  <2>2. m \in Nat \ {0} /\ i \in Nat /\ n \in Nat
    BY <2>1, <1>2, FS_CardinalityType, FS_EmptySet
  <2>3. Cardinality(A) = i + m /\ Cardinality(B) = i + m + 1
    <3>1. Cardinality(I \cup M) = i + m - Cardinality(I \cap M)
      <4>1. IsFiniteSet(I) /\ IsFiniteSet(M)
        BY <2>1, <1>2
      <4> HIDE DEF I, M
      <4> QED
        BY <4>1, FS_Union DEF i, m
    <3>2. Cardinality(I \cap M) = 0
      BY <2>1, FS_EmptySet
    <3>3. Cardinality(A) = i + m
      <4>1. Cardinality(I \cup M) = i + m - 0
        BY <3>1, <3>2, Zenon
      <4>2. Cardinality(A) = Cardinality(I \cup M)
        BY <2>1
      <4> HIDE DEF i, m
      <4> QED
        BY <2>2, <4>1, <4>2
    <3>4. Cardinality(B) = Cardinality(A) + 1
      BY <1>2, <1>9, <1>13, FS_AddElement
    <3> QED
      BY <3>3, <3>4
  <2>4. C(A) = C(I) + C(M) /\ E(A) = E(I) + E(M)
    <3>1. Summable(c, I \cup M) /\ Summable(e, I \cup M) /\ I \cap M = {}
      BY <2>1, <1>7, <1>9
    <3>2. SumFunctionOnSet(c, I \cup M) = SumFunctionOnSet(c, I) + SumFunctionOnSet(c, M)
      BY <3>1, SumUnion
    <3>3. SumFunctionOnSet(e, I \cup M) = SumFunctionOnSet(e, I) + SumFunctionOnSet(e, M)
      BY <3>1, SumUnion
    <3> QED
      BY <3>2, <3>3, <2>1 DEF C, E
  <2>5. E(I) = 0
    <3>1. \A k \in I : k # best => e[k] = 0
      BY <1>4, <2>1
    <3>2. SumFunctionOnSet(e, I) = IF best \in I THEN e[best] ELSE 0
      BY <3>1, <2>1, <1>7, SumSingle
    <3> QED
      BY <3>2, <1>13 DEF E
  <2>6. C(B) = C(A) + c[best] /\ c[best] \in Int
    <3>1. Summable(c, B) /\ best \in B /\ B \ {best} = A
      BY <2>1, <1>7, <1>13
    <3>2. SumFunctionOnSet(c, B) = c[best] + SumFunctionOnSet(c, B \ {best})
      BY <3>1, SumElement
    <3>3. SumFunctionOnSet(c, B) = c[best] + C(A)
      BY <3>1, <3>2, Zenon DEF C
    <3>4. c[best] \in Int /\ C(A) \in Int
      BY <1>7, <1>9, <2>1 DEF Credits
    <3> QED
      BY <3>3, <3>4 DEF C
  <2>7. C(M) + E(M) <= m * (c[best] + e[best])
    <3>1. SumFunctionOnSet(raised, M) = SumFunctionOnSet(c, M) + SumFunctionOnSet(e, M)
      BY <1>5, <1>7, <2>1, SumPlus
    <3>2. raised[best] \in Int /\ raised[best] = c[best] + e[best]
      BY <1>5, <2>1 DEF Credits
    <3>3. SumFunctionOnSet(raised, M) <= m * raised[best]
      BY <1>5, <1>7, <2>1, <3>2, SumBound
    <3> QED
      BY <3>1, <3>2, <3>3 DEF C, E
  <2>8. E(M) <= m * W
    BY <1>4, <1>7, <2>1, SumBound DEF E
  <2>9. C(I) <= i * (n - i) * W
    BY <1>8, <2>1
  <2>10. C(B) <= (i + m + 1) * (n - (i + m + 1)) * W
    BY <1>8, <2>1, <2>3
  <2>11. C(I) \in Int /\ C(M) \in Int /\ E(M) \in Int /\ e[best] \in Int /\ e[best] <= W
         /\ C(A) \in Int
    BY <1>4, <1>7, <1>9, <2>1
  <2> HIDE DEF M, I, m, i, B, n
  <2>12. C(I) + C(M) + c[best] <= (i + m + 1) * (n - (i + m + 1)) * W
    BY <2>4, <2>6, <2>10
  <2>13. C(I) + C(M) + E(M) <= (i + m) * (n - (i + m)) * W
    BY <2>2, <2>6, <2>7, <2>8, <2>9, <2>11, <2>12, SpreadNumbers
  <2>14. SumFunctionOnSet(new, A) = C(I) + C(M) + E(M)
    BY <1>10, <1>13, <2>4, <2>5, <2>11
  <2> QED
    BY <2>3, <2>13, <2>14
<1> QED
  BY <1>11, <1>12, <1>13

\* The heaviest weight in s or among V.
TopOf(s, V) == Max({s[i].weight : i \in DOMAIN s} \cup V)

\* It is one of them, and none is above it.
LEMMA TopOfIs ==
    ASSUME NEW s, Scheduled(s), NEW V \in SUBSET NewWeights
    PROVE  /\ TopOf(s, V) \in Nat
           /\ TopOf(s, V) \in {s[i].weight : i \in DOMAIN s} \cup V
           /\ \A x \in {s[i].weight : i \in DOMAIN s} \cup V : x <= TopOf(s, V)
<1> DEFINE S == {s[i].weight : i \in DOMAIN s} \cup V
<1>1. S \in SUBSET (0..MaxWeight) /\ S # {}
  <2>1. \A i \in DOMAIN s : s[i].weight \in 0..MaxWeight
    <3>1. \A i \in DOMAIN s : s[i] \in Member
      BY MemberFacts DEF Scheduled
    <3> QED
      BY <3>1 DEF Member, Weights
  <2>2. V \in SUBSET (0..MaxWeight)
    BY PoolsAssumption DEF Weights
  <2>3. DOMAIN s # {}
    BY MemberFacts
  <2> QED
    BY <2>1, <2>2, <2>3
<1>2. MaxWeight \in Nat
  BY PoolAssumption
<1> HIDE DEF S
<1>3. Max(S) \in S /\ \A x \in S : x <= Max(S)
  BY <1>1, <1>2, MaxOf
<1> QED
  BY <1>1, <1>2, <1>3 DEF TopOf, S

\* A greater weight allows for more.
LEMMA SpreadMore ==
    ASSUME NEW c \in Credits, NEW K \in SUBSET Keys, NEW W \in Nat, Spread(c, K, W),
           NEW V \in Nat, W <= V
    PROVE  Spread(c, K, V)
<1> SUFFICES ASSUME NEW A \in SUBSET K
             PROVE  SumFunctionOnSet(c, A)
                      <= Cardinality(A) * (Cardinality(K) - Cardinality(A)) * V
  BY DEF Spread
<1> DEFINE x == Cardinality(A) * (Cardinality(K) - Cardinality(A))
<1>1. IsFiniteSet(K) /\ IsFiniteSet(A) /\ Cardinality(A) <= Cardinality(K)
      /\ Cardinality(A) \in Nat /\ Cardinality(K) \in Nat
  BY PoolAssumption, FS_Subset, FS_CardinalityType
<1>2. x \in Nat
  BY <1>1
<1>3. SumFunctionOnSet(c, A) \in Int
  BY <1>1, SumInt DEF Summable, Credits
<1>4. SumFunctionOnSet(c, A) <= x * W
  BY DEF Spread
<1> HIDE DEF x
<1>5. x * W <= x * V
  BY <1>2
<1>6. SumFunctionOnSet(c, A) <= x * V
  BY <1>2, <1>3, <1>4, <1>5
<1> QED
  BY <1>6 DEF x

CreditInv ==
    /\ SumFunctionOnSet(credit, Keys) = 0
    /\ \A k \in Keys \ KeysOf(members) : credit[k] = 0
    /\ Spread(credit, KeysOf(members), TopWeight)

\* The credits stay within the bound.
LEMMA CreditInvariant == Init /\ [][Next]_vars => []CreditInv
<1> DEFINE V == IF adjusted THEN NewWeights ELSE {}
<1>0. TopWeight = TopOf(members, V) /\ V \in SUBSET NewWeights
  BY DEF TopWeight, TopOf
<1>1. Init /\ ListInv => CreditInv
  <2> SUFFICES ASSUME Init, ListInv PROVE CreditInv
    OBVIOUS
  <2>1. Scheduled(members) /\ KeysOf(members) \subseteq Keys
    BY MemberFacts DEF ListInv
  <2>2. \A k \in Keys : credit[k] = 0
    BY DEF Init
  <2>3. ASSUME NEW A \in SUBSET Keys PROVE SumFunctionOnSet(credit, A) = 0
    <3>1. Summable(credit, A) /\ NoKey \notin A /\ \A k \in A : k # NoKey => credit[k] = 0
      BY <2>2, PoolAssumption, FS_Subset DEF Summable
    <3> QED
      BY <3>1, SumSingle
  <2>4. TopWeight \in Nat
    BY <1>0, <2>1, TopOfIs
  <2> DEFINE K == KeysOf(members)
  <2>5. ASSUME NEW A \in SUBSET K
        PROVE  Cardinality(A) * (Cardinality(K) - Cardinality(A)) * TopWeight \in Nat
    <3>1. Cardinality(A) \in Nat /\ Cardinality(K) - Cardinality(A) \in Nat
      BY <2>1, PoolAssumption, FS_Subset, FS_CardinalityType
    <3> QED
      BY <2>4, <3>1
  <2>6. Spread(credit, K, TopWeight)
    BY <2>1, <2>3, <2>5 DEF Spread
  <2> QED
    BY <2>2, <2>3, <2>6 DEF CreditInv
<1>2. CreditInv /\ ListInv /\ ListInv' /\ [Next]_vars => CreditInv'
  <2> SUFFICES ASSUME CreditInv, ListInv, ListInv', [Next]_vars PROVE CreditInv'
    OBVIOUS
  <2>1. Scheduled(members) /\ KeysOf(members) \in SUBSET Keys
    BY MemberFacts DEF ListInv
  <2>2. TopWeight \in Nat
    BY <1>0, <2>1, TopOfIs
  <2>3. CASE Read
    BY <2>3 DEF Read, CreditInv, TopWeight
  <2>4. CASE Select
    <3>1. /\ Scheduled(taken) /\ KeysOf(taken) = KeysOf(members) /\ credit \in Credits
          /\ credit' = CreditAfter(credit, taken)
          /\ members' = members /\ adjusted' = adjusted
      BY <2>4 DEF Select, ListInv
    <3>2. TopWeight' = TopWeight
      BY <3>1 DEF TopWeight
    <3>3. \A i \in DOMAIN taken : taken[i].weight <= TopWeight
      <4>1. CASE adjusted
        BY <4>1, <1>0, <2>1, TopOfIs DEF ListInv, WeightsIn
      <4>2. CASE ~adjusted
        <5>1. taken = members
          BY <2>4, <4>2 DEF Select, ListInv
        <5> QED
          BY <5>1, <1>0, <2>1, TopOfIs
      <4> QED
        BY <4>1, <4>2
    <3>4. Spread(credit', KeysOf(taken), TopWeight)
      BY <3>1, <3>3, <2>2, SpreadStep DEF CreditInv
    <3>5. SumFunctionOnSet(credit', Keys) = 0
      BY <3>1, CreditAfterKeeps DEF CreditInv
    <3>6. ASSUME NEW k \in Keys \ KeysOf(members) PROVE credit'[k] = 0
      <4> DEFINE a == Active(taken)
      <4>1. Scheduled(a) /\ k \notin KeysOf(a)
        <5>1. Scheduled(a) /\ \A i \in DOMAIN a : \E j \in DOMAIN taken : a[i] = taken[j]
          BY <3>1, ActiveScheduled
        <5> HIDE DEF a
        <5> QED
          BY <5>1, <3>1 DEF KeysOf
      <4>2. BestKey(credit, taken) \in KeysOf(a) /\
            credit'[k] = credit[k] + Earned(a, k)
                           - (IF k = BestKey(credit, taken) THEN TotalWeight(a) ELSE 0)
        BY <3>1, CreditAfterIs
      <4> HIDE DEF a
      <4>3. Earned(a, k) = 0 /\ k # BestKey(credit, taken) /\ credit[k] = 0
        BY <4>1, <4>2, EarnedIs DEF CreditInv
      <4> QED
        BY <4>2, <4>3
    <3> QED
      BY <3>1, <3>2, <3>4, <3>5, <3>6 DEF CreditInv
  <2>5. ASSUME NEW k \in Keys, Adjust(k) PROVE CreditInv'
    <3>1. /\ Reworked(members', members, NewWeights)
          /\ credit' = credit /\ adjusted' = TRUE /\ credit \in Credits
      BY <2>1, <2>5, AdjustReworks DEF Adjust, ListInv
    <3>2. KeysOf(members') = KeysOf(members) /\ Scheduled(members')
      BY <2>1, <3>1, ReworkedScheduled
    <3>3. WeightsIn(members, NewWeights)
      BY <2>5, AdjustWeights
    <3>4. TopWeight' = TopOf(members', NewWeights)
      BY <3>1 DEF TopWeight, TopOf
    <3>5. TopWeight' \in Nat /\ \A w \in NewWeights : w <= TopWeight'
      BY <3>2, <3>4, TopOfIs
    <3>6. TopWeight \in NewWeights
      BY <1>0, <2>1, <3>3, TopOfIs DEF WeightsIn
    <3>7. Spread(credit, KeysOf(members), TopWeight')
      BY <2>1, <2>2, <3>1, <3>5, <3>6, SpreadMore DEF CreditInv
    <3> QED
      BY <3>1, <3>2, <3>7 DEF CreditInv
  <2>6. CASE UNCHANGED vars
    BY <2>6 DEF vars, CreditInv, TopWeight
  <2> QED
    BY <2>3, <2>4, <2>5, <2>6 DEF Next
<1> QED
  BY <1>1, <1>2, ListInvariant, PTL

\* A list of members with distinct keys has as many keys as members.
LEMMA KeysCounted ==
    ASSUME NEW s, Scheduled(s)
    PROVE  IsFiniteSet(KeysOf(s)) /\ Cardinality(KeysOf(s)) = Len(s)
<1> DEFINE f == [i \in 1..Len(s) |-> s[i].key]
<1>1. DOMAIN s = 1..Len(s) /\ Len(s) \in Nat
  BY MemberFacts
<1>2. f \in Bijection(1..Len(s), KeysOf(s))
  BY <1>1 DEF Bijection, Injection, Surjection, IsInjective, KeysOf, Scheduled, Distinct
<1>3. IsFiniteSet(1..Len(s)) /\ Cardinality(1..Len(s)) = Len(s)
  <2> DEFINE m == Len(s)
  <2> HIDE DEF m
  <2>1. m \in Nat
    BY <1>1 DEF m
  <2>2. IsFiniteSet(1..m) /\ Cardinality(1..m) = IF 1 > m THEN 0 ELSE m - 1 + 1
    BY <2>1, FS_Interval
  <2> QED
    BY <2>1, <2>2 DEF m
<1>4. ExistsBijection(1..Len(s), KeysOf(s))
  BY <1>2 DEF ExistsBijection
<1> QED
  BY <1>3, <1>4, FS_Bijection

\* The credit a key brings along stays within the weight of all the others,
\* however the pool is changed between selections (wrrCur).
THEOREM CreditBoundedAlways == Spec => []CreditBounded
<1>1. ListInv /\ CreditInv => CreditBounded
  <2> SUFFICES ASSUME ListInv, CreditInv, NEW k \in Keys
               PROVE  /\ -((Len(members) - 1) * TopWeight) <= credit[k]
                      /\ credit[k] <= (Len(members) - 1) * TopWeight
    BY DEF CreditBounded
  <2> DEFINE K == KeysOf(members)
             n == Len(members)
             W == TopWeight
             limit == (n - 1) * W
             R == K \ {k}
  <2>1. /\ Scheduled(members) /\ K \in SUBSET Keys /\ IsFiniteSet(K) /\ Cardinality(K) = n
        /\ n \in Nat \ {0} /\ credit \in Credits /\ credit[k] \in Int
    BY MemberFacts, KeysCounted DEF ListInv, Credits
  <2>2. W \in Nat
    <3>1. W = TopOf(members, IF adjusted THEN NewWeights ELSE {})
      BY DEF TopWeight, TopOf
    <3> QED
      BY <2>1, <3>1, TopOfIs
  <2>3. limit \in Nat
    <3>1. n - 1 \in Nat
      BY <2>1
    <3> HIDE DEF W, n
    <3> QED
      BY <2>2, <3>1
  <2>4. CASE k \notin K
    <3>1. credit[k] = 0
      BY <2>4 DEF CreditInv
    <3> HIDE DEF limit
    <3>2. -limit <= credit[k] /\ credit[k] <= limit
      BY <2>3, <3>1
    <3> QED
      BY <3>2 DEF limit
  <2>5. CASE k \in K
    <3>1. Cardinality({k}) = 1 /\ Cardinality(R) = n - 1
      <4>1. Cardinality(R) = Cardinality(K) - 1
        BY <2>1, <2>5, FS_RemoveElement
      <4> QED
        BY <4>1, <2>1, FS_Singleton
    <3>2. Summable(credit, Keys) /\ Summable(credit, K) /\ Summable(credit, {k})
      BY <2>1, PoolAssumption, FS_Singleton DEF Summable, Credits
    <3>3. SumFunctionOnSet(credit, {k}) = credit[k]
      <4>1. \A x \in {k} : x # k => credit[x] = 0
        OBVIOUS
      <4> QED
        BY <3>2, <4>1, SumSingle
    <3>4. credit[k] <= 1 * (n - 1) * W
      <4>1. {k} \in SUBSET K
        BY <2>5
      <4> QED
        BY <2>1, <3>1, <3>3, <4>1 DEF CreditInv, Spread
    <3>5. SumFunctionOnSet(credit, R) <= (n - 1) * (n - (n - 1)) * W
      <4>1. R \in SUBSET K
        OBVIOUS
      <4> QED
        BY <2>1, <3>1, <4>1 DEF CreditInv, Spread
    <3>6. SumFunctionOnSet(credit, K) = credit[k] + SumFunctionOnSet(credit, R)
      BY <2>5, <3>2, SumElement
    <3>7. SumFunctionOnSet(credit, K) = 0
      <4> DEFINE Q == Keys \ K
      <4>1. K \cup Q = Keys /\ K \cap Q = {} /\ Summable(credit, Q)
        BY <2>1, <3>2, FS_Subset DEF Summable
      <4>2. SumFunctionOnSet(credit, Q) = 0
        <5>1. NoKey \notin Q /\ \A x \in Q : x # NoKey => credit[x] = 0
          BY PoolAssumption DEF CreditInv
        <5> HIDE DEF Q
        <5> QED
          BY <4>1, <5>1, SumSingle
      <4> HIDE DEF Q, K
      <4>3. Summable(credit, K \cup Q)
        BY <3>2, <4>1
      <4>4. SumFunctionOnSet(credit, K \cup Q)
              = SumFunctionOnSet(credit, K) + SumFunctionOnSet(credit, Q)
        BY <4>1, <4>3, SumUnion
      <4>5. SumFunctionOnSet(credit, K) \in Int
        BY <3>2, SumInt
      <4>6. SumFunctionOnSet(credit, K) + 0 = 0
        <5>1. SumFunctionOnSet(credit, Keys) = 0
          BY DEF CreditInv
        <5> QED
          BY <4>1, <4>2, <4>4, <5>1, Zenon
      <4> QED
        BY <4>5, <4>6
    <3>8. SumFunctionOnSet(credit, R) \in Int
      <4>1. Summable(credit, R)
        BY <3>2, FS_Subset DEF Summable
      <4> QED
        BY <4>1, SumInt
    <3> HIDE DEF R, W, n
    <3>9. 1 * (n - 1) * W = limit /\ (n - 1) * (n - (n - 1)) * W = limit
      BY <2>1, <2>2 DEF n
    <3> HIDE DEF limit
    <3>10. -limit <= credit[k] /\ credit[k] <= limit
      BY <2>1, <2>3, <3>4, <3>5, <3>6, <3>7, <3>8, <3>9
    <3> QED
      BY <3>10 DEF limit, n, W
  <2> QED
    BY <2>4, <2>5
<1> QED
  BY <1>1, ListInvariant, CreditInvariant, PTL DEF Spec
=============================================================================
