--------------------------- MODULE KeyScheduler ----------------------------
(***************************************************************************)
(* The scheduler on its own: which key the requests try first, over a pool *)
(* nobody changes and over one whose keys are toggled and reweighted.  A   *)
(* request reads the pool (members, under cfg.mu) and selects later (under *)
(* wrrMu), so it may select over a pool that has changed since.  One Read  *)
(* and one Select step are one request, whichever of the concurrent ones   *)
(* it is; requests keep coming.                                            *)
(***************************************************************************)
EXTENDS KeySelection

CONSTANTS
    Pools,           \* the member lists considered
    ChangeablePools, \* those the admin works on
    NewWeights,      \* the weights the accounts of these have or are given
    MaxRounds        \* bound on the number of selections that are counted

ASSUME PoolsAssumption ==
    /\ \A p \in Pools : /\ p \in Seq(Member) /\ p # <<>> /\ Distinct(p)
                        /\ \A i \in DOMAIN p : p[i].weight > 0
    /\ ChangeablePools \subseteq Pools
    /\ NewWeights \subseteq Weights \ {0}
    /\ \A p \in ChangeablePools : \A i \in DOMAIN p : p[i].weight \in NewWeights
ASSUME MaxRoundsAssumption == MaxRounds \in Nat

VARIABLES
    members,  \* the pool
    taken,    \* the pool as the request has read it, empty before that
    credit,   \* wrrCur
    first,    \* the first candidate of the last selection
    adjusted, \* whether the admin has changed the pool
    picks,    \* history of a pool nobody changed: how often each key was the
    rounds    \*   first candidate, in how many selections

vars == <<members, taken, credit, first, adjusted, picks, rounds>>

Init ==
    /\ members \in Pools /\ taken = <<>>
    /\ credit = [k \in Keys |-> 0] /\ first = NoKey
    /\ adjusted = FALSE
    /\ picks = [k \in Keys |-> 0] /\ rounds = 0

Read ==
    /\ taken = <<>> /\ taken' = members
    /\ UNCHANGED <<members, credit, first, adjusted, picks, rounds>>

Counted == ~adjusted /\ rounds < MaxRounds

Select ==
    /\ taken # <<>> /\ taken' = <<>>
    /\ credit' = CreditAfter(credit, taken)
    /\ first' = Candidates(credit, taken)[1].key
    /\ \/ Counted /\ picks' = [picks EXCEPT ![first'] = @ + 1] /\ rounds' = rounds + 1
       \/ ~Counted /\ UNCHANGED <<picks, rounds>>
    /\ UNCHANGED <<members, adjusted>>

\* The admin toggles an account or gives it another weight.
Adjust(k) ==
    LET pool == [keys |-> members, legacy |-> NoKey] IN
    /\ adjusted \/ members \in ChangeablePools
    /\ \/ CanToggle(pool, k) /\ members' = Members(ToggleAccount(pool, k))
       \/ \E w \in NewWeights :
             CanUpdate(pool, k) /\ members' = Members(UpdateAccount(pool, k, w, NoLabel, {}))
    /\ adjusted' = TRUE
    /\ picks' = [j \in Keys |-> 0] /\ rounds' = 0
    /\ UNCHANGED <<taken, credit, first>>

Next == Read \/ Select \/ \E k \in Keys : Adjust(k)

\* Requests keep coming, and each selects in the end: since they alternate,
\* weak fairness of Read and of Select, without ENABLED.
Fairness == []<>(taken = <<>>) /\ []<>(taken # <<>>)

Spec == Init /\ [][Next]_vars /\ Fairness

-----------------------------------------------------------------------------
total == TotalWeight(Active(members))
Share(k) == Earned(Active(members), k)

\* Over every full cycle of the weights each key is first exactly as often as
\* its weight says, and a disabled one never while another is enabled
\* (selectMembersOrder, "according to its configured weight").
ExactShare ==
    rounds % total = 0 => \A k \in Keys : picks[k] * total = rounds * Share(k)

\* Within a cycle no key runs a whole request ahead of its share: a heavy key
\* does not get its turns in one burst.
NeverAhead == \A k \in Keys : picks[k] * total < rounds * Share(k) + total

\* The heaviest weight a member has, or may have had.
TopWeight == Max({members[i].weight : i \in DOMAIN members}
                    \cup (IF adjusted THEN NewWeights ELSE {}))

\* However the pool is changed between selections, the credit a key brings
\* along stays within the weight of all the others: no toggling can pile up a
\* debt that shuts a key out for good, or a claim that floods it (wrrCur).
CreditBounded ==
    LET limit == (Len(members) - 1) * TopWeight
    IN \A k \in Keys : -limit <= credit[k] /\ credit[k] <= limit

EnabledKey(k) == \E i \in DOMAIN members : members[i].key = k /\ ~members[i].disabled

\* A key that stays enabled is tried first again and again, whatever happens
\* to the other keys.
NoKeyStarves == \A k \in Keys : <>[]EnabledKey(k) => []<>(first = k)
=============================================================================
