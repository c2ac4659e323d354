--------------------------- MODULE KeySelection ----------------------------
(***************************************************************************)
(* selectMembersOrder (executor.go): smooth weighted round-robin over the  *)
(* enabled members.  The whole choice runs under wrrMu, so it is a pure    *)
(* function of wrrCur (credit; a key it does not hold yet has 0) and of    *)
(* the members the caller read before.  The floor of -2^31 below which no  *)
(* member would be chosen, and integer overflow, are out of reach.         *)
(***************************************************************************)
EXTENDS KeyPool

\* Disabled members are used only when there is no other.
Active(members) ==
    LET enabled == Among(members, {m \in Range(members) : ~m.disabled})
    IN IF enabled = <<>> THEN members ELSE enabled

WeightsOf(active) == [i \in DOMAIN active |-> active[i].weight]
TotalWeight(active) == SumFunction(WeightsOf(active))

\* Every active member earns its weight.
Earned(active, k) == SumFunctionOnSet(WeightsOf(active), {i \in DOMAIN active : active[i].key = k})
Raised(credit, active) == [k \in DOMAIN credit |-> credit[k] + Earned(active, k)]

\* Mutant of Best: the heaviest member, whatever its credit.
Heaviest(credit, active) ==
    CHOOSE i \in DOMAIN active : \A j \in DOMAIN active : active[j].weight <= active[i].weight

\* The first member with the most credit.
Best(credit, active) ==
    LET raised == Raised(credit, active)
        c(i)   == raised[active[i].key]
    IN CHOOSE i \in DOMAIN active :
          \A j \in DOMAIN active : c(j) < c(i) \/ (c(j) = c(i) /\ i <= j)

\* The candidates: the best first, the others in pool order.  A pool of one
\* is not scheduled at all.
Candidates(credit, members) ==
    LET active == Active(members)
        b      == Best(credit, active)
    IN IF Len(active) <= 1 THEN active ELSE <<active[b]>> \o RemoveAt(active, b)

\* Mutants of CreditAfter: nothing is written back, the best starts over at
\* zero, or it pays nothing.
CreditKept(credit, members) == credit
CreditReset(credit, members) ==
    LET active == Active(members)
        best   == active[Best(credit, active)].key
    IN IF Len(active) <= 1 THEN credit ELSE [Raised(credit, active) EXCEPT ![best] = 0]
CreditUncharged(credit, members) ==
    LET active == Active(members)
    IN IF Len(active) <= 1 THEN credit ELSE Raised(credit, active)

\* The best pays for the whole round.
CreditAfter(credit, members) ==
    LET active == Active(members)
        best   == active[Best(credit, active)].key
    IN IF Len(active) <= 1 THEN credit
       ELSE [Raised(credit, active) EXCEPT ![best] = @ - TotalWeight(active)]
=============================================================================
