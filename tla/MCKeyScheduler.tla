-------------------------- MODULE MCKeyScheduler ---------------------------
(***************************************************************************)
(* Instance of KeyScheduler for TLC: every pool of up to four keys with    *)
(* weights 1..MaxWeight, at most one member disabled, over two full cycles *)
(* of most of them; and three keys that the admin toggles and reweights,   *)
(* at most once between a request's reading the pool and its selection.    *)
(***************************************************************************)
EXTENDS KeyScheduler

KeyOrder == SetToSeq(Keys)

PoolsUpTo(n) ==
    {[i \in 1..m |-> NewMember(KeyOrder[i], w[i], DefaultLabel, i = off)] :
        m \in 1..n, off \in 0..1, w \in [1..n -> 1..MaxWeight]}

AllPools == PoolsUpTo(Len(KeyOrder))

ThreeKeys == {[i \in 1..3 |-> NewMember(KeyOrder[i], 1, DefaultLabel, FALSE)]}

OneBehind == members' # members => taken \in {<<>>, members}

SchedulerSpec == Init /\ [][Next /\ OneBehind]_vars /\ Fairness
=============================================================================
