----------------------------- MODULE MCExecutor ----------------------------
(***************************************************************************)
(* Instance of Executor for TLC: concurrent requests under any admin       *)
(* operation.                                                              *)
(***************************************************************************)
EXTENDS Executor

\* No account at all, the legacy key alone, or one entry beside it.
FirstPools ==
    {[keys |-> <<>>, legacy |-> l] : l \in Keys \cup {NoKey}}
      \cup {[keys |-> <<NewMember(k, 1, DefaultLabel, FALSE)>>, legacy |-> l] :
              k \in Keys, l \in Keys \cup {NoKey}}

Symmetries == Permutations(Keys) \cup Permutations(Requests)
=============================================================================
