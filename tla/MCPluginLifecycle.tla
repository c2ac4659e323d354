------------------------- MODULE MCPluginLifecycle -------------------------
(***************************************************************************)
(* Instances of PluginLifecycle for TLC.  The names of the calls mean      *)
(* nothing, so it is enough to look at the behaviours in which they begin  *)
(* in the order of their numbers; the first one registers the plugin, and  *)
(* the others, later registrations among them, begin when it has returned. *)
(***************************************************************************)
EXTENDS PluginLifecycle

Begins(a) == pc[a] = "idle" /\ pc'[a] # "idle"

RegisteredFirst ==
    \A a \in Calls : Begins(a) =>
        IF a = 1 THEN kind'[a] = "register"
                 ELSE pc[1] = "done" /\ \A b \in 1..(a - 1) : pc[b] # "idle"

RegisteredSpec == Init /\ [][Next /\ RegisteredFirst]_vars /\ Fairness
=============================================================================
