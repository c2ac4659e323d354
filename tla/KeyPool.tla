------------------------------ MODULE KeyPool ------------------------------
(***************************************************************************)
(* The credential pool: the account part of pluginConfig (config.go) and   *)
(* what the admin operations (management.go) make of it.  Each operator is *)
(* the body of one critical section of cfg.mu; whoever uses it adds the    *)
(* steps around that section.                                              *)
(*                                                                         *)
(* Abstractions.  Keys and labels are model values, trimmed and not empty  *)
(* (parseAPIKeyFromInput and the handlers see to it; a blank entry of the  *)
(* config file, which members() skips, is left out).  Keys of one pool are *)
(* distinct: addAccount never adds a second entry for a key.               *)
(***************************************************************************)
EXTENDS Integers, Sequences, SequencesExt

CONSTANTS
    Keys,          \* API keys
    NoKey,         \* "", an unset api_key
    Labels,        \* account labels
    DefaultLabel,  \* "default", the label of the legacy key
    NoLabel,       \* "", a label left out of a request
    MaxWeight      \* bound on the weights considered

ASSUME PoolAssumption ==
    /\ IsFiniteSet(Keys) /\ NoKey \notin Keys
    /\ DefaultLabel \in Labels /\ NoLabel \notin Labels
    /\ MaxWeight \in Nat \ {0}

\* Weight 0 stands for every weight an entry of the config file may have below 1.
Weights == 0..MaxWeight
Member  == [key : Keys, weight : Weights, label : Labels, disabled : BOOLEAN]

KeysOf(members) == {members[i].key : i \in DOMAIN members}
Distinct(members) == \A i, j \in DOMAIN members : members[i].key = members[j].key => i = j

\* The chosen ones of the members, in their order.
Among(members, chosen) ==
    FoldLeft(LAMBDA kept, m : IF m \in chosen THEN Append(kept, m) ELSE kept, <<>>, members)

\* APIKeys and the legacy APIKey.
Pool == {p \in [keys : Seq(Member), legacy : Keys \cup {NoKey}] : Distinct(p.keys)}

NewMember(k, w, l, d) == [key |-> k, weight |-> w, label |-> l, disabled |-> d]

\* members(): the entries of api_keys, the legacy key only if there are none.
Members(p) ==
    IF p.keys = <<>> /\ p.legacy # NoKey
    THEN <<NewMember(p.legacy, 1, DefaultLabel, FALSE)>>
    ELSE [i \in DOMAIN p.keys |-> [p.keys[i] EXCEPT !.weight = IF @ = 0 THEN 1 ELSE @]]

Has(p, k) == k \in KeysOf(p.keys)

\* The pool with Change applied to the entry of key k.
ChangeEntry(p, k, Change(_)) ==
    [p EXCEPT !.keys = [i \in DOMAIN @ |-> IF @[i].key = k THEN Change(@[i]) ELSE @[i]]]

\* Mutant of AddAccount: an account already there is added again.
AddTwice(p, k, w, l) == [p EXCEPT !.keys = Append(@, NewMember(k, w, l, FALSE))]

AddAccount(p, k, w, l) ==
    LET Overwrite(m) == [m EXCEPT !.weight = w, !.label = l]
    IN IF Has(p, k) THEN ChangeEntry(p, k, Overwrite)
       ELSE [p EXCEPT !.keys = Append(@, NewMember(k, w, l, FALSE))]

\* What a request leaves out stays: weight 0, NoLabel, and no disabled flag
\* (the nil pointer, here the empty set).
UpdateAccount(p, k, w, l, d) ==
    LET Merge(m) == [m EXCEPT !.weight   = IF w > 0 THEN w ELSE @,
                              !.label    = IF l # NoLabel THEN l ELSE @,
                              !.disabled = IF d # {} THEN TRUE \in d ELSE @]
    IN IF Has(p, k) THEN ChangeEntry(p, k, Merge)
       ELSE [keys   |-> Append(p.keys, Merge(NewMember(k, 1, DefaultLabel, FALSE))),
             legacy |-> NoKey]

\* Whether updateAccount and toggleAccount find their account; if not, they
\* return an error and change nothing.
CanUpdate(p, k) == Has(p, k) \/ p.legacy = k
CanToggle(p, k) == Has(p, k)

ToggleAccount(p, k) ==
    LET Flip(m) == [m EXCEPT !.disabled = ~@]
    IN ChangeEntry(p, k, Flip)

Without(members, k) == Among(members, {m \in Range(members) : m.key # k})

\* Mutant of RemoveAccount: the legacy key goes whichever key is removed.
RemoveWithLegacy(p, k) == [keys |-> Without(p.keys, k), legacy |-> NoKey]

RemoveAccount(p, k) ==
    [keys   |-> Without(p.keys, k),
     legacy |-> IF p.legacy = k THEN NoKey ELSE p.legacy]
=============================================================================
