--------------------------- MODULE MCAccountStore --------------------------
(***************************************************************************)
(* Instances of AccountStore for TLC: every operation, of which a few may  *)
(* overlap (MixedSpec), with crashes; account requests beside a settings   *)
(* request (AccountsBesideSettings); and all operations one at a time.     *)
(***************************************************************************)
EXTENDS AccountStore

CONSTANTS k1, k2, k3, work  \* some of Keys, and one of Labels

\* The accounts requests are about: k3 is only in the file.
NamedKeys == Keys \ {k3}

\* A file is named for its label, with the key if that is used; but the name
\* of k2 with the default label and its hash is that of the label "work".
AllNames == Labels \cup (Labels \X Keys)
LabelNames == [lk \in Labels \X Keys |-> lk[1]]
HashedNames ==
    [lk \in Labels \X Keys |-> IF lk = <<DefaultLabel, k2>> /\ work \in Labels THEN work ELSE lk]

Request(kind, k, l, d, s) ==
    [kind |-> kind, key |-> k, weight |-> 1, label |-> l, disabled |-> d, settings |-> s]
OnKeys(kind, labels) ==
    {Request(kind, k, l, {}, DefaultSettings) : k \in NamedKeys, l \in labels}
SaveSettings == {Request("settings", k1, NoLabel, {}, s) : s \in Settings}
ReadOnly     == {Request("read", k1, NoLabel, {}, DefaultSettings)}

RacingOperations ==
    SaveSettings \cup {Request("add", k, DefaultLabel, {}, DefaultSettings) : k \in NamedKeys \ {k1}}
      \cup OnKeys("remove", {NoLabel})

\* Account requests beside a form that always saves the same settings.
AccountsBesideSettings ==
    {o \in RacingOperations : o.kind = "settings" => o.settings # DefaultSettings}

EveryOperation ==
    ReadOnly \cup SaveSettings
      \cup OnKeys("add", Labels) \cup OnKeys("remove", {NoLabel}) \cup OnKeys("toggle", {NoLabel})
      \cup {Request("update", k, l, d, DefaultSettings) :
               k \in NamedKeys, l \in Labels \cup {NoLabel}, d \in {{}, {TRUE}, {FALSE}}}

OneAccount == {[keys |-> <<NewMember(k1, 1, DefaultLabel, FALSE)>>, legacy |-> NoKey]}

\* An empty pool, the legacy key alone, and an entry without a weight beside it.
FirstPools ==
    {[keys |-> keys, legacy |-> l] :
        keys \in {<<>>} \cup {<<NewMember(k, 0, DefaultLabel, FALSE)>> : k \in NamedKeys},
        l \in NamedKeys \cup {NoKey}}

\* Three accounts, two of one label, and the hash of the second or not.
ThreeAccounts ==
    {[keys |-> <<NewMember(k3, 1, work, FALSE), NewMember(k, 1, DefaultLabel, FALSE),
                 NewMember(l, 1, DefaultLabel, FALSE)>>, legacy |-> NoKey] :
        <<k, l>> \in {<<k1, k2>>, <<k2, k1>>}}

FewPools == OneAccount \cup FirstPools \cup ThreeAccounts

\* Enabled accounts with the default label, none of them the legacy key.
PlainAccounts(p) ==
    /\ p.legacy = NoKey
    /\ \A i \in DOMAIN p.keys : p.keys[i] = NewMember(p.keys[i].key, 1, DefaultLabel, FALSE)

\* Requests overlap only while all of them are of RacingOperations and work on
\* plain accounts.
Overlaps ==
    LET active == {h \in Handlers : handlers'[h].pc # "idle"}
    IN Cardinality(active) > 1 =>
          /\ \A h \in active : handlers'[h].op \in RacingOperations
          /\ PlainAccounts(pool') /\ PlainAccounts(file'.accounts)
          /\ \A n \in DOMAIN dir' : dir'[n].label = DefaultLabel /\ ~dir'[n].disabled

MixedSpec == Init /\ [][Next /\ Overlaps]_vars

HandlerSymmetry == Permutations(Handlers)
=============================================================================
