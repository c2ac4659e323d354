---------------------------- MODULE AccountStore ---------------------------
(***************************************************************************)
(* The admin service (management.go): requests that change the pool or the *)
(* settings in memory, write them to config.yaml and mirror the accounts   *)
(* into the auth directory.  The host may send requests concurrently       *)
(* (abi.go), memory is guarded by cfg.mu, the files are guarded by         *)
(* nothing.  A crash loses memory; the plugin is registered again with     *)
(* what config.yaml then holds.                                            *)
(*                                                                         *)
(* Abstractions.  config.yaml is found, has the plugin's node, and is      *)
(* reduced to that node: the accounts and the settings (one value for the  *)
(* four fields).  os.WriteFile truncates and then writes, for config.yaml  *)
(* in two steps (see WrittenOver); an auth file is written in one, and     *)
(* removing the stale files (ReadDir and the removals) is one step.  File  *)
(* operations do not fail.  The auth directory does not depend on          *)
(* config.yaml (CPA_AUTH_DIR); what a label and a key make of a file name  *)
(* is left to two constants, of which nothing is assumed.                  *)
(***************************************************************************)
EXTENDS KeyPool

CONSTANTS
    Handlers,        \* the requests that can be in progress at once
    Settings,        \* values of the settings form
    DefaultSettings, \* those of a configuration without any
    Operations,      \* the operations considered
    InitialPools,    \* the pools config.yaml may hold at first
    Names,           \* names of auth files
    AuthFileName,    \* authFileName, of a label and a key
    HashedName       \* the name with the key's hash at its end

\* What a request asks for; "read" stands for every request that changes
\* nothing (the page, list, get, auth/start, an operation that is rejected).
Operation ==
    [kind : {"read", "add", "update", "toggle", "remove", "settings"},
     key : Keys, weight : Weights, label : Labels \cup {NoLabel},
     disabled : {{}, {TRUE}, {FALSE}}, settings : Settings]

ASSUME StoreAssumption ==
    /\ DefaultSettings \in Settings
    /\ Operations \subseteq Operation
    /\ \A o \in Operations : o.kind = "add" => o.weight > 0 /\ o.label # NoLabel
    /\ InitialPools \subseteq Pool

ASSUME NamesAssumption ==
    /\ AuthFileName \in [Labels \X Keys -> Names]
    /\ HashedName \in [Labels \X Keys -> Names]

VARIABLES
    pool,      \* cfg.APIKeys and cfg.APIKey
    settings,  \* the settings fields of cfg
    file,      \* config.yaml
    dir,       \* the cmdc-*.json files, by name
    handlers   \* the local state of each request

vars == <<pool, settings, file, dir, handlers>>

(***************************************************************************)
(* config.yaml: whole, empty between truncation and write, or torn, when   *)
(* it does not parse.                                                      *)
(***************************************************************************)
Unreadable(form) == [accounts |-> [keys |-> <<>>, legacy |-> NoKey],
                     settings |-> DefaultSettings, form |-> form]
Truncated     == Unreadable("empty")
Torn          == Unreadable("torn")
Content(p, s) == [accounts |-> p, settings |-> s, form |-> "whole"]
Broken(f)     == f.form # "whole"

\* Entries of another writer's list that lie beyond the end of one's own.
Beyond(mine, theirs) ==
    [mine EXCEPT !.keys = @ \o SubSeq(theirs.keys, Len(@) + 1, Len(theirs.keys))]

\* What a write leaves of the file.  Of two requests that truncated before
\* either wrote, the second writes over the first from the start: the tail of
\* a longer text stays, and the file does not parse or is a mix of the two.
\* (A mix that lists a key twice is left out.)
WrittenOver(theirs, mine) ==
    {mine}
      \cup (IF theirs.form = "empty" \/ theirs = mine THEN {} ELSE {Torn})
      \cup {Content(p, s) :
               p \in {q \in {mine.accounts, Beyond(mine.accounts, theirs.accounts)} :
                         ~Broken(theirs) /\ Distinct(q.keys)},
               s \in {mine.settings, theirs.settings}}

(***************************************************************************)
(* The auth directory.                                                     *)
(***************************************************************************)
\* A name already used gets the key's hash, and is not looked up again.
NextName(account, used) ==
    LET name == AuthFileName[<<account.label, account.key>>]
    IN IF name \in used THEN HashedName[<<account.label, account.key>>] ELSE name

\* The file of each account, in order.
NameOf(accounts) ==
    LET name[i \in DOMAIN accounts] ==
            NextName(accounts[i], {name[j] : j \in 1..(i-1)})
    IN name
FileName(accounts, i) == NameOf(accounts)[i]
FileNames(accounts) == {FileName(accounts, i) : i \in DOMAIN accounts}

\* The directory of an account list, as a fresh one would be written: the last
\* account of a name has its file.
Mirror(accounts) ==
    LET Holder(n) == CHOOSE i \in DOMAIN accounts :
                        /\ FileName(accounts, i) = n
                        /\ \A j \in DOMAIN accounts : j > i => FileName(accounts, j) # n
    IN [n \in FileNames(accounts) |-> accounts[Holder(n)]]

Written(d, name, account) ==
    [n \in DOMAIN d \cup {name} |-> IF n = name THEN account ELSE d[n]]
\* Mutant of Pruned: stale files stay.
Unpruned(d, names) == d

Pruned(d, names) == [n \in DOMAIN d \cap names |-> d[n]]

(***************************************************************************)
(* The operations on the pool.                                             *)
(***************************************************************************)
Applied(p, o) ==
    CASE o.kind = "add"    -> AddAccount(p, o.key, o.weight, o.label)
      [] o.kind = "update" -> UpdateAccount(p, o.key, o.weight, o.label, o.disabled)
      [] o.kind = "toggle" -> ToggleAccount(p, o.key)
      [] o.kind = "remove" -> RemoveAccount(p, o.key)

\* updateAccount and toggleAccount report an account they do not find.
Accepted(p, o) ==
    /\ o.kind = "update" => CanUpdate(p, o.key)
    /\ o.kind = "toggle" => CanToggle(p, o.key)

(***************************************************************************)
(* A request: HandleManagement, persistAccounts, persistSettings and       *)
(* syncAuthDir.  The last runs twice, on arrival and after a change of     *)
(* accounts; `then` is where it returns to.                                *)
(***************************************************************************)
NoOperation == [kind |-> "none"]
IdleHandler == [pc |-> "idle", op |-> NoOperation, list |-> <<>>, done |-> 0, content |-> Truncated,
                then |-> "", ok |-> TRUE, alone |-> FALSE, before |-> Truncated]

\* Between Arrive and Reply.
Busy(h) == handlers[h].pc # "idle"

Step(h, from, new) ==
    /\ handlers[h].pc = from
    /\ handlers' = [handlers EXCEPT ![h] = new]

\* `alone` and `before` are history: whether no other request overlapped this
\* one, and if so what config.yaml held when it came.
Overlapped(me) == [me EXCEPT !.alone = FALSE, !.before = Truncated]
Arrive(h, o) ==
    LET new == [IdleHandler EXCEPT !.pc = "sync", !.then = "act", !.op = o,
                                   !.alone = TRUE, !.before = file]
    IN /\ ~Busy(h)
       /\ handlers' = [g \in Handlers |->
             IF g # h THEN Overlapped(handlers[g])
             ELSE IF \A i \in Handlers : ~Busy(i) THEN new ELSE Overlapped(new)]
       /\ UNCHANGED <<pool, settings, file, dir>>

SyncList(h) ==
    /\ Step(h, "sync", [handlers[h] EXCEPT !.pc = "write", !.list = Members(pool), !.done = 0])
    /\ UNCHANGED <<pool, settings, file, dir>>

SyncWrite(h) ==
    LET me == handlers[h]
        i  == me.done + 1
    IN /\ i \in DOMAIN me.list
       /\ Step(h, "write", [me EXCEPT !.done = i])
       /\ dir' = Written(dir, FileName(me.list, i), me.list[i])
       /\ UNCHANGED <<pool, settings, file>>

SyncPrune(h) ==
    LET me == handlers[h] IN
    /\ me.done = Len(me.list)
    /\ Step(h, "write", [me EXCEPT !.pc = me.then, !.list = <<>>, !.done = 0])
    /\ dir' = Pruned(dir, FileNames(me.list))
    /\ UNCHANGED <<pool, settings, file>>

\* The critical section of the operation.
Act(h) ==
    LET me == handlers[h]
        o  == me.op
    IN /\ IF o.kind = "read" \/ ~Accepted(pool, o)
          THEN /\ Step(h, "act", [me EXCEPT !.pc = "reply", !.ok = (o.kind = "read")])
               /\ UNCHANGED <<pool, settings>>
          ELSE /\ Step(h, "act", [me EXCEPT !.pc = "read"])
               /\ IF o.kind = "settings" THEN settings' = o.settings /\ UNCHANGED pool
                  ELSE pool' = Applied(pool, o) /\ UNCHANGED settings
       /\ UNCHANGED <<file, dir>>

\* An empty or torn config.yaml fails to update: saving the settings reports it,
\* saving the accounts does not.
Read(h) ==
    LET me == handlers[h] IN
    /\ Step(h, "read",
          IF me.op.kind = "settings"
          THEN IF Broken(file) THEN [me EXCEPT !.pc = "reply", !.ok = FALSE]
                               ELSE [me EXCEPT !.pc = "truncate", !.content = Content(file.accounts, me.op.settings)]
          ELSE [me EXCEPT !.pc = "list", !.content = file])
    /\ UNCHANGED <<pool, settings, file, dir>>

\* Mutant of ListAccounts: the file is written anew, without the settings.
ListAccountsAnew(h) ==
    LET me == handlers[h] IN
    /\ Step(h, "list",
          [me EXCEPT !.pc = "truncate",
               !.content = Content([keys |-> Members(pool), legacy |-> NoKey], DefaultSettings)])
    /\ UNCHANGED <<pool, settings, file, dir>>

\* persistAccounts takes the accounts after it has read the file.
ListAccounts(h) ==
    LET me == handlers[h] IN
    /\ Step(h, "list",
          IF Broken(me.content) THEN [me EXCEPT !.pc = "sync", !.then = "reply"]
          ELSE [me EXCEPT !.pc = "truncate",
                   !.content = Content([keys |-> Members(pool), legacy |-> NoKey], @.settings)])
    /\ UNCHANGED <<pool, settings, file, dir>>

Truncate(h) ==
    /\ Step(h, "truncate", [handlers[h] EXCEPT !.pc = "save"])
    /\ file' = Truncated
    /\ UNCHANGED <<pool, settings, dir>>

Save(h) ==
    LET me == handlers[h] IN
    /\ Step(h, "save", IF me.op.kind = "settings"
                       THEN [me EXCEPT !.pc = "reply", !.content = Truncated]
                       ELSE [me EXCEPT !.pc = "sync", !.then = "reply", !.content = Truncated])
    /\ file' \in WrittenOver(file, me.content)
    /\ UNCHANGED <<pool, settings, dir>>

Reply(h) ==
    /\ Step(h, "reply", IdleHandler)
    /\ UNCHANGED <<pool, settings, file, dir>>

\* The process dies with every request in progress; the next one registers the
\* plugin with what the file holds, and that syncs the directory before any
\* request is served.
Restart ==
    /\ pool' = file.accounts /\ settings' = file.settings
    /\ dir' = Mirror(Members(file.accounts))
    /\ handlers' = [h \in Handlers |-> IdleHandler]
    /\ UNCHANGED file

Init ==
    /\ pool \in InitialPools /\ settings = DefaultSettings
    /\ file = Content(pool, settings)
    /\ dir = Mirror(Members(pool))
    /\ handlers = [h \in Handlers |-> IdleHandler]

Next ==
    \/ \E h \in Handlers :
          \/ \E o \in Operations : Arrive(h, o)
          \/ SyncList(h) \/ SyncWrite(h) \/ SyncPrune(h)
          \/ Act(h) \/ Read(h) \/ ListAccounts(h) \/ Truncate(h) \/ Save(h) \/ Reply(h)
    \/ Restart

Spec == Init /\ [][Next]_vars

-----------------------------------------------------------------------------
File == [accounts : Pool, settings : Settings, form : {"whole", "empty", "torn"}]
Handler == [pc : {"idle", "sync", "write", "act", "read", "list", "truncate", "save", "reply"},
            op : Operations \cup {NoOperation}, list : Seq(Member), done : Nat,
            content : File, then : {"", "act", "reply"}, ok : BOOLEAN,
            alone : BOOLEAN, before : File]

TypeOK ==
    /\ pool \in Pool /\ settings \in Settings /\ file \in File
    /\ DOMAIN dir \subseteq Names
    /\ dir \in [DOMAIN dir -> Member]
    /\ handlers \in [Handlers -> Handler]

\* No name with a hash is the name of another account.
HashesFree(accounts) ==
    LET lk(i) == <<accounts[i].label, accounts[i].key>>
    IN \A i, j \in DOMAIN accounts :
          i # j => HashedName[lk(i)] \notin {AuthFileName[lk(j)], HashedName[lk(j)]}

\* A request that ran alone leaves the directory a mirror of memory, whatever
\* races and crashes came before it, with a file of its own for every account
\* if no hashed name is another's.  After a change of accounts config.yaml
\* lists the accounts in memory, and after one of the settings it holds them,
\* unless an earlier race or crash had left it unreadable: then the first says
\* it has changed them and the file stays as it is, and the second reports it.
AloneRepairs ==
    \A h \in Handlers :
        LET me == handlers[h] IN
        me.alone /\ me.pc = "reply" =>
            /\ dir = Mirror(Members(pool))
            /\ HashesFree(Members(pool)) => Cardinality(DOMAIN dir) = Len(Members(pool))
            /\ me.ok /\ me.op.kind \in {"add", "update", "toggle", "remove"} =>
                  IF Broken(me.before) THEN file = me.before
                  ELSE ~Broken(file) /\ Members(file.accounts) = Members(pool)
            /\ me.op.kind = "settings" =>
                  /\ me.ok = ~Broken(me.before)
                  /\ me.ok => ~Broken(file) /\ file.settings = settings

\* A request that runs alone changes config.yaml in one go: a crash finds what
\* was there before, or what the request makes of it with the other half of
\* the file untouched, except in the one window where the file is empty.
AloneIsAtomic ==
    \A h \in Handlers :
        LET me == handlers[h] IN
        Busy(h) /\ me.alone =>
            \/ file = me.before
            \/ file = Truncated /\ me.pc = "save"
            \/ /\ ~Broken(me.before) /\ me.op.kind # "settings"
               /\ file = Content([keys |-> Members(pool), legacy |-> NoKey], me.before.settings)
            \/ /\ ~Broken(me.before) /\ me.op.kind = "settings"
               /\ file = Content(me.before.accounts, settings)

MemberOf(p, k) == {Members(p)[i] : i \in {j \in DOMAIN Members(p) : Members(p)[j].key = k}}

\* A request changes no account but its own (management.go:465-471, 505-519,
\* 532-541, 555-566), with two exceptions, both of the legacy key: an account
\* added beside it takes its place, and the last one removed brings it back.
OthersUntouched ==
    [][\A h \in Handlers : Act(h) /\ handlers[h].op.kind # "read" =>
          \A k \in Keys \ {handlers[h].op.key} :
             \/ MemberOf(pool', k) = MemberOf(pool, k)
             \/ /\ k = pool.legacy /\ pool.keys = <<>> /\ handlers[h].op.kind = "add"
                /\ MemberOf(pool', k) = {}
             \/ /\ k = pool.legacy /\ pool.keys # <<>> /\ handlers[h].op.kind = "remove"
                /\ pool'.keys = <<>> /\ MemberOf(pool', k) # {}]_vars

\* "Model settings successfully saved and written to config.yaml!": when a
\* settings request has said so and nothing else is under way, config.yaml
\* holds the settings that are in memory.
SavedSettingsStay ==
    \A h \in Handlers :
        /\ handlers[h].op.kind = "settings" /\ handlers[h].pc = "reply" /\ handlers[h].ok
        /\ handlers[h].op.settings = settings
        /\ \A g \in Handlers : handlers[g].pc \in {"idle", "reply"}
        => file.settings = settings

\* "The legacy `api_key: user_...` form is accepted and treated as a
\* single-member pool so existing configs keep working.": adding a member to
\* a pool (addAccount) loses none of those it has.
AddKeepsOthers ==
    [][\A h \in Handlers : handlers[h].op.kind = "add" /\ Act(h) =>
          KeysOf(Members(pool)) \subseteq KeysOf(Members(pool'))]_vars
=============================================================================
