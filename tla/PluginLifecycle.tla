--------------------------- MODULE PluginLifecycle ---------------------------
(***************************************************************************)
(* The calls a host makes, several at once, while it reconfigures the      *)
(* plugin: which configuration a call works on, and under whose lock.      *)
(*                                                                         *)
(* A registration parses a new configuration, hands it to the one          *)
(* management service there is (globalMgmt.cfg) and then swaps the plugin  *)
(* pointer.  A management call hands the service the configuration of the  *)
(* plugin it found, and reads m.cfg again for every statement: to lock it, *)
(* for each setting, and to unlock it.                                     *)
(*                                                                         *)
(* A call evaluates m.cfg for its next statement at the end of the step    *)
(* before it (target); a lock is waited for on the configuration it was    *)
(* evaluated to.  Reads that take and release a lock in one function       *)
(* (members, prefix and so on) are one step.                               *)
(***************************************************************************)
EXTENDS Naturals, Sequences, RWMutex

CONSTANTS
    NoConfig,   \* the nil configuration or plugin
    NumFields,  \* how many settings a settings request reads or writes
    Original    \* the value of a setting as registered

\* A configuration is named by the registration that parsed it; a setting is
\* named by the update that wrote it last.
ASSUME LifecycleAssumption ==
    /\ Configs = Calls
    /\ NoConfig \notin Configs
    /\ Original \notin Calls
    /\ NumFields \in Nat \ {0}

VARIABLES
    host,      \* abiState.host is set
    plugin,    \* abiState.plugin, by its configuration
    service,   \* globalMgmt.cfg
    settings,  \* per configuration and field
    kind,      \* what the host called
    pc,        \* the next statement of the call
    own,       \* the configuration of the plugin the call works for
    target,    \* m.cfg as evaluated for that statement
    held,      \* the configuration whose lock the call took
    seen,      \* the fields read so far, or written so far
    mixed,     \* history: whether calls of two configurations have shared m.cfg
    fate,      \* whether a lock was released that its releaser did not hold
    raced      \* history: shutdown came while a registration was under way

vars == <<lock, host, plugin, service, settings, kind, pc, own, target, held,
          seen, mixed, fate, raced>>

Kinds == {"load", "register", "shutdown", "execute", "get", "update"}
Stages == {"idle", "swap", "service", "sync", "outer", "read", "runlock",
           "announce", "drain", "write", "unlock", "members", "hostcall", "done"}
Fields == 1..NumFields
Values == Calls \cup {Original}

Init ==
    /\ LockInit
    /\ host = TRUE /\ plugin = NoConfig /\ service = NoConfig    \* loaded, not registered
    /\ settings = [c \in Configs |-> [f \in Fields |-> Original]]
    /\ kind = [a \in Calls |-> "none"]
    /\ pc = [a \in Calls |-> "idle"]
    /\ own = [a \in Calls |-> NoConfig]
    /\ target = [a \in Calls |-> NoConfig]
    /\ held = [a \in Calls |-> NoConfig]
    /\ seen = [a \in Calls |-> <<>>]
    /\ mixed = "never"
    /\ fate = "running"
    /\ raced = FALSE

-----------------------------------------------------------------------------
(* Starting and ending                                                     *)

Goes(a, stage) == pc' = [pc EXCEPT ![a] = stage]
Aims(a, c) == target' = [target EXCEPT ![a] = c]
Starts(a, k) == pc[a] = "idle" /\ kind' = [kind EXCEPT ![a] = k]

\* A call that has handed the service its configuration and not returned yet.
UsesService(a) ==
    kind[a] \in {"register", "get", "update"} /\ pc[a] \notin {"idle", "service", "done"}

\* A management call that has.
Manages(a) == kind[a] \in {"get", "update"} /\ UsesService(a)

\* How m.cfg was shared, once it is c: calls of two configurations are using it
\* now, have used it once and returned, or never did.
Sharing(a, c) ==
    IF \E b \in Calls \ {a} : Manages(b) /\ (mixed = "now" \/ service # c) THEN "now"
    ELSE IF mixed = "never" THEN "never" ELSE "once"

\* Mutant of HandsOver: the service keeps the configuration it was built with.
KeepsFirst(a, c) ==
    /\ service' = (IF service = NoConfig THEN c ELSE service)
    /\ mixed' = Sharing(a, c)

\* globalMgmt.cfg = cfg, with no lock; the management calls that had set it to
\* another configuration now work on this one.
HandsOver(a, c) == service' = c /\ mixed' = Sharing(a, c)

Lifecycle == <<host, plugin, kind, own, raced>>
Memory == <<service, settings, mixed>>
Locking == <<lock, held, seen, fate>>

Load(a) ==
    /\ Starts(a, "load") /\ Goes(a, "done")
    /\ host' = TRUE
    /\ UNCHANGED <<plugin, own, target, raced>> /\ UNCHANGED Memory /\ UNCHANGED Locking

Registering == {a \in Calls : kind[a] = "register" /\ pc[a] # "done"}

\* Mutant of Shutdown: only the host pointer is cleared.
ShutdownKeepsPlugin(a) ==
    /\ Starts(a, "shutdown") /\ Goes(a, "done")
    /\ host' = FALSE
    /\ raced' = (raced \/ Registering # {})
    /\ UNCHANGED <<plugin, own, target>> /\ UNCHANGED Memory /\ UNCHANGED Locking

Shutdown(a) ==
    /\ Starts(a, "shutdown") /\ Goes(a, "done")
    /\ plugin' = NoConfig /\ host' = FALSE
    /\ raced' = (raced \/ Registering # {})
    /\ UNCHANGED <<own, target>> /\ UNCHANGED Memory /\ UNCHANGED Locking

\* The host registers a plugin it has loaded.  buildPlugin parses the
\* configuration and hands it to the management service ...
Register(a) ==
    /\ Starts(a, "register") /\ host
    /\ Goes(a, "sync")
    /\ own' = [own EXCEPT ![a] = a]
    /\ HandsOver(a, a) /\ Aims(a, a)
    /\ UNCHANGED <<host, plugin, raced, settings>> /\ UNCHANGED Locking

\* ... and only then does handleRegister publish the new plugin.
Swap(a) ==
    /\ pc[a] = "swap" /\ Goes(a, "done")
    /\ plugin' = own[a]
    /\ UNCHANGED <<host, kind, own, target, raced>> /\ UNCHANGED Memory /\ UNCHANGED Locking

\* Mutant of Capture: the nil check is missing.
CaptureUnchecked(a, k) ==
    /\ Starts(a, k)
    /\ own' = [own EXCEPT ![a] = plugin]
    /\ Goes(a, IF k = "execute" THEN "hostcall" ELSE "service")
    /\ UNCHANGED <<host, plugin, target, raced>> /\ UNCHANGED Memory /\ UNCHANGED Locking

\* currentPlugin: every other call works for the plugin it finds, or fails.
Capture(a, k) ==
    /\ Starts(a, k)
    /\ own' = [own EXCEPT ![a] = plugin]
    /\ Goes(a, IF plugin = NoConfig THEN "done" ELSE IF k = "execute" THEN "members" ELSE "service")
    /\ UNCHANGED <<host, plugin, target, raced>> /\ UNCHANGED Memory /\ UNCHANGED Locking

\* An execution reads the key pool of its own configuration ...
Members(a) ==
    /\ pc[a] = "members" /\ MayRead(own[a])
    /\ Goes(a, "hostcall")
    /\ UNCHANGED target /\ UNCHANGED Lifecycle /\ UNCHANGED Memory /\ UNCHANGED Locking

\* ... and calls the host, or reports that there is none any more.
HostCall(a) ==
    /\ pc[a] = "hostcall" /\ Goes(a, "done")
    /\ UNCHANGED target /\ UNCHANGED Lifecycle /\ UNCHANGED Memory /\ UNCHANGED Locking

-----------------------------------------------------------------------------
(* The management service                                                  *)

TakeService(a) ==
    /\ pc[a] = "service" /\ Goes(a, "sync")
    /\ HandsOver(a, own[a]) /\ Aims(a, own[a])
    /\ UNCHANGED settings /\ UNCHANGED Lifecycle /\ UNCHANGED Locking

\* syncAuthDir reads the accounts; the files it writes are AccountStore's.
Sync(a) ==
    /\ pc[a] = "sync" /\ MayRead(target[a])
    /\ Goes(a, CASE kind[a] = "register" -> "swap"
                 [] kind[a] = "get" -> "outer"
                 [] kind[a] = "update" -> "announce")
    /\ Aims(a, service)
    /\ UNCHANGED Lifecycle /\ UNCHANGED Memory /\ UNCHANGED Locking

\* Mutant of OuterRead: the RLock is gone, its RUnlock is not.
OuterUnlocked(a) ==
    /\ pc[a] = "outer" /\ Goes(a, "read")
    /\ Aims(a, service)
    /\ UNCHANGED Locking /\ UNCHANGED Lifecycle /\ UNCHANGED Memory

\* handleSettings, get: m.cfg.mu.RLock() ...
OuterRead(a) ==
    /\ pc[a] = "outer" /\ MayRead(target[a]) /\ Goes(a, "read")
    /\ Reads(target[a], a)
    /\ held' = [held EXCEPT ![a] = target[a]]
    /\ Aims(a, service)
    /\ UNCHANGED <<seen, fate>> /\ UNCHANGED Lifecycle /\ UNCHANGED Memory

\* ... then m.cfg.prefix() and the others, each of which locks once more ...
ReadField(a) ==
    /\ pc[a] = "read" /\ MayRead(target[a])
    /\ LET f == Len(seen[a]) + 1 IN
       /\ seen' = [seen EXCEPT ![a] = Append(@, settings[target[a]][f])]
       /\ Goes(a, IF f = NumFields THEN "runlock" ELSE "read")
    /\ Aims(a, service)
    /\ UNCHANGED <<lock, held, fate>> /\ UNCHANGED Lifecycle /\ UNCHANGED Memory

\* ... and m.cfg.mu.RUnlock().  A lock nobody reads makes the runtime stop the
\* process; otherwise somebody else's hold is what is given back.
ReleaseRead(a) ==
    /\ pc[a] = "runlock" /\ Goes(a, "done")
    /\ \/ /\ a \in lock[target[a]].readers
          /\ Leaves(target[a], a) /\ UNCHANGED fate
       \/ /\ a \notin lock[target[a]].readers
          /\ fate' = (IF Drained(target[a]) THEN "fatal" ELSE "foreign")
          /\ UNCHANGED lock
    /\ UNCHANGED <<held, seen, target>> /\ UNCHANGED Lifecycle /\ UNCHANGED Memory

\* handleSettings, update, and the account operations: m.cfg.mu.Lock() waits
\* for the writers before it, then keeps new readers out ...
Announce(a) ==
    /\ pc[a] = "announce" /\ MayRead(target[a]) /\ Goes(a, "drain")
    /\ Announces(target[a], a)
    /\ held' = [held EXCEPT ![a] = target[a]]
    /\ UNCHANGED <<seen, fate, target>> /\ UNCHANGED Lifecycle /\ UNCHANGED Memory

\* Mutant of Enter: the writer does not wait for the readers.
EnterAtOnce(a) ==
    /\ pc[a] = "drain" /\ Goes(a, "write")
    /\ Aims(a, service)
    /\ UNCHANGED Lifecycle /\ UNCHANGED Memory /\ UNCHANGED Locking

\* ... and waits for the readers there are.
Enter(a) ==
    /\ pc[a] = "drain" /\ Drained(held[a]) /\ Goes(a, "write")
    /\ Aims(a, service)
    /\ UNCHANGED Lifecycle /\ UNCHANGED Memory /\ UNCHANGED Locking

\* m.cfg.Prefix = pfx, and so on.
WriteField(a) ==
    /\ pc[a] = "write"
    /\ LET f == Len(seen[a]) + 1 IN
       /\ settings' = [settings EXCEPT ![target[a]][f] = a]
       /\ seen' = [seen EXCEPT ![a] = Append(@, a)]
       /\ Goes(a, IF f = NumFields THEN "unlock" ELSE "write")
    /\ Aims(a, service)
    /\ UNCHANGED <<service, mixed, lock, held, fate>> /\ UNCHANGED Lifecycle

\* Mutant of ReleaseWrite: a return that forgets to unlock.
ForgetsUnlock(a) ==
    /\ pc[a] = "unlock" /\ Goes(a, "done")
    /\ UNCHANGED <<held, seen, target, lock, fate>> /\ UNCHANGED Lifecycle /\ UNCHANGED Memory

\* m.cfg.mu.Unlock()
ReleaseWrite(a) ==
    /\ pc[a] = "unlock" /\ Goes(a, "done")
    /\ \/ /\ lock[target[a]].writer = a
          /\ Unlocks(target[a]) /\ UNCHANGED fate
       \/ /\ lock[target[a]].writer # a
          /\ fate' = (IF MayRead(target[a]) THEN "fatal" ELSE "foreign")
          /\ UNCHANGED lock
    /\ UNCHANGED <<held, seen, target>> /\ UNCHANGED Lifecycle /\ UNCHANGED Memory

-----------------------------------------------------------------------------
Begin(a) ==
    \/ Load(a) \/ Shutdown(a) \/ Register(a)
    \/ \E k \in {"execute", "get", "update"} : Capture(a, k)

Step(a) ==
    \/ Swap(a) \/ Members(a) \/ HostCall(a) \/ TakeService(a) \/ Sync(a)
    \/ OuterRead(a) \/ ReadField(a) \/ ReleaseRead(a)
    \/ Announce(a) \/ Enter(a) \/ WriteField(a) \/ ReleaseWrite(a)

\* Nothing is said about what follows the release of a lock not held.
Next == fate = "running" /\ \E a \in Calls : Begin(a) \/ Step(a)

Spec == Init /\ [][Next]_vars

\* Go runs every goroutine that is not blocked; the host need not call.
Fairness == \A a \in Calls : WF_vars(fate = "running" /\ Step(a))
FairSpec == Spec /\ Fairness

-----------------------------------------------------------------------------
(* Properties                                                              *)

\* The type invariant; in it, that no call dereferences a nil configuration:
\* whoever works on the management service has one for the next statement.
TypeOK ==
    /\ LockTypeOK
    /\ host \in BOOLEAN
    /\ plugin \in Configs \cup {NoConfig}
    /\ service \in Configs \cup {NoConfig}
    /\ settings \in [Configs -> [Fields -> Values]]
    /\ kind \in [Calls -> Kinds \cup {"none"}]
    /\ pc \in [Calls -> Stages]
    /\ own \in [Calls -> Configs \cup {NoConfig}]
    /\ target \in [Calls -> Configs \cup {NoConfig}]
    /\ held \in [Calls -> Configs \cup {NoConfig}]
    /\ seen \in [Calls -> Seq(Values)]
    /\ mixed \in {"never", "once", "now"}
    /\ fate \in {"running", "fatal", "foreign"}
    /\ raced \in BOOLEAN
    /\ \A a \in Calls : UsesService(a) => {service, own[a], target[a]} \subseteq Configs

\* The call wants a lock it has to wait for.
Blocked(a) ==
    \/ pc[a] \in {"sync", "outer", "read", "announce"} /\ ~MayRead(target[a])
    \/ pc[a] = "members" /\ ~MayRead(own[a])
    \/ pc[a] = "drain" /\ ~Drained(held[a])

Busy(a) == pc[a] \notin {"idle", "done"}

\* A settings request holds a read lock and waits for another one, of this
\* configuration or of the one m.cfg has become.
NestedWait(a) == pc[a] = "read" /\ Blocked(a)

\* ... for the very lock it holds, which the waiting writer never gets.
WaitsForItself(a) == NestedWait(a) /\ target[a] = held[a]

\* A settings request (management.go:333-338) reports the settings of one
\* update, or as registered, never some of each: its outer read lock keeps
\* updates out between the four reads.  As long as no management call has been
\* at work while a reconfigure, or a call for an older plugin, put another
\* configuration into m.cfg: that may tear the settings for good.
SettingsReadWhole ==
    fate = "running" /\ mixed = "never" =>
        \A a \in Calls : pc[a] = "runlock" =>
            \A f, g \in Fields : seen[a][f] = seen[a][g]

\* An update that is about to unlock has written every setting of the plugin
\* that is served, and nobody has written between, whatever registrations and
\* other calls are under way (management.go:53, 376-381).  Two updates miss the
\* served plugin and are excepted: one called for a plugin that a registration
\* or a shutdown has replaced by now, and one at work while management calls of
\* two configurations share m.cfg.
UpdateReachesServed ==
    fate = "running" /\ mixed # "now" =>
        \A a \in Calls : pc[a] = "unlock" /\ plugin = own[a] =>
            settings[plugin] = [f \in Fields |-> a]

\* Every lock is released by the call that took it: the only way to release
\* another is that m.cfg became another configuration between the two
\* statements (management.go:333-338, 376-381, 452-471), and then calls of the
\* two are still sharing it.
BrokenOnlyWhenMoved == fate # "running" => mixed = "now"

\* The calls never wait for each other in a circle, except through a settings
\* request that waits for a read lock while it holds one.  With the locks of
\* several configurations the circle may go through several such requests,
\* none of which waits for the lock it holds itself.
OnlyNestedReadWedges ==
    fate = "running" /\ (\E a \in Calls : Busy(a)) /\ (\A a \in Calls : Busy(a) => Blocked(a))
        => \E a \in Calls : NestedWait(a)

\* Once the host has shut the plugin down nothing is served without a host,
\* unless a registration was under way (abi.go:174-179, 327-330).
ShutdownUnserves == plugin # NoConfig => host \/ raced

\* Every call returns, unless a lock has been broken or, from some moment on,
\* there is always a settings request that waits for a read lock while it holds
\* one.
EveryCallReturns ==
    \A a \in Calls :
        \/ Busy(a) ~> (~Busy(a) \/ fate # "running")
        \/ <>[](\E b \in Calls : NestedWait(b))

\* abi.go:85: the host may invoke methods concurrently.  No call unlocks a
\* lock that is not locked, which would end the host process.
NoUnlockOfUnlocked == fate # "fatal"

\* abi.go:85: the host may invoke methods concurrently.  No call waits for ever.
NobodyWaitsForItself == \A a \in Calls : ~WaitsForItself(a)
=============================================================================
