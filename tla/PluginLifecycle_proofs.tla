----------------------- MODULE PluginLifecycle_proofs -----------------------
(***************************************************************************)
(* Proofs about PluginLifecycle, for any number of calls and of settings.  *)
(*                                                                         *)
(* Inv is the inductive invariant.  Its parts: what a call's stage says of *)
(* its kind, its configuration and the fields it has been through          *)
(* (Consistent, Counted); who is registered with which lock (Locks); while *)
(* calls of two configurations do not share m.cfg, that a management call  *)
(* works on its own (Follows) and what it has read and written (Copied,    *)
(* Written); and, if they never did, that settings are of one update       *)
(* (Whole).                                                                *)
(***************************************************************************)
EXTENDS PluginLifecycle, SequenceTheorems, TLAPS

Reading == {"read", "runlock"}
Writing == {"drain", "write", "unlock"}
Inside  == {"write", "unlock"}

\* The stage of a call fits what the host called, and it has the
\* configurations that stage works on.
Consistent ==
    \A a \in Calls :
        /\ pc[a] = "idle" => kind[a] = "none"
        /\ pc[a] = "swap" => kind[a] = "register"
        /\ pc[a] = "service" => kind[a] \in {"get", "update"} /\ own[a] \in Configs
        /\ pc[a] = "members" => own[a] \in Configs
        /\ pc[a] = "sync" => kind[a] \in {"register", "get", "update"}
        /\ pc[a] \in Reading \cup {"outer"} => kind[a] = "get"
        /\ pc[a] \in Writing \cup {"announce"} => kind[a] = "update"
        /\ pc[a] \in Reading \cup Writing => held[a] \in Configs

\* How many fields a call has been through at each stage.
Counted ==
    \A a \in Calls :
        /\ pc[a] \in {"idle", "service", "sync", "outer", "announce", "drain"} => seen[a] = <<>>
        /\ pc[a] \in {"read", "write"} => Len(seen[a]) < NumFields
        /\ pc[a] \in {"runlock", "unlock"} => Len(seen[a]) = NumFields

\* The readers and the writer of a lock are the calls that took it, and a
\* writer that is in is alone.
Locks ==
    /\ \A c \in Configs : \A a \in Calls :
          /\ a \in lock[c].readers <=> pc[a] \in Reading /\ held[a] = c
          /\ lock[c].writer = a <=> pc[a] \in Writing /\ held[a] = c
    /\ \A a \in Calls : pc[a] \in Inside => lock[held[a]].readers = {}

\* The statements of a management call are all about its own configuration.
Follows ==
    \A a \in Calls : Manages(a) =>
        /\ service = own[a] /\ target[a] = own[a]
        /\ pc[a] \in Reading \cup Writing => held[a] = own[a]

\* The settings of a configuration nobody is writing are of one update ...
Whole ==
    \A c \in Configs : (\A a \in Calls : pc[a] \in Inside => held[a] # c) =>
        \A f, g \in Fields : settings[c][f] = settings[c][g]
\* ... what a reader has read is still there ...
Copied ==
    \A a \in Calls : pc[a] \in Reading =>
        \A f \in Fields : f <= Len(seen[a]) => seen[a][f] = settings[held[a]][f]
\* ... and so is what a writer has written.
Written ==
    \A a \in Calls : pc[a] \in Inside =>
        \A f \in Fields : f <= Len(seen[a]) => settings[held[a]][f] = a

\* A registration was called for with a host, or has met a shutdown.
Hosted == Registering # {} => host \/ raced

Inv ==
    /\ TypeOK /\ Consistent /\ Counted
    /\ Hosted /\ ShutdownUnserves
    /\ BrokenOnlyWhenMoved
    /\ fate = "running" => Locks
    /\ fate = "running" /\ mixed # "now" => Follows /\ Copied /\ Written
    /\ fate = "running" /\ mixed = "never" => Whole

-----------------------------------------------------------------------------
\* A plugin just loaded, with every lock free.
LEMMA InitInv == Init => Inv
<1> SUFFICES ASSUME Init PROVE Inv
  OBVIOUS
<1> USE LifecycleAssumption, NoCallAssumption
<1>1. TypeOK
  BY EmptySeq DEF Init, TypeOK, LockInit, LockTypeOK, Stages, Kinds, Values, UsesService
<1>2. Consistent /\ Counted
  BY DEF Init, Consistent, Counted, Reading, Writing
<1>3. Hosted /\ ShutdownUnserves /\ BrokenOnlyWhenMoved
  BY DEF Init, Hosted, ShutdownUnserves, BrokenOnlyWhenMoved
<1>4. Locks /\ Follows
  BY DEF Init, Locks, LockInit, Follows, Manages, UsesService, Reading, Writing, Inside
<1>5. Whole /\ Copied /\ Written
  BY DEF Init, Whole, Copied, Written, Reading, Inside
<1> QED
  BY <1>1, <1>2, <1>3, <1>4, <1>5 DEF Inv

(***************************************************************************)
(* What the operations of the lock, and the write of a setting, change.    *)
(***************************************************************************)
LEMMA ReadsLock ==
    ASSUME LockTypeOK, NEW c \in Configs, NEW r \in Calls, Reads(c, r)
    PROVE  /\ LockTypeOK'
           /\ \A d \in Configs : /\ lock'[d].writer = lock[d].writer
                                 /\ lock'[d].readers = lock[d].readers \cup (IF d = c THEN {r} ELSE {})
<1> DEFINE new == [lock[c] EXCEPT !.readers = @ \cup {r}]
<1>1. lock' = [lock EXCEPT ![c] = new]
  BY DEF Reads, LockTypeOK
<1>2. /\ new \in [readers : SUBSET Calls, writer : Calls \cup {NoCall}]
      /\ new.writer = lock[c].writer /\ new.readers = lock[c].readers \cup {r}
  BY DEF LockTypeOK
<1> HIDE DEF new
<1> QED
  BY <1>1, <1>2 DEF LockTypeOK

\* A reader that leaves changes nothing but who reads that lock.
LEMMA LeavesLock ==
    ASSUME LockTypeOK, NEW c \in Configs, NEW r \in Calls, Leaves(c, r)
    PROVE  /\ LockTypeOK'
           /\ \A d \in Configs : /\ lock'[d].writer = lock[d].writer
                                 /\ lock'[d].readers = lock[d].readers \ (IF d = c THEN {r} ELSE {})
<1> DEFINE new == [lock[c] EXCEPT !.readers = @ \ {r}]
<1>1. lock' = [lock EXCEPT ![c] = new]
  BY DEF Leaves, LockTypeOK
<1>2. /\ new \in [readers : SUBSET Calls, writer : Calls \cup {NoCall}]
      /\ new.writer = lock[c].writer /\ new.readers = lock[c].readers \ {r}
  BY DEF LockTypeOK
<1> HIDE DEF new
<1> QED
  BY <1>1, <1>2 DEF LockTypeOK

\* A writer announcing itself, or unlocking, changes nothing but the writer.
LEMMA WriterLock ==
    ASSUME LockTypeOK, NEW c \in Configs, NEW w \in Calls \cup {NoCall},
           Announces(c, w)
    PROVE  /\ LockTypeOK'
           /\ \A d \in Configs : /\ lock'[d].readers = lock[d].readers
                                 /\ lock'[d].writer = IF d = c THEN w ELSE lock[d].writer
<1> DEFINE new == [lock[c] EXCEPT !.writer = w]
<1>1. lock' = [lock EXCEPT ![c] = new]
  BY DEF LockTypeOK, Announces
<1>2. /\ new \in [readers : SUBSET Calls, writer : Calls \cup {NoCall}]
      /\ new.writer = w /\ new.readers = lock[c].readers
  BY DEF LockTypeOK
<1> HIDE DEF new
<1> QED
  BY <1>1, <1>2 DEF LockTypeOK

\* Writing one field leaves the other fields and configurations alone.
LEMMA OneSetting ==
    ASSUME settings \in [Configs -> [Fields -> Values]],
           NEW c \in Configs, NEW f \in Fields, NEW v \in Values,
           settings' = [settings EXCEPT ![c][f] = v]
    PROVE  /\ settings' \in [Configs -> [Fields -> Values]]
           /\ \A d \in Configs, g \in Fields :
                 settings'[d][g] = IF d = c /\ g = f THEN v ELSE settings[d][g]
<1> DEFINE new == [settings[c] EXCEPT ![f] = v]
<1>1. settings' = [settings EXCEPT ![c] = new]
  OBVIOUS
<1>2. /\ new \in [Fields -> Values]
      /\ \A g \in Fields : new[g] = IF g = f THEN v ELSE settings[c][g]
  OBVIOUS
<1> HIDE DEF new
<1> QED
  BY <1>1, <1>2

\* The field a call reads or writes next.
LEMMA NextField ==
    ASSUME TypeOK, Counted, NEW a \in Calls, pc[a] \in {"read", "write"}
    PROVE  Len(seen[a]) + 1 \in Fields /\ Len(seen[a]) \in Nat
BY LifecycleAssumption DEF TypeOK, Counted, Fields

\* The types, the stages and the counts, when a call begins ...
LEMMA BeginTypes ==
    ASSUME TypeOK, Consistent, Counted, NEW a \in Calls, Begin(a)
    PROVE  TypeOK' /\ Consistent' /\ Counted'
<1> USE LifecycleAssumption DEF Starts, Goes, Aims, HandsOver, Sharing, Memory, Locking
<1>1. CASE Load(a)
  BY <1>1 DEF Load, TypeOK, LockTypeOK, Consistent, Counted, UsesService, Stages, Kinds, Reading, Writing
<1>2. CASE Shutdown(a)
  <2>1. TypeOK'
    <3>1. /\ pc' = [pc EXCEPT ![a] = "done"] /\ kind' = [kind EXCEPT ![a] = "shutdown"]
          /\ plugin' = NoConfig /\ host' = FALSE
          /\ UNCHANGED <<own, target, service, settings, mixed, lock, held, seen, fate>>
      BY <1>2 DEF Shutdown
    <3>2. LockTypeOK'
      BY <3>1 DEF TypeOK, LockTypeOK
    <3>3. pc' \in [Calls -> Stages] /\ kind' \in [Calls -> Kinds \cup {"none"}]
      BY <3>1 DEF TypeOK, Stages, Kinds
    <3>4. raced' \in BOOLEAN
      BY <1>2 DEF Shutdown, TypeOK
    <3>5. \A b \in Calls : UsesService(b)' => UsesService(b)
      BY <3>1 DEF TypeOK, UsesService
    <3> QED
      BY <3>1, <3>2, <3>3, <3>4, <3>5 DEF TypeOK
  <2>2. Consistent' /\ Counted'
    BY <1>2 DEF Shutdown, TypeOK, Consistent, Counted, UsesService, Stages, Kinds, Reading, Writing
  <2> QED
    BY <2>1, <2>2
<1>3. CASE Register(a)
  BY <1>3 DEF Register, TypeOK, LockTypeOK, Consistent, Counted, UsesService, Stages, Kinds, Reading, Writing
<1>4. ASSUME NEW k \in {"execute", "get", "update"}, Capture(a, k)
      PROVE  TypeOK' /\ Consistent' /\ Counted'
  BY <1>4 DEF Capture, TypeOK, LockTypeOK, Consistent, Counted, UsesService, Stages, Kinds, Reading, Writing
<1> QED
  BY <1>1, <1>2, <1>3, <1>4 DEF Begin

\* What a call has been through grows by one field.
LEMMA GrowsByOne ==
    ASSUME seen \in [Calls -> Seq(Values)], NEW a \in Calls, NEW v \in Values,
           seen' = [seen EXCEPT ![a] = Append(@, v)]
    PROVE  /\ seen' \in [Calls -> Seq(Values)]
           /\ Len(seen'[a]) = Len(seen[a]) + 1
           /\ \A b \in Calls \ {a} : seen'[b] = seen[b]
<1>1. seen[a] \in Seq(Values) /\ seen'[a] = Append(seen[a], v)
  OBVIOUS
<1>2. Append(seen[a], v) \in Seq(Values) /\ Len(Append(seen[a], v)) = Len(seen[a]) + 1
  BY <1>1
<1> QED
  BY <1>1, <1>2

\* ... and when it goes on.
LEMMA StepTypes ==
    ASSUME TypeOK, Consistent, Counted, NEW a \in Calls, Step(a)
    PROVE  TypeOK' /\ Consistent' /\ Counted'
<1>f. pc[a] \in {"read", "write"} => Len(seen[a]) + 1 \in Fields /\ Len(seen[a]) \in Nat
  BY NextField
<1>c. pc[a] \in {"sync", "outer", "read", "runlock", "announce", "drain", "write", "unlock"} =>
         target[a] \in Configs /\ service \in Configs
  <2>1. SUFFICES ASSUME pc[a] \in {"sync", "outer", "read", "runlock", "announce", "drain", "write", "unlock"}
                 PROVE  UsesService(a)
    BY DEF TypeOK
  <2> QED
    BY <2>1 DEF Consistent, UsesService, Reading, Writing
<1> USE LifecycleAssumption
    DEF Goes, Aims, Memory, Locking, Lifecycle, TypeOK,
        Consistent, Counted, UsesService, Stages, Kinds, Reading, Writing
<1>0. LockTypeOK /\ (UNCHANGED lock => LockTypeOK')
  BY DEF LockTypeOK
<1>1. CASE Swap(a)
  BY <1>0, <1>1 DEF Swap
<1>2. CASE Members(a)
  BY <1>0, <1>2 DEF Members
<1>3. CASE HostCall(a)
  BY <1>0, <1>3 DEF HostCall
<1>4. CASE TakeService(a)
  BY <1>0, <1>4 DEF TakeService, HandsOver, Sharing
<1>5. CASE Sync(a)
  <2>1. /\ pc[a] = "sync" /\ UNCHANGED <<kind, own, held, seen>>
        /\ pc' = [pc EXCEPT ![a] = CASE kind[a] = "register" -> "swap"
                                     [] kind[a] = "get" -> "outer"
                                     [] kind[a] = "update" -> "announce"]
    BY <1>5 DEF Sync
  <2>2. Consistent' /\ Counted'
    BY <2>1
  <2>3. TypeOK'
    BY <1>0, <1>5, <1>c DEF Sync
  <2> QED
    BY <2>2, <2>3
<1>6. CASE OuterRead(a)
  <2>1. target[a] \in Configs
    BY <1>6, <1>c DEF OuterRead
  <2>2. LockTypeOK'
    BY <1>0, <1>6, <2>1, ReadsLock DEF OuterRead
  <2>3. TypeOK'
    BY <1>6, <2>1, <2>2 DEF OuterRead
  <2>4. Consistent' /\ Counted'
    BY <1>6, <2>1 DEF OuterRead
  <2> QED
    BY <2>3, <2>4
<1>7. CASE ReadField(a)
  <2> DEFINE f == Len(seen[a]) + 1
  <2>1. target[a] \in Configs /\ f \in Fields /\ f \in Nat
    BY <1>7, <1>f, <1>c DEF ReadField
  <2>v. settings[target[a]][f] \in Values
    BY <2>1
  <2>s. seen' = [seen EXCEPT ![a] = Append(@, settings[target[a]][f])]
    BY <1>7 DEF ReadField
  <2>2. /\ seen' \in [Calls -> Seq(Values)] /\ Len(seen'[a]) = f
        /\ \A b \in Calls \ {a} : seen'[b] = seen[b]
    BY <2>v, <2>s, GrowsByOne
  <2>4. f # NumFields => f < NumFields
    BY <2>1 DEF Fields
  <2>5. pc' = [pc EXCEPT ![a] = IF f = NumFields THEN "runlock" ELSE "read"] /\ pc[a] = "read"
    BY <1>7 DEF ReadField
  <2> HIDE DEF f
  <2>6. Counted'
    BY <2>1, <2>2, <2>4, <2>5
  <2>7. Consistent'
    BY <1>7, <2>5 DEF ReadField
  <2> QED
    BY <1>0, <1>7, <2>1, <2>2, <2>5, <2>6, <2>7 DEF ReadField
<1>8. CASE ReleaseRead(a)
  <2>1. target[a] \in Configs
    BY <1>8, <1>c DEF ReleaseRead
  <2>2. LockTypeOK'
    BY <1>0, <1>8, <2>1, LeavesLock DEF ReleaseRead
  <2> QED
    BY <1>8, <2>1, <2>2 DEF ReleaseRead
<1>9. CASE Announce(a)
  <2>1. target[a] \in Configs
    BY <1>9, <1>c DEF Announce
  <2>2. LockTypeOK'
    BY <1>0, <1>9, <2>1, WriterLock DEF Announce
  <2>3. TypeOK'
    BY <1>9, <2>1, <2>2 DEF Announce
  <2>4. Consistent' /\ Counted'
    BY <1>9, <2>1 DEF Announce
  <2> QED
    BY <2>3, <2>4
<1>10. CASE Enter(a)
  BY <1>0, <1>10 DEF Enter
<1>11. CASE WriteField(a)
  <2> DEFINE f == Len(seen[a]) + 1
  <2>1. target[a] \in Configs /\ f \in Fields /\ f \in Nat /\ a \in Values
    BY <1>11, <1>f, <1>c DEF WriteField, Values
  <2>s. seen' = [seen EXCEPT ![a] = Append(@, a)]
    BY <1>11 DEF WriteField
  <2>2. /\ seen' \in [Calls -> Seq(Values)] /\ Len(seen'[a]) = f
        /\ \A b \in Calls \ {a} : seen'[b] = seen[b]
    BY <2>1, <2>s, GrowsByOne
  <2>4. f # NumFields => f < NumFields
    BY <2>1 DEF Fields
  <2>5. settings' \in [Configs -> [Fields -> Values]]
    BY <1>11, <2>1, OneSetting DEF WriteField
  <2> HIDE DEF f
  <2>6. pc' = [pc EXCEPT ![a] = IF f = NumFields THEN "unlock" ELSE "write"] /\ pc[a] = "write"
    BY <1>11 DEF WriteField, f
  <2>7. Counted'
    BY <2>1, <2>2, <2>4, <2>6
  <2>8. Consistent'
    BY <1>11, <2>6 DEF WriteField
  <2>9. TypeOK'
    BY <1>0, <1>11, <1>c, <2>2, <2>5, <2>6 DEF WriteField
  <2> QED
    BY <2>7, <2>8, <2>9
<1>12. CASE ReleaseWrite(a)
  <2>1. target[a] \in Configs
    BY <1>12, <1>c DEF ReleaseWrite
  <2>2. LockTypeOK'
    BY <1>0, <1>12, <2>1, WriterLock DEF ReleaseWrite, Unlocks, Announces
  <2> QED
    BY <1>12, <2>1, <2>2 DEF ReleaseWrite
<1> QED
  BY <1>1, <1>2, <1>3, <1>4, <1>5, <1>6, <1>7, <1>8, <1>9, <1>10, <1>11, <1>12 DEF Step

-----------------------------------------------------------------------------
(***************************************************************************)
(* Who holds which lock.                                                   *)
(***************************************************************************)
\* A step that takes no lock and releases none.
LEMMA LocksKept ==
    ASSUME TypeOK, Consistent, Locks, NEW a \in Calls, UNCHANGED <<lock, held>>,
           \A b \in Calls \ {a} : pc'[b] = pc[b],
           pc'[a] \in Reading <=> pc[a] \in Reading,
           pc'[a] \in Writing <=> pc[a] \in Writing,
           pc'[a] \in Inside => pc[a] \in Inside \/ lock[held[a]].readers = {}
    PROVE  Locks'
<1>1. \A b \in Calls : /\ pc'[b] \in Reading <=> pc[b] \in Reading
                       /\ pc'[b] \in Writing <=> pc[b] \in Writing
                       /\ pc'[b] \in Inside => pc[b] \in Inside \/ lock[held[b]].readers = {}
  OBVIOUS
<1> QED
  BY <1>1 DEF Locks

\* A call that begins takes no lock.
LEMMA BeginLocks ==
    ASSUME TypeOK, Consistent, Locks, NEW a \in Calls, Begin(a)
    PROVE  Locks'
<1>1. /\ UNCHANGED <<lock, held>> /\ pc[a] = "idle"
      /\ \E s \in Stages \ (Reading \cup Writing) : pc' = [pc EXCEPT ![a] = s]
  BY DEF Begin, Load, Shutdown, Register, Capture, Starts, Goes, Locking, Stages, Reading, Writing
<1> QED
  BY <1>1, LocksKept DEF TypeOK, Reading, Writing, Inside

\* Each statement takes, keeps or gives back the lock its stage says.
LEMMA StepLocks ==
    ASSUME TypeOK, Consistent, Locks, NEW a \in Calls, Step(a), fate' = "running"
    PROVE  Locks'
<1> USE DEF Goes, Locking, Reading, Writing, Inside
<1>t. pc \in [Calls -> Stages] /\ LockTypeOK /\ (UsesService(a) => target[a] \in Configs)
  BY DEF TypeOK
<1>k. /\ pc[a] \in {"outer", "read", "runlock", "announce", "drain", "write", "unlock"} => UsesService(a)
      /\ held \in [Calls -> Configs \cup {NoConfig}] /\ NoConfig \notin Configs
  BY LifecycleAssumption DEF TypeOK, Consistent, UsesService
<1>1. CASE Swap(a) \/ Members(a) \/ HostCall(a) \/ TakeService(a)
  BY <1>1, <1>t, LocksKept DEF Swap, Members, HostCall, TakeService
<1>2. CASE Sync(a)
  <2>1. pc[a] = "sync" /\ pc'[a] \in {"swap", "outer", "announce"}
    BY <1>2, <1>t DEF Sync, Consistent
  <2> QED
    BY <1>2, <1>t, <2>1, LocksKept DEF Sync
<1>3. CASE ReadField(a)
  BY <1>3, <1>t, LocksKept DEF ReadField
<1>4. CASE WriteField(a)
  BY <1>4, <1>t, LocksKept DEF WriteField
<1>5. CASE Enter(a)
  BY <1>5, <1>t, LocksKept DEF Enter, Drained
<1>6. CASE OuterRead(a)
  <2>1. target[a] \in Configs /\ lock[target[a]].writer = NoCall
    BY <1>6, <1>t, <1>k DEF OuterRead, MayRead
  <2>2. /\ pc' = [pc EXCEPT ![a] = "read"] /\ held' = [held EXCEPT ![a] = target[a]]
        /\ pc[a] = "outer" /\ Reads(target[a], a)
    BY <1>6 DEF OuterRead
  <2>3. \A d \in Configs : /\ lock'[d].writer = lock[d].writer
                           /\ lock'[d].readers = lock[d].readers \cup (IF d = target[a] THEN {a} ELSE {})
    BY <1>t, <2>1, <2>2, ReadsLock
  <2>4. \A b \in Calls : pc[b] \in Writing => held[b] \in Configs /\ held[b] # target[a]
    BY <2>1, NoCallAssumption DEF Locks, Consistent
  <2> QED
    BY <1>t, <1>k, <2>1, <2>2, <2>3, <2>4 DEF Locks
<1>7. CASE ReleaseRead(a)
  <2>1. /\ target[a] \in Configs /\ pc[a] = "runlock" /\ a \in lock[target[a]].readers
        /\ Leaves(target[a], a) /\ pc' = [pc EXCEPT ![a] = "done"] /\ UNCHANGED held
    BY <1>7, <1>t, <1>k DEF ReleaseRead
  <2>2. \A d \in Configs : /\ lock'[d].writer = lock[d].writer
                           /\ lock'[d].readers = lock[d].readers \ (IF d = target[a] THEN {a} ELSE {})
    BY <1>t, <2>1, LeavesLock
  <2>3. held[a] = target[a] /\ \A b \in Calls : pc[b] \in Writing => held[b] \in Configs
    BY <2>1 DEF Locks, Consistent
  <2> QED
    BY <1>t, <1>k, <2>1, <2>2, <2>3 DEF Locks
<1>8. CASE Announce(a)
  <2>1. target[a] \in Configs /\ lock[target[a]].writer = NoCall
    BY <1>8, <1>t, <1>k DEF Announce, MayRead
  <2>2. /\ pc' = [pc EXCEPT ![a] = "drain"] /\ held' = [held EXCEPT ![a] = target[a]]
        /\ pc[a] = "announce" /\ Announces(target[a], a)
    BY <1>8 DEF Announce
  <2>3. \A d \in Configs : /\ lock'[d].readers = lock[d].readers
                           /\ lock'[d].writer = IF d = target[a] THEN a ELSE lock[d].writer
    BY <1>t, <2>1, <2>2, WriterLock
  <2>4. \A b \in Calls : pc[b] \in Writing => held[b] \in Configs /\ held[b] # target[a]
    BY <2>1, NoCallAssumption DEF Locks, Consistent
  <2> QED
    BY <1>t, <1>k, <2>1, <2>2, <2>3, <2>4 DEF Locks
<1>9. CASE ReleaseWrite(a)
  <2>1. /\ target[a] \in Configs /\ pc[a] = "unlock" /\ lock[target[a]].writer = a
        /\ Announces(target[a], NoCall)
        /\ pc' = [pc EXCEPT ![a] = "done"] /\ UNCHANGED held
    BY <1>9, <1>t, <1>k DEF ReleaseWrite, Unlocks, Announces
  <2>2. \A d \in Configs : /\ lock'[d].readers = lock[d].readers
                           /\ lock'[d].writer = IF d = target[a] THEN NoCall ELSE lock[d].writer
    BY <1>t, <2>1, WriterLock
  <2>3. held[a] = target[a] /\ \A b \in Calls : pc[b] \in Writing => held[b] \in Configs
    BY <2>1 DEF Locks, Consistent
  <2> QED
    BY <1>t, <1>k, <2>1, <2>2, <2>3, NoCallAssumption DEF Locks
<1> QED
  BY <1>1, <1>2, <1>3, <1>4, <1>5, <1>6, <1>7, <1>8, <1>9 DEF Step

-----------------------------------------------------------------------------
(***************************************************************************)
(* A management call works on the configuration it was called for.         *)
(***************************************************************************)
\* Handing over a configuration leaves no call of another at work, or m.cfg is
\* shared.
LEMMA HandsOverFollows ==
    ASSUME TypeOK, mixed # "now" => Follows, mixed' # "now",
           NEW a \in Calls, NEW c, HandsOver(a, c), UNCHANGED held,
           \A b \in Calls \ {a} : /\ kind'[b] = kind[b] /\ pc'[b] = pc[b]
                                  /\ own'[b] = own[b] /\ target'[b] = target[b],
           pc'[a] = "sync", own'[a] = c, target'[a] = c
    PROVE  Follows'
<1>1. service' = c /\ \A b \in Calls \ {a} : Manages(b) => mixed # "now" /\ service = c
  BY DEF HandsOver, Sharing
<1>2. ASSUME NEW b \in Calls \ {a}, Manages(b)'
      PROVE  /\ service' = own'[b] /\ target'[b] = own'[b]
             /\ pc'[b] \in Reading \cup Writing => held'[b] = own'[b]
  <2>1. Manages(b)
    BY <1>2 DEF Manages, UsesService
  <2> QED
    BY <1>1, <2>1 DEF Follows
<1> QED
  BY <1>1, <1>2 DEF Follows, Reading, Writing

\* Any other step leaves the service with its configuration.
LEMMA StaysFollows ==
    ASSUME TypeOK, Follows, NEW a \in Calls, UNCHANGED service,
           \A b \in Calls \ {a} : /\ kind'[b] = kind[b] /\ pc'[b] = pc[b] /\ own'[b] = own[b]
                                  /\ target'[b] = target[b] /\ held'[b] = held[b],
           \/ ~Manages(a)'
           \/ /\ Manages(a) /\ own'[a] = own[a] /\ target'[a] \in {target[a], service}
              /\ pc'[a] \in Reading \cup Writing =>
                    \/ held'[a] = target[a]
                    \/ held'[a] = held[a] /\ pc[a] \in Reading \cup Writing
    PROVE  Follows'
<1>1. \A b \in Calls \ {a} : Manages(b)' <=> Manages(b)
  BY DEF Manages, UsesService
<1>2. ASSUME NEW b \in Calls \ {a}, Manages(b)'
      PROVE  /\ service' = own'[b] /\ target'[b] = own'[b]
             /\ pc'[b] \in Reading \cup Writing => held'[b] = own'[b]
  BY <1>1, <1>2 DEF Follows
<1>3. ASSUME Manages(a)'
      PROVE  /\ service' = own'[a] /\ target'[a] = own'[a]
             /\ pc'[a] \in Reading \cup Writing => held'[a] = own'[a]
  BY <1>3 DEF Follows
<1> QED
  BY <1>2, <1>3 DEF Follows

\* A call that begins works on the configuration it finds.
LEMMA BeginFollows ==
    ASSUME TypeOK, Consistent, mixed # "now" => Follows, mixed' # "now",
           NEW a \in Calls, Begin(a)
    PROVE  Follows'
<1> USE DEF Starts, Goes, Aims, Memory, Locking
<1>1. CASE Load(a) \/ Shutdown(a)
  BY <1>1, StaysFollows DEF Load, Shutdown, TypeOK, Manages, UsesService
<1>2. CASE Register(a)
  BY <1>2, HandsOverFollows DEF Register, TypeOK, Kinds
<1>3. ASSUME NEW k \in {"execute", "get", "update"}, Capture(a, k)
      PROVE  Follows'
  BY <1>3, StaysFollows DEF Capture, TypeOK, Manages, UsesService
<1> QED
  BY <1>1, <1>2, <1>3 DEF Begin

\* A call stays on the configuration it was called for.
LEMMA StepFollows ==
    ASSUME TypeOK, Consistent, mixed # "now" => Follows, mixed' # "now",
           NEW a \in Calls, Step(a)
    PROVE  Follows'
<1> USE DEF Goes, Aims, Memory, Locking, Lifecycle, Reading, Writing
<1>t. /\ pc \in [Calls -> Stages] /\ target \in [Calls -> Configs \cup {NoConfig}]
      /\ held \in [Calls -> Configs \cup {NoConfig}] /\ kind \in [Calls -> Kinds \cup {"none"}]
      /\ own \in [Calls -> Configs \cup {NoConfig}]
  BY DEF TypeOK
<1>k. pc[a] \in {"outer", "read", "runlock", "announce", "drain", "write", "unlock"} => Manages(a)
  BY DEF Consistent, Manages, UsesService
<1>1. CASE TakeService(a)
  BY <1>1, <1>t, HandsOverFollows DEF TakeService
<1>2. CASE Swap(a) \/ HostCall(a)
  BY <1>2, <1>t, StaysFollows DEF Swap, HostCall, Manages, UsesService
<1>3. CASE Members(a)
  BY <1>3, <1>t, StaysFollows DEF Members, Manages, UsesService
<1>4. CASE Sync(a)
  <2>1. /\ pc[a] = "sync" /\ pc'[a] \in {"swap", "outer", "announce"}
        /\ Manages(a)' => Manages(a)
    BY <1>4, <1>t DEF Sync, Consistent, Manages, UsesService
  <2> QED
    BY <1>4, <2>1, <1>t, StaysFollows DEF Sync
<1>5. CASE OuterRead(a) \/ Announce(a)
  BY <1>5, <1>t, <1>k, StaysFollows DEF OuterRead, Announce
<1>6. CASE ReadField(a) \/ Enter(a) \/ WriteField(a)
  BY <1>6, <1>t, <1>k, StaysFollows DEF ReadField, Enter, WriteField
<1>7. CASE ReleaseRead(a) \/ ReleaseWrite(a)
  BY <1>7, <1>t, StaysFollows DEF ReleaseRead, ReleaseWrite, Manages, UsesService
<1> QED
  BY <1>1, <1>2, <1>3, <1>4, <1>5, <1>6, <1>7 DEF Step

-----------------------------------------------------------------------------
(***************************************************************************)
(* What the settings hold.                                                 *)
(***************************************************************************)
\* A step of a call that is not inside a writer's section and reads nothing.
LEMMA SettingsKept ==
    ASSUME TypeOK, Consistent, NEW a \in Calls, UNCHANGED settings,
           \A b \in Calls \ {a} : pc'[b] = pc[b] /\ held'[b] = held[b] /\ seen'[b] = seen[b],
           pc[a] \notin Inside, pc'[a] \notin Inside,
           pc'[a] \in Reading => seen'[a] = <<>>
    PROVE  /\ Whole => Whole'
           /\ Copied => Copied'
           /\ Written => Written'
<1>1. \A b \in Calls : pc'[b] \in Inside => pc[b] \in Inside /\ b # a
  OBVIOUS
<1>2. ASSUME Whole PROVE Whole'
  <2> SUFFICES ASSUME NEW c \in Configs, \A b \in Calls : pc'[b] \in Inside => held'[b] # c
               PROVE  \A f, g \in Fields : settings[c][f] = settings[c][g]
    BY DEF Whole
  <2>1. \A b \in Calls : pc[b] \in Inside => held[b] # c
    OBVIOUS
  <2> QED
    BY <1>2, <2>1 DEF Whole
<1>3. ASSUME Copied PROVE Copied'
  <2> SUFFICES ASSUME NEW b \in Calls, pc'[b] \in Reading, NEW f \in Fields, f <= Len(seen'[b])
               PROVE  seen'[b][f] = settings[held'[b]][f]
    BY DEF Copied
  <2>1. CASE b = a
    BY <2>1 DEF Fields
  <2>2. CASE b # a
    BY <1>3, <2>2 DEF Copied
  <2> QED
    BY <2>1, <2>2
<1>4. ASSUME Written PROVE Written'
  BY <1>1, <1>4 DEF Written
<1> QED
  BY <1>2, <1>3, <1>4

\* A call that begins reads and writes no setting.
LEMMA BeginSettings ==
    ASSUME TypeOK, Consistent, NEW a \in Calls, Begin(a)
    PROVE  /\ Whole => Whole'
           /\ Copied => Copied'
           /\ Written => Written'
<1>1. /\ UNCHANGED <<settings, held, seen>> /\ pc[a] = "idle"
      /\ \E s \in Stages \ (Reading \cup Inside) : pc' = [pc EXCEPT ![a] = s]
  BY DEF Begin, Load, Shutdown, Register, Capture, Starts, Goes, Memory, Locking, Stages, Reading, Inside
<1> QED
  BY <1>1, SettingsKept DEF TypeOK, Inside

\* When no other call uses the service none reads or writes settings.
LEMMA UnsharedSettings ==
    ASSUME TypeOK, Consistent, mixed = "now", mixed' # "now", NEW a \in Calls, Begin(a) \/ Step(a)
    PROVE  Copied' /\ Written'
<1>1. UNCHANGED mixed \/ Register(a) \/ TakeService(a)
  BY DEF Begin, Load, Shutdown, Capture, Step, Swap, Members, HostCall, Sync, OuterRead, ReadField,
         ReleaseRead, Announce, Enter, WriteField, ReleaseWrite, Memory
<1>2. \A b \in Calls \ {a} : ~Manages(b)
  BY <1>1 DEF Register, TakeService, HandsOver, Sharing
<1>3. pc'[a] = "sync" /\ \A b \in Calls \ {a} : pc'[b] = pc[b]
  BY <1>1 DEF Register, TakeService, Starts, Goes, TypeOK
<1>4. \A b \in Calls : pc'[b] \notin Reading \cup Inside
  BY <1>2, <1>3 DEF Manages, UsesService, Consistent, Reading, Writing, Inside
<1> QED
  BY <1>4 DEF Copied, Written

\* A reader keeps every writer of its configuration out.
LEMMA NoWriterBesideReader ==
    ASSUME Consistent, Locks, NEW a \in Calls, pc[a] \in Reading,
           NEW b \in Calls, pc[b] \in Inside
    PROVE  held[b] # held[a]
BY DEF Consistent, Locks, Reading, Writing, Inside

\* Two calls never write under one lock.
LEMMA OneWriter ==
    ASSUME Consistent, Locks, NEW a \in Calls, pc[a] \in Inside,
           NEW b \in Calls \ {a}, pc[b] \in Inside
    PROVE  held[b] # held[a]
BY DEF Consistent, Locks, Writing, Inside

\* What a reader has read stays what is there, since it holds the lock.
LEMMA ReadSettings ==
    ASSUME TypeOK, Consistent, Counted, Locks, Follows, Copied, Written,
           NEW a \in Calls, ReadField(a)
    PROVE  Copied' /\ Written' /\ (Whole => Whole')
<1> DEFINE n == Len(seen[a])
<1>1. /\ pc[a] = "read" /\ pc'[a] \in Reading /\ UNCHANGED <<settings, held>>
      /\ \A b \in Calls \ {a} : pc'[b] = pc[b] /\ seen'[b] = seen[b]
  BY DEF ReadField, Goes, Memory, Lifecycle, TypeOK, Reading
<1>2. target[a] = held[a] /\ held[a] \in Configs
  BY <1>1 DEF Follows, Manages, UsesService, Consistent, Reading
<1>3. n \in Nat /\ n + 1 \in Fields /\ settings[held[a]][n + 1] \in Values
  BY <1>1, <1>2, NextField DEF TypeOK
<1>4. seen[a] \in Seq(Values) /\ seen'[a] = Append(seen[a], settings[held[a]][n + 1])
  BY <1>2 DEF ReadField, TypeOK
<1>5. Written' /\ (Whole => Whole')
  BY <1>1 DEF Whole, Written, Reading, Inside
<1>6. Copied'
  <2> SUFFICES ASSUME NEW b \in Calls, pc'[b] \in Reading, NEW f \in Fields, f <= Len(seen'[b])
               PROVE  seen'[b][f] = settings[held[b]][f]
    BY <1>1 DEF Copied
  <2>1. CASE b # a
    BY <1>1, <2>1 DEF Copied
  <2>2. CASE b = a /\ f = n + 1
    BY <1>3, <1>4, <2>2
  <2>3. CASE b = a /\ f <= n
    <3>1. seen'[a][f] = seen[a][f]
      BY <1>3, <1>4, <2>3 DEF Fields
    <3> QED
      BY <1>1, <2>3, <3>1 DEF Copied, Reading
  <2>4. Len(seen'[a]) = n + 1
    BY <1>3, <1>4
  <2> QED
    BY <1>3, <2>1, <2>2, <2>3, <2>4 DEF Fields
<1> QED
  BY <1>5, <1>6

\* What a writer has written stays, since nobody else may write.
LEMMA WriteSettings ==
    ASSUME TypeOK, Consistent, Counted, Locks, Follows, Copied, Written,
           NEW a \in Calls, WriteField(a)
    PROVE  Copied' /\ Written' /\ (Whole => Whole')
<1> DEFINE n == Len(seen[a])
<1>1. /\ pc[a] = "write" /\ pc'[a] \in Inside /\ UNCHANGED held
      /\ \A b \in Calls \ {a} : pc'[b] = pc[b] /\ seen'[b] = seen[b]
  BY DEF WriteField, Goes, Lifecycle, TypeOK, Inside
<1>2. target[a] = held[a] /\ held[a] \in Configs
  BY <1>1 DEF Follows, Manages, UsesService, Consistent, Writing
<1>3. n \in Nat /\ n + 1 \in Fields /\ a \in Values
  BY <1>1, NextField DEF Values
<1>4. seen[a] \in Seq(Values) /\ seen'[a] = Append(seen[a], a) /\ Len(seen'[a]) = n + 1
  BY <1>3 DEF WriteField, TypeOK
<1>5. \A c \in Configs, g \in Fields :
         settings'[c][g] = IF c = held[a] /\ g = n + 1 THEN a ELSE settings[c][g]
  <2>1. settings' = [settings EXCEPT ![held[a]][n + 1] = a]
    BY <1>2 DEF WriteField
  <2>2. settings \in [Configs -> [Fields -> Values]]
    BY DEF TypeOK
  <2> HIDE DEF n
  <2> QED
    BY <1>2, <1>3, <2>1, <2>2
<1>6. ASSUME Whole PROVE Whole'
  <2> SUFFICES ASSUME NEW c \in Configs, \A b \in Calls : pc'[b] \in Inside => held[b] # c
               PROVE  \A f, g \in Fields : settings'[c][f] = settings'[c][g]
    BY <1>1 DEF Whole
  <2>1. c # held[a] /\ \A b \in Calls : pc[b] \in Inside => held[b] # c
    BY <1>1
  <2> QED
    BY <1>5, <1>6, <2>1 DEF Whole
<1>7. Copied'
  <2> SUFFICES ASSUME NEW b \in Calls, pc'[b] \in Reading, NEW f \in Fields, f <= Len(seen'[b])
               PROVE  seen'[b][f] = settings'[held[b]][f]
    BY <1>1 DEF Copied
  <2>1. b # a /\ pc[b] \in Reading /\ seen'[b] = seen[b] /\ held[b] \in Configs
    BY <1>1 DEF Reading, Inside, Consistent
  <2>2. held[b] # held[a]
    BY <1>1, <2>1, NoWriterBesideReader DEF Inside
  <2> QED
    BY <1>5, <2>1, <2>2 DEF Copied
<1>8. Written'
  <2> SUFFICES ASSUME NEW b \in Calls, pc'[b] \in Inside, NEW f \in Fields, f <= Len(seen'[b])
               PROVE  settings'[held[b]][f] = b
    BY <1>1 DEF Written
  <2>1. CASE b = a
    <3>1. f <= n \/ f = n + 1
      <4>1. f \in Nat /\ f <= n + 1
        BY <1>4, <2>1 DEF Fields
      <4> QED
        BY <1>3, <4>1
    <3>2. f <= n => settings[held[a]][f] = a
      BY <1>1 DEF Written, Inside
    <3> QED
      BY <1>2, <1>5, <2>1, <3>1, <3>2
  <2>2. CASE b # a
    <3>1. pc[b] \in Inside /\ held[b] # held[a] /\ held[b] \in Configs
      BY <1>1, <2>2, OneWriter DEF Inside, Consistent, Writing
    <3> QED
      BY <1>1, <1>5, <2>2, <3>1 DEF Written
  <2> QED
    BY <2>1, <2>2
<1> QED
  BY <1>6, <1>7, <1>8

\* The settings as read, copied and written stay true of every step.
LEMMA StepSettings ==
    ASSUME TypeOK, Consistent, Counted, Locks, Follows, Copied, Written,
           NEW a \in Calls, Step(a)
    PROVE  Copied' /\ Written' /\ (Whole => Whole')
<1> USE DEF Goes, Memory, Locking, Lifecycle
<1>t. pc \in [Calls -> Stages] /\ held \in [Calls -> Configs \cup {NoConfig}]
  BY DEF TypeOK
<1>1. CASE Swap(a) \/ Members(a) \/ HostCall(a) \/ TakeService(a)
  BY <1>1, <1>t, SettingsKept DEF Swap, Members, HostCall, TakeService, Reading, Inside
<1>2. CASE Sync(a)
  <2>1. pc[a] = "sync" /\ pc'[a] \in {"swap", "outer", "announce"}
    BY <1>2, <1>t DEF Sync, Consistent
  <2> QED
    BY <1>2, <1>t, <2>1, SettingsKept DEF Sync, Reading, Inside
<1>3. CASE OuterRead(a) \/ Announce(a)
  BY <1>3, <1>t, SettingsKept DEF OuterRead, Announce, Counted, Reading, Inside
<1>4. CASE ReleaseRead(a)
  BY <1>4, <1>t, SettingsKept DEF ReleaseRead, Reading, Inside
<1>5. CASE ReadField(a)
  BY <1>5, ReadSettings
<1>6. CASE WriteField(a)
  BY <1>6, WriteSettings
<1>7. CASE Enter(a)
  <2>1. /\ pc[a] = "drain" /\ pc' = [pc EXCEPT ![a] = "write"] /\ seen[a] = <<>>
        /\ UNCHANGED <<settings, held, seen>>
    BY <1>7 DEF Enter, Counted
  <2> QED
    BY <1>t, <2>1 DEF Whole, Copied, Written, Reading, Inside, Fields
<1>8. CASE ReleaseWrite(a)
  <2>1. /\ pc[a] = "unlock" /\ pc' = [pc EXCEPT ![a] = "done"] /\ UNCHANGED <<settings, held, seen>>
    BY <1>8 DEF ReleaseWrite
  <2>2. \A f \in Fields : settings[held[a]][f] = a
    BY <2>1 DEF Written, Counted, Inside, Fields
  <2> QED
    BY <1>t, <2>1, <2>2 DEF Whole, Copied, Written, Reading, Inside
<1> QED
  BY <1>1, <1>2, <1>3, <1>4, <1>5, <1>6, <1>7, <1>8 DEF Step

-----------------------------------------------------------------------------
(***************************************************************************)
(* The invariant and what follows from it.                                 *)
(***************************************************************************)
\* A lock is released by another call only while m.cfg is shared.
LEMMA KeepsFate ==
    ASSUME TypeOK, Consistent, Locks, mixed # "now" => Follows, fate = "running",
           NEW a \in Calls, Step(a)
    PROVE  fate' = "running" \/ mixed' = "now"
<1>1. CASE ReleaseRead(a) \/ ReleaseWrite(a)
  <2>1. Manages(a) /\ mixed' = mixed /\ held[a] \in Configs
    BY <1>1 DEF ReleaseRead, ReleaseWrite, Memory, Consistent, Manages, UsesService, Reading, Writing
  <2>2. SUFFICES ASSUME mixed # "now" PROVE fate' = "running"
    BY <2>1
  <2>3. target[a] = held[a]
    BY <1>1, <2>1, <2>2 DEF Follows, ReleaseRead, ReleaseWrite, Reading, Writing
  <2>4. CASE ReleaseRead(a)
    <3>1. a \in lock[target[a]].readers
      BY <2>1, <2>3, <2>4 DEF Locks, Reading, ReleaseRead
    <3> QED
      BY <2>4, <3>1 DEF ReleaseRead
  <2>5. CASE ReleaseWrite(a)
    <3>1. lock[target[a]].writer = a
      BY <2>1, <2>3, <2>5 DEF Locks, Writing, ReleaseWrite
    <3> QED
      BY <2>5, <3>1 DEF ReleaseWrite
  <2> QED
    BY <1>1, <2>4, <2>5
<1>2. CASE ~(ReleaseRead(a) \/ ReleaseWrite(a))
  BY <1>2 DEF Step, Swap, Members, HostCall, TakeService, Sync, OuterRead, ReadField, Announce,
              Enter, WriteField, Locking
<1> QED
  BY <1>1, <1>2

\* Nothing is registered without a host, but for a race with a shutdown.
LEMMA NextHosted ==
    ASSUME TypeOK, Consistent, Hosted, ShutdownUnserves, NEW a \in Calls, Begin(a) \/ Step(a)
    PROVE  Hosted' /\ ShutdownUnserves'
<1> USE DEF Starts, Goes, Lifecycle, TypeOK, Registering, Hosted, ShutdownUnserves
<1>1. CASE Load(a)
  BY <1>1 DEF Load
<1>2. CASE Shutdown(a)
  BY <1>2 DEF Shutdown
<1>3. CASE Register(a)
  BY <1>3 DEF Register
<1>4. CASE \E k \in {"execute", "get", "update"} : Capture(a, k)
  BY <1>4 DEF Capture
<1>5. CASE Step(a)
  <2>1. \A b \in Calls : pc'[b] # "done" => pc[b] # "done"
    BY <1>5 DEF Step, Swap, Members, HostCall, TakeService, Sync, OuterRead, ReadField, ReleaseRead,
                Announce, Enter, WriteField, ReleaseWrite
  <2>2. UNCHANGED <<host, raced, kind>> /\ (UNCHANGED plugin \/ Swap(a))
    BY <1>5 DEF Step, Swap, Members, HostCall, TakeService, Sync, OuterRead, ReadField, ReleaseRead,
                Announce, Enter, WriteField, ReleaseWrite
  <2>3. Swap(a) => kind[a] = "register" /\ pc[a] # "done"
    BY DEF Swap, Consistent
  <2> QED
    BY <2>1, <2>2, <2>3
<1> QED
  BY <1>1, <1>2, <1>3, <1>4, <1>5 DEF Begin

\* Every step keeps the invariant.
LEMMA NextInv ==
    ASSUME Inv, [Next]_vars
    PROVE  Inv'
<1>1. CASE UNCHANGED vars
  BY <1>1 DEF Inv, vars, TypeOK, LockTypeOK, Consistent, Counted, Hosted, ShutdownUnserves,
              BrokenOnlyWhenMoved, Registering, UsesService, Manages, Locks, Follows, Whole,
              Copied, Written
<1>2. ASSUME NEW a \in Calls, Begin(a) \/ Step(a), fate = "running"
      PROVE  Inv'
  <2>1. TypeOK' /\ Consistent' /\ Counted'
    BY <1>2, BeginTypes, StepTypes DEF Inv
  <2>2. Hosted' /\ ShutdownUnserves'
    BY <1>2, NextHosted DEF Inv
  <2>3. BrokenOnlyWhenMoved'
    <3>1. Begin(a) => UNCHANGED fate
      BY DEF Begin, Load, Shutdown, Register, Capture, Locking
    <3> QED
      BY <1>2, <3>1, KeepsFate DEF Inv, BrokenOnlyWhenMoved
  <2>4. fate' = "running" => Locks'
    BY <1>2, BeginLocks, StepLocks DEF Inv
  <2>5. mixed' # "now" => Follows' /\ Copied' /\ Written'
    <3>1. CASE mixed # "now"
      BY <1>2, <3>1, BeginFollows, StepFollows, BeginSettings, StepSettings DEF Inv
    <3>2. CASE mixed = "now"
      BY <1>2, <3>2, BeginFollows, StepFollows, UnsharedSettings DEF Inv
    <3> QED
      BY <3>1, <3>2
  <2>6. mixed' = "never" => mixed = "never"
    BY <1>2 DEF Begin, Load, Shutdown, Register, Capture, Step, Swap, Members, HostCall,
                TakeService, Sync, OuterRead, ReadField, ReleaseRead, Announce, Enter, WriteField,
                ReleaseWrite, HandsOver, Sharing, Memory
  <2>7. mixed' = "never" => Whole'
    BY <1>2, <2>6, BeginSettings, StepSettings DEF Inv
  <2> QED
    BY <2>1, <2>2, <2>3, <2>4, <2>5, <2>7 DEF Inv
<1> QED
  BY <1>1, <1>2 DEF Next

\* The invariant holds throughout.
THEOREM Invariance == Spec => []Inv
BY InitInv, NextInv, PTL DEF Spec

\* Types, and no nil configuration under a call of the management service.
THEOREM TypeCorrect == Spec => []TypeOK
<1>1. Inv => TypeOK
  BY DEF Inv
<1> QED
  BY Invariance, <1>1, PTL

\* A lock is released by the call that took it, unless calls of two
\* configurations share m.cfg.
THEOREM BrokenOnlyWhenMovedAlways == Spec => []BrokenOnlyWhenMoved
<1>1. Inv => BrokenOnlyWhenMoved
  BY DEF Inv
<1> QED
  BY Invariance, <1>1, PTL

\* Nothing is served after a shutdown that met no registration.
THEOREM ShutdownUnservesAlways == Spec => []ShutdownUnserves
<1>1. Inv => ShutdownUnserves
  BY DEF Inv
<1> QED
  BY Invariance, <1>1, PTL

\* A settings request reports the settings of one update.
THEOREM SettingsReadWholeAlways == Spec => []SettingsReadWhole
<1>1. ASSUME Inv, fate = "running", mixed = "never", NEW a \in Calls, pc[a] = "runlock",
             NEW f \in Fields, NEW g \in Fields
      PROVE  seen[a][f] = seen[a][g]
  <2>1. Consistent /\ Locks /\ Whole /\ held[a] \in Configs
    BY <1>1 DEF Inv, Consistent, Reading
  <2>2. \A b \in Calls : pc[b] \in Inside => held[b] # held[a]
    BY <1>1, <2>1, NoWriterBesideReader DEF Reading
  <2>3. settings[held[a]][f] = settings[held[a]][g]
    BY <2>1, <2>2 DEF Whole
  <2>4. seen[a][f] = settings[held[a]][f] /\ seen[a][g] = settings[held[a]][g]
    BY <1>1 DEF Inv, Copied, Counted, Reading, Fields
  <2> QED
    BY <2>3, <2>4
<1>2. Inv => SettingsReadWhole
  BY <1>1 DEF SettingsReadWhole
<1> QED
  BY Invariance, <1>2, PTL

\* An update about to unlock has written every setting of the served plugin,
\* unless that one has been replaced since the update came or calls of two
\* configurations share m.cfg.
THEOREM UpdateReachesServedAlways == Spec => []UpdateReachesServed
<1>1. ASSUME Inv, fate = "running", mixed # "now", NEW a \in Calls, pc[a] = "unlock",
             plugin = own[a]
      PROVE  settings[plugin] = [f \in Fields |-> a]
  <2>1. held[a] = plugin /\ plugin \in Configs
    BY <1>1 DEF Inv, Follows, Consistent, Manages, UsesService, TypeOK, Writing
  <2>2. \A f \in Fields : settings[plugin][f] = a
    BY <1>1, <2>1 DEF Inv, Written, Counted, Inside, Fields
  <2>3. settings[plugin] \in [Fields -> Values]
    BY <1>1, <2>1 DEF Inv, TypeOK
  <2> QED
    BY <2>2, <2>3
<1>2. Inv => UpdateReachesServed
  BY <1>1 DEF UpdateReachesServed
<1> QED
  BY Invariance, <1>2, PTL

\* Calls that wait for each other in a circle include a settings request that
\* waits for a read lock while it holds one: a wait for a lock is a wait for
\* its writer, and a writer waits for readers only.
THEOREM OnlyNestedReadWedgesAlways == Spec => []OnlyNestedReadWedges
<1>1. ASSUME Inv, fate = "running", NEW z \in Calls, Busy(z), \A a \in Calls : Busy(a) => Blocked(a),
             \A a \in Calls : ~NestedWait(a)
      PROVE  FALSE
  <2>1. TypeOK /\ LockTypeOK /\ Consistent /\ Locks
    BY <1>1 DEF Inv, TypeOK
  <2>2. ASSUME NEW c \in Configs PROVE Drained(c)
    <3>1. ASSUME NEW r \in lock[c].readers PROVE FALSE
      <4>1. r \in Calls /\ pc[r] \in Reading
        BY <2>1 DEF LockTypeOK, Locks
      <4>2. Blocked(r)
        BY <1>1, <4>1 DEF Busy, Reading
      <4> QED
        BY <1>1, <4>1, <4>2 DEF Blocked, NestedWait, Reading
    <3> QED
      BY <3>1 DEF Drained
  <2>3. ASSUME NEW c \in Configs PROVE MayRead(c)
    <3> SUFFICES ASSUME lock[c].writer # NoCall PROVE FALSE
      BY DEF MayRead
    <3>1. PICK w \in Calls : lock[c].writer = w
      BY <2>1 DEF LockTypeOK
    <3>2. pc[w] \in Writing /\ held[w] \in Configs
      BY <2>1, <3>1 DEF Locks
    <3>3. Blocked(w)
      BY <1>1, <3>2 DEF Busy, Writing
    <3> QED
      BY <2>2, <3>2, <3>3 DEF Blocked, Writing
  <2>4. Blocked(z)
    BY <1>1
  <2>5. pc[z] \in {"sync", "outer", "read", "announce"} => target[z] \in Configs
    <3>1. pc[z] \in {"sync", "outer", "read", "announce"} => UsesService(z)
      BY <2>1 DEF Consistent, UsesService, Reading, Writing
    <3> QED
      BY <2>1, <3>1 DEF TypeOK
  <2>6. pc[z] = "drain" => held[z] \in Configs
    BY <2>1 DEF Consistent, Writing
  <2>7. pc[z] = "members" => own[z] \in Configs
    BY <2>1 DEF Consistent
  <2> QED
    BY <2>2, <2>3, <2>4, <2>5, <2>6, <2>7 DEF Blocked
<1>2. Inv => OnlyNestedReadWedges
  BY <1>1 DEF OnlyNestedReadWedges
<1> QED
  BY Invariance, <1>2, PTL
=============================================================================
