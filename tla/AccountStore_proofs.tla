------------------------- MODULE AccountStore_proofs ------------------------
(***************************************************************************)
(* Proofs about AccountStore, for every set of concurrent requests, keys,  *)
(* labels, settings and operations.                                        *)
(***************************************************************************)
EXTENDS AccountStore, KeySelection_proofs

PCs == {"idle", "sync", "write", "act", "read", "list", "truncate", "save", "reply"}

\* What the proof needs of a request's local state: its fields, of which L, D,
\* C and B are never looked into, and where a sync returns to.
Local(L, D, C, B) ==
    [pc : PCs, op : Operations \cup {NoOperation}, list : L, done : D, content : C,
     then : {"", "act", "reply"}, ok : BOOLEAN, alone : BOOLEAN, before : B]
Returns(c) ==
    /\ c.pc \in {"sync", "write"} => c.then # ""
    /\ c.pc # "idle" => c.op # NoOperation
Shape(c) == (\E L, D, C, B : c \in Local(L, D, C, B)) /\ Returns(c)

Shapes ==
    /\ handlers = [h \in Handlers |-> handlers[h]]
    /\ \A h \in Handlers : Shape(handlers[h])

\* The file a request is about to write, or has written.
Outcome(me, p, s) ==
    IF me.op.kind = "settings" THEN Content(me.before.accounts, s)
    ELSE Content([keys |-> Members(p), legacy |-> NoKey], me.before.settings)

\* Where a request that runs alone is, and what config.yaml holds there.
Phase(me, f, p, s) ==
    /\ \/ me.pc \in {"act", "read", "list", "truncate"}
       \/ me.pc \in {"sync", "write"} /\ me.then = "act"
       => f = me.before
    /\ me.pc = "read" /\ me.op.kind = "settings" => s = me.op.settings
    /\ me.pc = "list" => me.content = me.before /\ me.op.kind # "settings"
    /\ me.pc \in {"truncate", "save"} => ~Broken(me.before) /\ me.content = Outcome(me, p, s)
    /\ me.pc = "save" => f = Truncated
    /\ me.pc = "reply" \/ (me.pc \in {"sync", "write"} /\ me.then = "reply")
       => f = me.before \/ (~Broken(me.before) /\ f = Outcome(me, p, s))

\* The inductive invariant: no other request is active beside one that runs
\* alone, and the file is what its phase says.
Alone ==
    \A h \in Handlers : Busy(h) /\ handlers[h].alone =>
        /\ \A g \in Handlers : g # h => ~Busy(g)
        /\ Phase(handlers[h], file, pool, settings)
Inv == Shapes /\ Alone

\* An idle handler has the shape of one.
LEMMA IdleShape ==
    Shape(IdleHandler) /\ IdleHandler.pc = "idle" /\ ~IdleHandler.alone
<1>1. /\ IdleHandler \in Local({<<>>}, {0}, {Truncated}, {Truncated})
      /\ IdleHandler.pc = "idle" /\ ~IdleHandler.alone
  BY DEF IdleHandler, Local, PCs
<1> HIDE DEF IdleHandler
<1> QED
  BY <1>1 DEF Shape, Returns

\* A step of an active request h: nobody who runs alone is disturbed by it, as
\* it would be h.
LEMMA OneHandler ==
    ASSUME Inv, NEW h \in Handlers, Busy(h), NEW c,
           handlers' = [handlers EXCEPT ![h] = c],
           Shape(c), c.alone => handlers[h].alone,
           c.alone /\ c.pc # "idle" => Phase(c, file', pool', settings')
    PROVE  Inv'
<1>1. \A g \in Handlers : handlers'[g] = IF g = h THEN c ELSE handlers[g]
  BY DEF Inv, Shapes
<1>2. Shapes'
  BY <1>1 DEF Inv, Shapes
<1>3. ASSUME NEW g \in Handlers, Busy(g)', handlers'[g].alone
      PROVE  /\ \A i \in Handlers : i # g => ~Busy(i)'
             /\ Phase(handlers[g], file, pool, settings)'
  <2>1. g = h
    BY <1>1, <1>3 DEF Inv, Alone, Busy
  <2> QED
    BY <2>1, <1>1, <1>3 DEF Inv, Alone, Busy
<1> QED
  BY <1>2, <1>3 DEF Inv, Alone

\* What an action that starts at `from` tells of the request.
LEMMA Started ==
    ASSUME Inv, NEW h \in Handlers, NEW from \in PCs \ {"idle"}, handlers[h].pc = from
    PROVE  /\ Busy(h) /\ Shape(handlers[h])
           /\ handlers[h].alone => Phase(handlers[h], file, pool, settings)
BY DEF Inv, Shapes, Alone, Busy

\* Nobody asks for no operation.
LEMMA NoSuchOperation == NoOperation \notin Operations
BY StoreAssumption DEF NoOperation, Operation

\* A request that arrives runs alone only when nobody else is active.
LEMMA ArriveInv ==
    ASSUME Inv, NEW h \in Handlers, NEW o \in Operations, Arrive(h, o)
    PROVE  Inv'
<1> DEFINE new == [IdleHandler EXCEPT !.pc = "sync", !.then = "act", !.op = o,
                                      !.alone = TRUE, !.before = file]
           mine == IF \A i \in Handlers : ~Busy(i) THEN new ELSE Overlapped(new)
           theirs(g) == Overlapped(handlers[g])
<1>1. /\ handlers' = [g \in Handlers |-> IF g # h THEN theirs(g) ELSE mine]
      /\ UNCHANGED <<pool, settings, file, dir>> /\ ~Busy(h)
  BY DEF Arrive
<1>2. /\ new \in Local({<<>>}, {0}, {Truncated}, {file})
      /\ new.pc = "sync" /\ new.then = "act" /\ new.before = file /\ new.op # NoOperation
  BY NoSuchOperation DEF IdleHandler, Local, PCs
<1>3. ASSUME NEW c, Shape(c)
      PROVE  Shape(Overlapped(c)) /\ Overlapped(c).pc = c.pc /\ ~Overlapped(c).alone
  <2>1. PICK L, D, C, B : c \in Local(L, D, C, B)
    BY <1>3 DEF Shape
  <2>2. Overlapped(c) \in Local(L, D, C, {Truncated}) /\ Overlapped(c).pc = c.pc
        /\ Overlapped(c).then = c.then /\ ~Overlapped(c).alone /\ Overlapped(c).op = c.op
    BY <2>1 DEF Overlapped, Local
  <2> QED
    BY <2>2, <1>3 DEF Shape, Returns
<1>4. Shape(new)
  <2> HIDE DEF new
  <2> QED
    BY <1>2 DEF Shape, Returns
<1>5. Shape(mine)
  BY <1>3, <1>4
<1>6. \A g \in Handlers : Shape(theirs(g)) /\ ~theirs(g).alone /\ theirs(g).pc = handlers[g].pc
  BY <1>3 DEF Inv, Shapes
<1> HIDE DEF mine, theirs, new
<1>7. \A g \in Handlers : handlers'[g] = IF g # h THEN theirs(g) ELSE mine
  BY <1>1
<1>8. Shapes'
  BY <1>1, <1>5, <1>6, <1>7 DEF Shapes
<1>9. ASSUME NEW g \in Handlers, Busy(g)', handlers'[g].alone
      PROVE  /\ \A i \in Handlers : i # g => ~Busy(i)'
             /\ Phase(handlers[g], file, pool, settings)'
  <2>1. g = h /\ mine.alone
    BY <1>6, <1>7, <1>9
  <2>2. (\A i \in Handlers : ~Busy(i)) /\ mine = new
    BY <2>1, <1>3, <1>4 DEF mine
  <2>3. \A i \in Handlers : i # g => ~Busy(i)'
    BY <2>1, <2>2, <1>6, <1>7 DEF Busy
  <2>4. Phase(new, file', pool', settings')
    BY <1>1, <1>2 DEF Phase
  <2> QED
    BY <2>1, <2>2, <2>3, <2>4, <1>7
<1> QED
  BY <1>8, <1>9 DEF Inv, Alone

\* Listing the accounts leaves the file alone.
LEMMA SyncListInv ==
    ASSUME Inv, NEW h \in Handlers, SyncList(h)
    PROVE  Inv'
<1> DEFINE me == handlers[h]
           list == Members(pool)
           c == [me EXCEPT !.pc = "write", !.list = list, !.done = 0]
<1>1. me.pc = "sync" /\ handlers' = [handlers EXCEPT ![h] = c]
      /\ UNCHANGED <<pool, settings, file, dir>>
  BY DEF SyncList, Step
<1>2. Busy(h) /\ Shape(me) /\ (me.alone => Phase(me, file, pool, settings))
  BY <1>1, Started DEF PCs
<1>3. PICK L, D, C, B : me \in Local(L, D, C, B)
  BY <1>2 DEF Shape
<1> HIDE DEF list
<1>4. /\ c \in Local({list}, {0}, C, B)
      /\ c.pc = "write" /\ c.then = me.then /\ c.alone = me.alone
      /\ c.before = me.before /\ c.op = me.op
  BY <1>3 DEF Local, PCs
<1> HIDE DEF c, me
<1>5. Shape(c)
  BY <1>1, <1>2, <1>4 DEF Shape, Returns
<1>6. c.alone => Phase(c, file', pool', settings')
  BY <1>1, <1>2, <1>4 DEF Phase, Outcome
<1> QED
  BY <1>1, <1>2, <1>4, <1>5, <1>6, OneHandler DEF me

\* Writing into the auth directory leaves config.yaml alone.
LEMMA SyncWriteInv ==
    ASSUME Inv, NEW h \in Handlers, SyncWrite(h)
    PROVE  Inv'
<1> DEFINE me == handlers[h]
           i == me.done + 1
           c == [me EXCEPT !.done = i]
<1>1. me.pc = "write" /\ handlers' = [handlers EXCEPT ![h] = c]
      /\ UNCHANGED <<pool, settings, file>>
  BY DEF SyncWrite, Step
<1>2. Busy(h) /\ Shape(me) /\ (me.alone => Phase(me, file, pool, settings))
  BY <1>1, Started DEF PCs
<1>3. PICK L, D, C, B : me \in Local(L, D, C, B)
  BY <1>2 DEF Shape
<1> HIDE DEF i
<1>4. /\ c \in Local(L, {i}, C, B)
      /\ c.pc = "write" /\ c.then = me.then /\ c.alone = me.alone
      /\ c.before = me.before /\ c.op = me.op
  BY <1>1, <1>3 DEF Local
<1> HIDE DEF c, me
<1>5. Shape(c)
  BY <1>1, <1>2, <1>4 DEF Shape, Returns
<1>6. c.alone => Phase(c, file', pool', settings')
  BY <1>1, <1>2, <1>4 DEF Phase, Outcome
<1> QED
  BY <1>1, <1>2, <1>4, <1>5, <1>6, OneHandler DEF me

\* So does removing from it.
LEMMA SyncPruneInv ==
    ASSUME Inv, NEW h \in Handlers, SyncPrune(h)
    PROVE  Inv'
<1> DEFINE me == handlers[h]
           c == [me EXCEPT !.pc = me.then, !.list = <<>>, !.done = 0]
<1>1. me.pc = "write" /\ handlers' = [handlers EXCEPT ![h] = c]
      /\ UNCHANGED <<pool, settings, file>>
  BY DEF SyncPrune, Step
<1>2. Busy(h) /\ Shape(me) /\ (me.alone => Phase(me, file, pool, settings))
  BY <1>1, Started DEF PCs
<1>3. PICK L, D, C, B : me \in Local(L, D, C, B)
  BY <1>2 DEF Shape
<1>4. me.then \in {"act", "reply"}
  BY <1>1, <1>2, <1>3 DEF Shape, Returns, Local
<1>5. /\ c \in Local({<<>>}, {0}, C, B)
      /\ c.pc = me.then /\ c.then = me.then /\ c.alone = me.alone
      /\ c.before = me.before /\ c.op = me.op
  BY <1>3, <1>4 DEF Local, PCs
<1> HIDE DEF c, me
<1>6. Shape(c)
  BY <1>1, <1>2, <1>4, <1>5 DEF Shape, Returns
<1>7. c.alone => Phase(c, file', pool', settings')
  BY <1>1, <1>2, <1>4, <1>5 DEF Phase, Outcome
<1> QED
  BY <1>1, <1>2, <1>5, <1>6, <1>7, OneHandler DEF me

\* A rejected or reading request is done with the file as it found it; another
\* one has its settings in memory.
LEMMA ActInv ==
    ASSUME Inv, NEW h \in Handlers, Act(h)
    PROVE  Inv'
<1> DEFINE me == handlers[h]
           ok == me.op.kind = "read"
           done == [me EXCEPT !.pc = "reply", !.ok = ok]
           goes == [me EXCEPT !.pc = "read"]
<1>1. /\ me.pc = "act" /\ UNCHANGED file
      /\ \/ handlers' = [handlers EXCEPT ![h] = done]
         \/ /\ handlers' = [handlers EXCEPT ![h] = goes]
            /\ me.op.kind = "settings" => settings' = me.op.settings
  BY DEF Act, Step
<1>2. Busy(h) /\ Shape(me) /\ (me.alone => Phase(me, file, pool, settings))
  BY <1>1, Started DEF PCs
<1>3. PICK L, D, C, B : me \in Local(L, D, C, B)
  BY <1>2 DEF Shape
<1>4. ok \in BOOLEAN
  OBVIOUS
<1> HIDE DEF ok
<1>5. /\ done \in Local(L, D, C, B)
      /\ done.pc = "reply" /\ done.alone = me.alone
      /\ done.before = me.before /\ done.op = me.op
  BY <1>3, <1>4 DEF Local, PCs
<1>6. /\ goes \in Local(L, D, C, B)
      /\ goes.pc = "read" /\ goes.alone = me.alone
      /\ goes.before = me.before /\ goes.op = me.op
  BY <1>3 DEF Local, PCs
<1> HIDE DEF done, goes, me
<1>7. Shape(done) /\ Shape(goes)
  BY <1>1, <1>2, <1>5, <1>6 DEF Shape, Returns
<1>8. CASE handlers' = [handlers EXCEPT ![h] = done]
  <2>1. done.alone => Phase(done, file', pool', settings')
    BY <1>1, <1>2, <1>5 DEF Phase
  <2> QED
    BY <2>1, <1>2, <1>5, <1>7, <1>8, OneHandler DEF me
<1>9. CASE /\ handlers' = [handlers EXCEPT ![h] = goes]
           /\ me.op.kind = "settings" => settings' = me.op.settings
  <2>1. goes.alone => Phase(goes, file', pool', settings')
    BY <1>1, <1>2, <1>6, <1>9 DEF Phase
  <2> QED
    BY <2>1, <1>2, <1>6, <1>7, <1>9, OneHandler DEF me
<1> QED
  BY <1>1, <1>8, <1>9

\* Three ways on: a settings request that found an unreadable file, one that did
\* not, and a request on the accounts.
LEMMA ReadInv ==
    ASSUME Inv, NEW h \in Handlers, Read(h)
    PROVE  Inv'
<1> DEFINE me == handlers[h]
           saved == Content(file.accounts, me.op.settings)
           fails == [me EXCEPT !.pc = "reply", !.ok = FALSE]
           saves == [me EXCEPT !.pc = "truncate", !.content = saved]
           lists == [me EXCEPT !.pc = "list", !.content = file]
<1>1. /\ me.pc = "read" /\ UNCHANGED <<pool, settings, file>>
      /\ \/ handlers' = [handlers EXCEPT ![h] = fails]
         \/ /\ handlers' = [handlers EXCEPT ![h] = saves]
            /\ me.op.kind = "settings" /\ ~Broken(file)
         \/ handlers' = [handlers EXCEPT ![h] = lists] /\ me.op.kind # "settings"
  BY DEF Read, Step
<1>2. Busy(h) /\ Shape(me) /\ (me.alone => Phase(me, file, pool, settings))
  BY <1>1, Started DEF PCs
<1>3. PICK L, D, C, B : me \in Local(L, D, C, B)
  BY <1>2 DEF Shape
<1> HIDE DEF saved
<1>4. /\ fails \in Local(L, D, C, B)
      /\ fails.pc = "reply" /\ fails.alone = me.alone
      /\ fails.before = me.before /\ fails.op = me.op
  BY <1>3 DEF Local, PCs
<1>5. /\ saves \in Local(L, D, {saved}, B)
      /\ saves.pc = "truncate" /\ saves.alone = me.alone /\ saves.content = saved
      /\ saves.before = me.before /\ saves.op = me.op
  BY <1>3 DEF Local, PCs
<1>6. /\ lists \in Local(L, D, {file}, B)
      /\ lists.pc = "list" /\ lists.alone = me.alone /\ lists.content = file
      /\ lists.before = me.before /\ lists.op = me.op
  BY <1>3 DEF Local, PCs
<1> HIDE DEF fails, saves, lists, me
<1>7. Shape(fails) /\ Shape(saves) /\ Shape(lists)
  BY <1>1, <1>2, <1>4, <1>5, <1>6 DEF Shape, Returns
<1>8. CASE handlers' = [handlers EXCEPT ![h] = fails]
  <2>1. fails.alone => Phase(fails, file', pool', settings')
    BY <1>1, <1>2, <1>4 DEF Phase
  <2> QED
    BY <2>1, <1>2, <1>4, <1>7, <1>8, OneHandler DEF me
<1>9. CASE /\ handlers' = [handlers EXCEPT ![h] = saves]
           /\ me.op.kind = "settings" /\ ~Broken(file)
  <2>1. saves.alone => Phase(saves, file', pool', settings')
    BY <1>1, <1>2, <1>5, <1>9 DEF Phase, Outcome, saved
  <2> QED
    BY <2>1, <1>2, <1>5, <1>7, <1>9, OneHandler DEF me
<1>10. CASE handlers' = [handlers EXCEPT ![h] = lists] /\ me.op.kind # "settings"
  <2>1. lists.alone => Phase(lists, file', pool', settings')
    BY <1>1, <1>2, <1>6, <1>10 DEF Phase
  <2> QED
    BY <2>1, <1>2, <1>6, <1>7, <1>10, OneHandler DEF me
<1> QED
  BY <1>1, <1>8, <1>9, <1>10

\* The content to be written is the outcome of the request.
LEMMA ListAccountsInv ==
    ASSUME Inv, NEW h \in Handlers, ListAccounts(h)
    PROVE  Inv'
<1> DEFINE me == handlers[h]
           saved == Content([keys |-> Members(pool), legacy |-> NoKey], me.content.settings)
           syncs == [me EXCEPT !.pc = "sync", !.then = "reply"]
           saves == [me EXCEPT !.pc = "truncate", !.content = saved]
<1>1. /\ me.pc = "list" /\ UNCHANGED <<pool, settings, file>>
      /\ \/ handlers' = [handlers EXCEPT ![h] = syncs]
         \/ handlers' = [handlers EXCEPT ![h] = saves] /\ ~Broken(me.content)
  BY DEF ListAccounts, Step
<1>2. Busy(h) /\ Shape(me) /\ (me.alone => Phase(me, file, pool, settings))
  BY <1>1, Started DEF PCs
<1>3. PICK L, D, C, B : me \in Local(L, D, C, B)
  BY <1>2 DEF Shape
<1> HIDE DEF saved
<1>4. /\ syncs \in Local(L, D, C, B)
      /\ syncs.pc = "sync" /\ syncs.then = "reply" /\ syncs.alone = me.alone
      /\ syncs.before = me.before /\ syncs.op = me.op
  BY <1>3 DEF Local, PCs
<1>5. /\ saves \in Local(L, D, {saved}, B)
      /\ saves.pc = "truncate" /\ saves.alone = me.alone /\ saves.content = saved
      /\ saves.before = me.before /\ saves.op = me.op
  BY <1>3 DEF Local, PCs
<1> HIDE DEF syncs, saves, me
<1>6. Shape(syncs) /\ Shape(saves)
  BY <1>1, <1>2, <1>4, <1>5 DEF Shape, Returns
<1>7. CASE handlers' = [handlers EXCEPT ![h] = syncs]
  <2>1. syncs.alone => Phase(syncs, file', pool', settings')
    BY <1>1, <1>2, <1>4 DEF Phase
  <2> QED
    BY <2>1, <1>2, <1>4, <1>6, <1>7, OneHandler DEF me
<1>8. CASE handlers' = [handlers EXCEPT ![h] = saves] /\ ~Broken(me.content)
  <2>1. saves.alone => Phase(saves, file', pool', settings')
    BY <1>1, <1>2, <1>5, <1>8 DEF Phase, Outcome, saved
  <2> QED
    BY <2>1, <1>2, <1>5, <1>6, <1>8, OneHandler DEF me
<1> QED
  BY <1>1, <1>7, <1>8

\* The file is empty only while a request is about to save.
LEMMA TruncateInv ==
    ASSUME Inv, NEW h \in Handlers, Truncate(h)
    PROVE  Inv'
<1> DEFINE me == handlers[h]
           c == [me EXCEPT !.pc = "save"]
<1>1. /\ me.pc = "truncate" /\ handlers' = [handlers EXCEPT ![h] = c]
      /\ file' = Truncated /\ UNCHANGED <<pool, settings>>
  BY DEF Truncate, Step
<1>2. Busy(h) /\ Shape(me) /\ (me.alone => Phase(me, file, pool, settings))
  BY <1>1, Started DEF PCs
<1>3. PICK L, D, C, B : me \in Local(L, D, C, B)
  BY <1>2 DEF Shape
<1>4. /\ c \in Local(L, D, C, B)
      /\ c.pc = "save" /\ c.alone = me.alone /\ c.content = me.content
      /\ c.before = me.before /\ c.op = me.op
  BY <1>3 DEF Local, PCs
<1> HIDE DEF c, me
<1>5. Shape(c)
  BY <1>1, <1>2, <1>4 DEF Shape, Returns
<1>6. c.alone => Phase(c, file', pool', settings')
  BY <1>1, <1>2, <1>4 DEF Phase, Outcome
<1> QED
  BY <1>1, <1>2, <1>4, <1>5, <1>6, OneHandler DEF me

\* Into an empty file goes what is written, and nothing else.
LEMMA WrittenOnce ==
    ASSUME NEW c, NEW f \in WrittenOver(Truncated, c)
    PROVE  f = c
<1>1. Truncated.form = "empty" /\ Broken(Truncated)
  BY DEF Truncated, Unreadable, Broken
<1> HIDE DEF Truncated
<1> QED
  BY <1>1 DEF WrittenOver

\* What is saved is the content prepared.
LEMMA SaveInv ==
    ASSUME Inv, NEW h \in Handlers, Save(h)
    PROVE  Inv'
<1> DEFINE me == handlers[h]
           replies == [me EXCEPT !.pc = "reply", !.content = Truncated]
           syncs == [me EXCEPT !.pc = "sync", !.then = "reply", !.content = Truncated]
<1>1. /\ me.pc = "save" /\ file' \in WrittenOver(file, me.content) /\ UNCHANGED <<pool, settings>>
      /\ \/ handlers' = [handlers EXCEPT ![h] = replies]
         \/ handlers' = [handlers EXCEPT ![h] = syncs]
  BY DEF Save, Step
<1>2. Busy(h) /\ Shape(me) /\ (me.alone => Phase(me, file, pool, settings))
  BY <1>1, Started DEF PCs
<1>3. PICK L, D, C, B : me \in Local(L, D, C, B)
  BY <1>2 DEF Shape
<1>4. /\ replies \in Local(L, D, {Truncated}, B)
      /\ replies.pc = "reply" /\ replies.alone = me.alone
      /\ replies.before = me.before /\ replies.op = me.op
  <2> HIDE DEF Truncated
  <2> QED
    BY <1>3 DEF Local, PCs
<1>5. /\ syncs \in Local(L, D, {Truncated}, B)
      /\ syncs.pc = "sync" /\ syncs.then = "reply" /\ syncs.alone = me.alone
      /\ syncs.before = me.before /\ syncs.op = me.op
  <2> HIDE DEF Truncated
  <2> QED
    BY <1>3 DEF Local, PCs
<1> HIDE DEF replies, syncs, me
<1>6. Shape(replies) /\ Shape(syncs)
  BY <1>1, <1>2, <1>4, <1>5 DEF Shape, Returns
<1>7. me.alone => file' = me.content
  BY <1>1, <1>2, WrittenOnce DEF Phase
<1>8. /\ replies.alone => Phase(replies, file', pool', settings')
      /\ syncs.alone => Phase(syncs, file', pool', settings')
  BY <1>1, <1>2, <1>4, <1>5, <1>7 DEF Phase, Outcome
<1> QED
  BY <1>1, <1>2, <1>4, <1>5, <1>6, <1>8, OneHandler DEF me

\* A request that has replied is idle.
LEMMA ReplyInv ==
    ASSUME Inv, NEW h \in Handlers, Reply(h)
    PROVE  Inv'
<1>1. handlers[h].pc = "reply" /\ handlers' = [handlers EXCEPT ![h] = IdleHandler]
  BY DEF Reply, Step
<1> QED
  BY <1>1, IdleShape, Started, OneHandler DEF PCs

\* After a crash, and at first, every request is idle.
LEMMA IdleInv ==
    ASSUME handlers = [h \in Handlers |-> IdleHandler]
    PROVE  Inv
BY IdleShape DEF Inv, Shapes, Alone, Busy

\* After a crash every request is idle.
LEMMA RestartInv ==
    ASSUME Restart
    PROVE  Inv'
<1>1. handlers' = [h \in Handlers |-> IdleHandler]
  BY DEF Restart
<1>2. \A h \in Handlers : handlers'[h] = IdleHandler
  BY <1>1
<1> HIDE DEF IdleHandler
<1> QED
  BY <1>1, <1>2, IdleShape DEF Inv, Shapes, Alone, Busy

\* Every step keeps the invariant.
LEMMA InvNext ==
    ASSUME Inv, [Next]_vars
    PROVE  Inv'
<1>1. ASSUME NEW h \in Handlers, NEW o \in Operations, Arrive(h, o) PROVE Inv'
  BY <1>1, ArriveInv
<1>2. ASSUME NEW h \in Handlers,
             SyncList(h) \/ SyncWrite(h) \/ SyncPrune(h) \/ Act(h) \/ Reply(h)
      PROVE  Inv'
  BY <1>2, SyncListInv, SyncWriteInv, SyncPruneInv, ActInv, ReplyInv
<1>3. ASSUME NEW h \in Handlers,
             Read(h) \/ ListAccounts(h) \/ Truncate(h) \/ Save(h)
      PROVE  Inv'
  BY <1>3, ReadInv, ListAccountsInv, TruncateInv, SaveInv
<1>4. CASE UNCHANGED vars
  BY <1>4 DEF vars, Inv, Shapes, Alone, Busy
<1> QED
  BY <1>1, <1>2, <1>3, <1>4, RestartInv DEF Next

\* What the phases say of the file is what the property allows.
LEMMA InvAtomic ==
    ASSUME Inv
    PROVE  AloneIsAtomic
<1> SUFFICES ASSUME NEW h \in Handlers, Busy(h), handlers[h].alone
             PROVE  LET me == handlers[h] IN
                    \/ file = me.before
                    \/ file = Truncated /\ me.pc = "save"
                    \/ /\ ~Broken(me.before) /\ me.op.kind # "settings"
                       /\ file = Content([keys |-> Members(pool), legacy |-> NoKey],
                                         me.before.settings)
                    \/ /\ ~Broken(me.before) /\ me.op.kind = "settings"
                       /\ file = Content(me.before.accounts, settings)
  BY DEF AloneIsAtomic
<1> DEFINE me == handlers[h]
<1>1. Phase(me, file, pool, settings) /\ Shape(me)
  BY DEF Inv, Alone, Shapes
<1>2. me.pc \in PCs \ {"idle"} /\ me.then \in {"", "act", "reply"}
  BY <1>1 DEF Shape, Local, Busy
<1> HIDE DEF me
<1>3. \/ file = me.before
      \/ file = Truncated /\ me.pc = "save"
      \/ ~Broken(me.before) /\ file = Outcome(me, pool, settings)
  BY <1>1, <1>2 DEF Phase, PCs, Shape, Returns
<1> QED
  BY <1>3 DEF Outcome, me

\* A request that runs alone changes config.yaml in one go, but for the window
\* of os.WriteFile, whatever crashes and races there were before it
\* (persistAccounts, persistSettings).
THEOREM AloneIsAtomicAlways == Spec => []AloneIsAtomic
<1>1. Init => Inv
  BY IdleInv DEF Init
<1>2. Inv /\ [Next]_vars => Inv'
  BY InvNext
<1>3. Inv => AloneIsAtomic
  BY InvAtomic
<1> QED
  BY <1>1, <1>2, <1>3, PTL DEF Spec

(***************************************************************************)
(* Types, and the directory as a copy of the accounts.                     *)
(***************************************************************************)

\* A pool's members: distinct, each with a weight.
LEMMA MembersListed ==
    ASSUME NEW p \in Pool
    PROVE  /\ Listed(Members(p)) /\ \A i \in DOMAIN Members(p) : Members(p)[i].weight > 0
           /\ [keys |-> Members(p), legacy |-> NoKey] \in Pool
<1>1. /\ Listed(Members(p)) /\ \A i \in DOMAIN Members(p) : Members(p)[i].weight > 0
  <2>1. CASE Members(p) = <<>>
    <3>1. <<>> \in Seq(Member) /\ DOMAIN <<>> = {}
      OBVIOUS
    <3> QED
      BY <2>1, <3>1 DEF Listed, Distinct
  <2>2. CASE Members(p) # <<>>
    BY <2>2, MembersScheduled DEF Scheduled, Listed
  <2> QED
    BY <2>1, <2>2
<1> HIDE DEF Members
<1>2. [keys |-> Members(p), legacy |-> NoKey] \in Pool
  BY <1>1, PoolIs
<1> QED
  BY <1>1, <1>2

\* Every operation leaves a pool.
LEMMA AppliedPool ==
    ASSUME NEW p \in Pool, NEW o \in Operations, o.kind \notin {"read", "settings"}
    PROVE  Applied(p, o) \in Pool
<1>1. /\ o.kind \in {"add", "update", "toggle", "remove"}
      /\ o.key \in Keys /\ o.weight \in Weights /\ o.label \in Labels \cup {NoLabel}
      /\ o.disabled \in Flags
      /\ o.kind = "add" => o.label \in Labels
  BY StoreAssumption DEF Operation, Flags
<1>2. CASE o.kind = "add"
  BY <1>1, <1>2, AddAccountIs DEF Applied
<1>3. CASE o.kind = "update"
  BY <1>1, <1>3, UpdateAccountIs DEF Applied
<1>4. CASE o.kind = "toggle"
  BY <1>1, <1>4, ToggleAccountIs DEF Applied
<1>5. CASE o.kind = "remove"
  BY <1>1, <1>5, RemoveAccountIs DEF Applied
<1> QED
  BY <1>1, <1>2, <1>3, <1>4, <1>5

Directory(d) == DOMAIN d \subseteq Names /\ d \in [DOMAIN d -> Member]

\* The names that some f gives the accounts, each by those before it.
NamedBy(f, a) ==
    f = [i \in DOMAIN a |-> NextName(a[i], {f[j] : j \in 1..(i-1)})]

\* There are such names.
LEMMA NamedByExists ==
    ASSUME NEW a \in Seq(Member)
    PROVE  \E f : NamedBy(f, a)
<1> DEFINE At(f, i) == NextName(a[i], {f[j] : j \in 1..(i-1)})
           Good(f, n) == f = [i \in 1..n |-> f[i]] /\ \A i \in 1..n : f[i] = At(f, i)
           N == {n \in Nat : \E f : Good(f, n)}
<1>1. 0 \in N
  <2>1. Good([i \in 1..0 |-> 0], 0)
    OBVIOUS
  <2> QED
    BY <2>1
<1>2. ASSUME NEW n \in Nat, n \in N PROVE n + 1 \in N
  <2>1. PICK f : Good(f, n)
    BY <1>2
  <2> DEFINE g == [i \in 1..(n+1) |-> IF i = n + 1 THEN At(f, i) ELSE f[i]]
  <2>2. ASSUME NEW i \in 1..(n+1) PROVE g[i] = At(g, i)
    <3>1. \A j \in 1..(i-1) : j \in 1..n /\ g[j] = f[j]
      OBVIOUS
    <3> HIDE DEF g
    <3>2. {g[j] : j \in 1..(i-1)} = {f[j] : j \in 1..(i-1)}
      BY <3>1
    <3>3. At(g, i) = At(f, i)
      BY <3>2
    <3>4. CASE i = n + 1
      BY <3>3, <3>4 DEF g
    <3>5. CASE i # n + 1
      <4>1. i \in 1..n /\ g[i] = f[i]
        BY <3>5 DEF g
      <4>2. f[i] = At(f, i)
        BY <2>1, <4>1
      <4> QED
        BY <3>3, <4>1, <4>2
    <3> QED
      BY <3>4, <3>5
  <2>3. g = [i \in 1..(n+1) |-> g[i]]
    OBVIOUS
  <2> HIDE DEF g, At
  <2>4. Good(g, n + 1) /\ n + 1 \in Nat
    BY <2>2, <2>3
  <2> HIDE DEF Good
  <2> QED
    BY <2>4
<1> HIDE DEF N
<1>3. Len(a) \in N
  <2>1. Len(a) \in Nat
    OBVIOUS
  <2> QED
    BY <1>1, <1>2, <2>1, Induct
<1>4. PICK f : Good(f, Len(a))
  BY <1>3 DEF N
<1>5. DOMAIN a = 1..Len(a) /\ f = [i \in 1..Len(a) |-> f[i]]
  <2>1. DOMAIN a = 1..Len(a)
    OBVIOUS
  <2> QED
    BY <1>4, <2>1
<1> HIDE DEF At
<1>6. f = [i \in DOMAIN a |-> At(f, i)]
  BY <1>4, <1>5
<1> QED
  BY <1>6 DEF NamedBy, At

\* The file of an account is named by those before it.
LEMMA FileNameIs ==
    ASSUME NEW a \in Seq(Member)
    PROVE  \A i \in DOMAIN a :
              FileName(a, i) = NextName(a[i], {FileName(a, j) : j \in 1..(i-1)})
<1> DEFINE f == CHOOSE f : NamedBy(f, a)
<1>1. NamedBy(f, a)
  BY NamedByExists, Zenon
<1>2. NameOf(a) = f
  BY DEF NameOf, NamedBy
<1> HIDE DEF f
<1>3. \A i \in DOMAIN a : f[i] = NextName(a[i], {f[j] : j \in 1..(i-1)})
  BY <1>1 DEF NamedBy
<1> QED
  BY <1>2, <1>3 DEF FileName

\* Each account has a file name; one of its own if no hashed name is another's.
LEMMA FileNamesDiffer ==
    ASSUME NEW a \in Seq(Member)
    PROVE  /\ \A i \in DOMAIN a : FileName(a, i) \in Names /\ a[i] \in Member
           /\ HashesFree(a) => \A i, j \in DOMAIN a : FileName(a, i) = FileName(a, j) => i = j
<1> DEFINE plain(i)  == AuthFileName[<<a[i].label, a[i].key>>]
           hashed(i) == HashedName[<<a[i].label, a[i].key>>]
           before(i) == {FileName(a, j) : j \in 1..(i-1)}
<1>1. /\ \A i \in DOMAIN a : i \in Nat /\ a[i] \in Member /\ <<a[i].label, a[i].key>> \in Labels \X Keys
      /\ DOMAIN a = 1..Len(a) /\ Len(a) \in Nat
  <2>1. \A i \in DOMAIN a : i \in Nat /\ a[i] \in Member
    OBVIOUS
  <2>2. \A m \in Member : m.key \in Keys /\ m.label \in Labels
    BY DEF Member
  <2> QED
    BY <2>1, <2>2
<1>2. \A i \in DOMAIN a : FileName(a, i) = IF plain(i) \in before(i) THEN hashed(i) ELSE plain(i)
  BY FileNameIs DEF NextName
<1>3. \A i \in DOMAIN a : plain(i) \in Names /\ hashed(i) \in Names
  BY <1>1, NamesAssumption
<1>4. HashesFree(a) => \A i, j \in DOMAIN a : i # j => hashed(i) # plain(j) /\ hashed(i) # hashed(j)
  BY DEF HashesFree
<1>5. \A i, j \in DOMAIN a : i < j => FileName(a, i) \in before(j)
  BY <1>1
<1> HIDE DEF plain, hashed, before
<1>6. \A i \in DOMAIN a : FileName(a, i) \in Names
  BY <1>2, <1>3
<1>7. HashesFree(a) => \A i, j \in DOMAIN a : i < j => FileName(a, i) # FileName(a, j)
  <2> SUFFICES ASSUME HashesFree(a), NEW i \in DOMAIN a, NEW j \in DOMAIN a, i < j,
                      FileName(a, i) = FileName(a, j)
               PROVE  FALSE
    OBVIOUS
  <2>1. FileName(a, j) = hashed(j)
    BY <1>2, <1>5
  <2>2. FileName(a, i) \in {plain(i), hashed(i)} /\ i # j
    BY <1>1, <1>2
  <2> QED
    BY <1>4, <2>1, <2>2
<1>8. \A i, j \in DOMAIN a : i = j \/ i < j \/ j < i
  BY <1>1
<1> QED
  BY <1>1, <1>6, <1>7, <1>8

\* Of the accounts that share a name, one comes last.
LEMMA LastOf ==
    ASSUME NEW a \in Seq(Member), NEW n \in FileNames(a)
    PROVE  \E i \in DOMAIN a : /\ FileName(a, i) = n
                               /\ \A j \in DOMAIN a : j > i => FileName(a, j) # n
<1> DEFINE c == [i \in 1..Len(a) |-> IF FileName(a, i) = n THEN i ELSE 0]
<1>1. DOMAIN a = 1..Len(a) /\ Len(a) \in Nat
  OBVIOUS
<1>2. PICK k \in 1..Len(a) : FileName(a, k) = n
  BY <1>1 DEF FileNames
<1>3. Len(a) \in Nat \ {0} /\ c \in [1..Len(a) -> Int] /\ c[k] > 0
  BY <1>1, <1>2
<1>4. \A i \in 1..Len(a) : c[i] = IF FileName(a, i) = n THEN i ELSE 0
  OBVIOUS
<1> HIDE DEF c
<1>5. PICK i \in 1..Len(a) : \A j \in 1..Len(a) : c[j] < c[i] \/ (c[j] = c[i] /\ i <= j)
  BY <1>3, FirstGreatest
<1>6. c[i] > 0
  <2>1. c[k] < c[i] \/ c[k] = c[i]
    BY <1>5
  <2>2. c[k] \in Int /\ c[i] \in Int
    BY <1>3
  <2> QED
    BY <1>3, <2>1, <2>2
<1>7. FileName(a, i) = n /\ c[i] = i
  BY <1>4, <1>6
<1>8. \A j \in 1..Len(a) : j > i => FileName(a, j) # n
  BY <1>4, <1>5, <1>7
<1> QED
  BY <1>1, <1>7, <1>8

\* Account i holds its file: those after it have other names.
Holds(a, i) == \A j \in DOMAIN a : j > i => FileName(a, j) # FileName(a, i)

\* A directory with these files and no others is the mirror of the accounts.
LEMMA MirrorIs ==
    ASSUME NEW a, Listed(a)
    PROVE  /\ Directory(Mirror(a)) /\ DOMAIN Mirror(a) = FileNames(a)
           /\ HashesFree(a) => Cardinality(FileNames(a)) = Len(a)
           /\ \A d : /\ d = [n \in FileNames(a) |-> d[n]]
                     /\ \A i \in DOMAIN a : Holds(a, i) => d[FileName(a, i)] = a[i]
                     => d = Mirror(a)
<1> DEFINE N == FileNames(a)
           of(n) == CHOOSE i \in DOMAIN a :
                       /\ FileName(a, i) = n
                       /\ \A j \in DOMAIN a : j > i => FileName(a, j) # n
<1>1. /\ \A i \in DOMAIN a : FileName(a, i) \in Names /\ a[i] \in Member
      /\ HashesFree(a) => \A i, j \in DOMAIN a : FileName(a, i) = FileName(a, j) => i = j
  BY FileNamesDiffer DEF Listed
<1>2. \A n \in N : of(n) \in DOMAIN a /\ FileName(a, of(n)) = n /\ Holds(a, of(n))
  <2> SUFFICES ASSUME NEW n \in N
               PROVE  of(n) \in DOMAIN a /\ FileName(a, of(n)) = n /\ Holds(a, of(n))
    OBVIOUS
  <2>1. \E i \in DOMAIN a : /\ FileName(a, i) = n
                            /\ \A j \in DOMAIN a : j > i => FileName(a, j) # n
    BY LastOf DEF Listed
  <2>2. /\ of(n) \in DOMAIN a /\ FileName(a, of(n)) = n
        /\ \A j \in DOMAIN a : j > of(n) => FileName(a, j) # n
    BY <2>1, Zenon
  <2> HIDE DEF of
  <2> QED
    BY <2>2 DEF Holds
<1>3. Mirror(a) = [n \in N |-> a[of(n)]]
  BY DEF Mirror
<1>4. \A i \in DOMAIN a : FileName(a, i) \in N
  BY DEF FileNames
<1> HIDE DEF of
<1>5. Directory(Mirror(a)) /\ DOMAIN Mirror(a) = N
  <2>1. \A n \in N : n \in Names /\ a[of(n)] \in Member
    <3> HIDE DEF N
    <3> QED
      BY <1>1, <1>2
  <2> HIDE DEF N
  <2> QED
    BY <2>1, <1>3 DEF Directory
<1>6. ASSUME HashesFree(a) PROVE Cardinality(N) = Len(a)
  <2> DEFINE f == [i \in 1..Len(a) |-> FileName(a, i)]
  <2>1. DOMAIN a = 1..Len(a) /\ Len(a) \in Nat
    BY DEF Listed
  <2>2. \A n \in N : \E i \in 1..Len(a) : FileName(a, i) = n
    BY <2>1 DEF FileNames
  <2> HIDE DEF N
  <2>3. f \in Bijection(1..Len(a), N)
    BY <1>1, <1>4, <1>6, <2>1, <2>2 DEF Bijection, Injection, Surjection, IsInjective
  <2> QED
    BY <2>1, <2>3, FS_CountingElements DEF ExistsBijection
<1> HIDE DEF N
<1>7. ASSUME NEW d, d = [n \in N |-> d[n]],
             \A i \in DOMAIN a : Holds(a, i) => d[FileName(a, i)] = a[i]
      PROVE  d = Mirror(a)
  <2>1. \A n \in N : d[n] = a[of(n)]
    BY <1>2, <1>7
  <2> QED
    BY <2>1, <1>3, <1>7
<1> QED
  BY <1>5, <1>6, <1>7 DEF N

\* Writing a file of an account, and removing the files of no account.
LEMMA DirectoryKept ==
    ASSUME NEW d, Directory(d)
    PROVE  /\ \A n \in Names, m \in Member : Directory(Written(d, n, m))
           /\ \A ns : Directory(Pruned(d, ns))
<1>1. ASSUME NEW n \in Names, NEW m \in Member PROVE Directory(Written(d, n, m))
  <2>1. /\ DOMAIN Written(d, n, m) = DOMAIN d \cup {n}
        /\ \A x \in DOMAIN d \cup {n} : Written(d, n, m)[x] = IF x = n THEN m ELSE d[x]
        /\ Written(d, n, m) = [x \in DOMAIN d \cup {n} |-> Written(d, n, m)[x]]
    BY DEF Written
  <2> QED
    BY <2>1 DEF Directory
<1>2. ASSUME NEW ns PROVE Directory(Pruned(d, ns))
  BY DEF Pruned, Directory
<1> QED
  BY <1>1, <1>2

\* What is written to config.yaml.
LEMMA FileTypes ==
    /\ Truncated \in File /\ Torn \in File
    /\ \A p \in Pool, s \in Settings : Content(p, s) \in File
<1>1. [keys |-> <<>>, legacy |-> NoKey] \in Pool
  <2>1. <<>> \in Seq(Member) /\ DOMAIN <<>> = {}
    OBVIOUS
  <2> QED
    BY <2>1 DEF Pool, Distinct
<1>2. Truncated \in File /\ Torn \in File
  BY <1>1, StoreAssumption DEF Truncated, Torn, Unreadable, File
<1>3. \A p \in Pool, s \in Settings : Content(p, s) \in File
  BY DEF Content, File
<1> QED
  BY <1>2, <1>3

\* What a write over another request's file leaves.
LEMMA WrittenType ==
    ASSUME NEW f \in File, NEW c \in File
    PROVE  WrittenOver(f, c) \subseteq File
<1>1. /\ f.accounts \in Pool /\ f.settings \in Settings
      /\ c.accounts \in Pool /\ c.settings \in Settings
  BY DEF File
<1>2. ASSUME Distinct(Beyond(c.accounts, f.accounts).keys)
      PROVE  Beyond(c.accounts, f.accounts) \in Pool
  <2> DEFINE p == c.accounts
             rest == SubSeq(f.accounts.keys, Len(p.keys) + 1, Len(f.accounts.keys))
             longer == p.keys \o rest
             q == Beyond(p, f.accounts)
  <2>1. /\ p.keys \in Seq(Member) /\ p.legacy \in Keys \cup {NoKey}
        /\ f.accounts.keys \in Seq(Member) /\ p = [keys |-> p.keys, legacy |-> p.legacy]
    BY <1>1 DEF Pool
  <2>2. rest \in Seq(Member)
    BY <2>1
  <2> HIDE DEF p, rest
  <2>3. longer \in Seq(Member)
    BY <2>1, <2>2
  <2>4. q = [keys |-> longer, legacy |-> p.legacy]
    <3>1. p \in [keys : Seq(Member), legacy : Keys \cup {NoKey}]
      BY <2>1
    <3>2. \A r : [p EXCEPT !.keys = r] = [keys |-> r, legacy |-> p.legacy]
      BY <3>1
    <3>3. q = [p EXCEPT !.keys = longer]
      BY DEF Beyond, rest
    <3> HIDE DEF longer, q
    <3> QED
      BY <3>2, <3>3
  <2> HIDE DEF longer, q
  <2>5. q \in [keys : Seq(Member), legacy : Keys \cup {NoKey}] /\ q.keys = longer
    BY <2>1, <2>3, <2>4
  <2> QED
    BY <1>2, <2>5 DEF Pool, q, p
<1>3. Torn \in File /\ \A p \in Pool, s \in Settings : Content(p, s) \in File
  BY FileTypes
<1> HIDE DEF Torn
<1>4. \A q \in {c.accounts, Beyond(c.accounts, f.accounts)} : Distinct(q.keys) => q \in Pool
  BY <1>1, <1>2
<1> QED
  BY <1>1, <1>3, <1>4 DEF WrittenOver

\* An idle handler, and one that begins.
LEMMA IdleType ==
    /\ IdleHandler \in Handler
    /\ \A o \in Operations, f \in File :
          [IdleHandler EXCEPT !.pc = "sync", !.then = "act", !.op = o,
                              !.alone = TRUE, !.before = f] \in Handler
    /\ \A c \in Handler : Overlapped(c) \in Handler
<1>1. Truncated \in File /\ <<>> \in Seq(Member)
  BY FileTypes
<1> HIDE DEF Truncated, File
<1> QED
  BY <1>1 DEF IdleHandler, Handler, Overlapped

\* What a request's local state is made of.
LEMMA HandlerFields ==
    \A c \in Handler : /\ c.op \in Operations \cup {NoOperation} /\ c.list \in Seq(Member)
                       /\ c.done \in Nat /\ c.content \in File /\ c.then \in {"", "act", "reply"}
BY DEF Handler

\* A step of request h to a well-typed local state.
LEMMA OneType ==
    ASSUME TypeOK, NEW h \in Handlers, NEW from, NEW c \in Handler, Step(h, from, c)
    PROVE  handlers' \in [Handlers -> Handler]
BY DEF Step, TypeOK

\* Every step keeps the types.
LEMMA TypeNext ==
    ASSUME TypeOK, Inv, [Next]_vars
    PROVE  TypeOK'
<1>1. /\ pool \in Pool /\ settings \in Settings /\ file \in File /\ Directory(dir)
      /\ handlers \in [Handlers -> Handler]
      /\ \A h \in Handlers : handlers[h] \in Handler
  BY DEF TypeOK, Directory
<1>2. file.accounts \in Pool /\ file.settings \in Settings
  BY <1>1 DEF File
<1>3. \A p \in Pool : Listed(Members(p)) /\ [keys |-> Members(p), legacy |-> NoKey] \in Pool
  BY MembersListed
<1>4. \A c \in Handler : /\ c.op \in Operations \cup {NoOperation} /\ c.list \in Seq(Member)
                         /\ c.done \in Nat /\ c.content \in File /\ c.then \in {"", "act", "reply"}
  BY HandlerFields
<1>5. \A h \in Handlers : /\ handlers[h].pc = "write" => handlers[h].then \in {"act", "reply"}
                          /\ handlers[h].pc # "idle" => handlers[h].op \in Operations
  <2> SUFFICES ASSUME NEW h \in Handlers
               PROVE  /\ handlers[h].pc = "write" => handlers[h].then \in {"act", "reply"}
                      /\ handlers[h].pc # "idle" => handlers[h].op \in Operations
    OBVIOUS
  <2>1. Returns(handlers[h])
    BY DEF Inv, Shapes, Shape
  <2>2. /\ handlers[h].op \in Operations \cup {NoOperation}
        /\ handlers[h].then \in {"", "act", "reply"}
    BY <1>1, <1>4
  <2> QED
    BY <2>1, <2>2 DEF Returns
<1> HIDE DEF Members
<1> DEFINE Goal == /\ pool' \in Pool /\ settings' \in Settings /\ file' \in File
                   /\ Directory(dir') /\ handlers' \in [Handlers -> Handler]
<1>6. Goal => TypeOK'
  BY DEF TypeOK, Directory
<1> SUFFICES Goal
  BY <1>6
<1>7. ASSUME NEW h \in Handlers, NEW o \in Operations, Arrive(h, o) PROVE Goal
  <2> DEFINE new == [IdleHandler EXCEPT !.pc = "sync", !.then = "act", !.op = o,
                                        !.alone = TRUE, !.before = file]
             mine == IF \A i \in Handlers : ~Busy(i) THEN new ELSE Overlapped(new)
  <2>1. /\ handlers' = [g \in Handlers |-> IF g # h THEN Overlapped(handlers[g]) ELSE mine]
        /\ UNCHANGED <<pool, settings, file, dir>>
    BY <1>7 DEF Arrive
  <2>2. new \in Handler /\ \A c \in Handler : Overlapped(c) \in Handler
    BY <1>1, IdleType
  <2>3. mine \in Handler
    BY <2>2
  <2> HIDE DEF mine
  <2> QED
    BY <1>1, <2>1, <2>2, <2>3
<1>8. ASSUME NEW h \in Handlers, SyncList(h) PROVE Goal
  <2> DEFINE list == Members(pool)
             c == [handlers[h] EXCEPT !.pc = "write", !.list = list, !.done = 0]
  <2>1. Step(h, "sync", c) /\ UNCHANGED <<pool, settings, file, dir>>
    BY <1>8 DEF SyncList
  <2>2. list \in Seq(Member)
    BY <1>1, <1>3 DEF Listed
  <2> HIDE DEF list
  <2>3. c \in Handler
    BY <1>1, <2>2 DEF Handler
  <2> QED
    BY <1>1, <2>1, <2>3, OneType
<1>9. ASSUME NEW h \in Handlers, SyncWrite(h) PROVE Goal
  <2> DEFINE me == handlers[h]
             i == me.done + 1
             c == [me EXCEPT !.done = i]
  <2>1. /\ i \in DOMAIN me.list /\ Step(h, "write", c) /\ UNCHANGED <<pool, settings, file>>
        /\ dir' = Written(dir, FileName(me.list, i), me.list[i])
    BY <1>9 DEF SyncWrite
  <2>2. i \in Nat /\ me \in Handler /\ me.list \in Seq(Member)
    <3>1. me \in Handler
      BY <1>1
    <3>2. me.done \in Nat /\ me.list \in Seq(Member)
      BY <1>4, <3>1
    <3> QED
      BY <3>1, <3>2
  <2>3. me.list[i] \in Member /\ FileName(me.list, i) \in Names
    <3>1. me.list[i] \in Member
      BY <2>1, <2>2
    <3> QED
      BY <2>1, <2>2, <3>1, FileNamesDiffer
  <2> HIDE DEF i
  <2>4. c \in Handler
    BY <2>2 DEF Handler
  <2>5. Directory(dir')
    BY <1>1, <2>1, <2>3, DirectoryKept
  <2> QED
    BY <1>1, <2>1, <2>4, <2>5, OneType
<1>10. ASSUME NEW h \in Handlers, SyncPrune(h) PROVE Goal
  <2> DEFINE me == handlers[h]
             c == [me EXCEPT !.pc = me.then, !.list = <<>>, !.done = 0]
  <2>1. /\ Step(h, "write", c) /\ UNCHANGED <<pool, settings, file>>
        /\ dir' = Pruned(dir, FileNames(me.list))
    BY <1>10 DEF SyncPrune
  <2>2. me \in Handler /\ me.then \in {"act", "reply"} /\ <<>> \in Seq(Member)
    <3>1. me.pc = "write" /\ me \in Handler
      BY <2>1, <1>1 DEF Step
    <3>2. me.then \in {"act", "reply"}
      BY <3>1, <1>5
    <3> QED
      BY <3>1, <3>2
  <2>3. c \in Handler
    BY <2>2 DEF Handler
  <2>4. Directory(dir')
    BY <1>1, <2>1, DirectoryKept
  <2> QED
    BY <1>1, <2>1, <2>3, <2>4, OneType
<1>11. ASSUME NEW h \in Handlers, Act(h) PROVE Goal
  <2> DEFINE me == handlers[h]
             o == me.op
             ok == o.kind = "read"
             done == [me EXCEPT !.pc = "reply", !.ok = ok]
             goes == [me EXCEPT !.pc = "read"]
  <2>1. /\ UNCHANGED <<file, dir>> /\ me.pc = "act"
        /\ \/ Step(h, "act", done) /\ UNCHANGED <<pool, settings>>
           \/ Step(h, "act", goes) /\ o.kind # "read"
              /\ IF o.kind = "settings" THEN settings' = o.settings /\ UNCHANGED pool
                 ELSE pool' = Applied(pool, o) /\ UNCHANGED settings
    BY <1>11 DEF Act, Step
  <2>2. ok \in BOOLEAN
    OBVIOUS
  <2> HIDE DEF ok
  <2>3. done \in Handler /\ goes \in Handler
    BY <1>1, <2>2 DEF Handler
  <2>4. o \in Operations
    BY <1>5, <2>1
  <2>5. o.settings \in Settings
    BY <2>4, StoreAssumption DEF Operation
  <2>6. o.kind \notin {"read", "settings"} => Applied(pool, o) \in Pool
    BY <1>1, <2>4, AppliedPool
  <2> HIDE DEF done, goes, o
  <2> QED
    BY <1>1, <2>1, <2>3, <2>5, <2>6, OneType
<1>12. ASSUME NEW h \in Handlers, Read(h) PROVE Goal
  <2> DEFINE me == handlers[h]
             saved == Content(file.accounts, me.op.settings)
             c == IF me.op.kind = "settings"
                  THEN IF Broken(file) THEN [me EXCEPT !.pc = "reply", !.ok = FALSE]
                                     ELSE [me EXCEPT !.pc = "truncate", !.content = saved]
                  ELSE [me EXCEPT !.pc = "list", !.content = file]
  <2>1. Step(h, "read", c) /\ UNCHANGED <<pool, settings, file, dir>> /\ me.pc = "read"
    BY <1>12 DEF Read, Step
  <2>2. saved \in File
    <3>1. me.op \in Operations
      BY <1>5, <2>1
    <3>2. me.op.settings \in Settings
      BY <3>1, StoreAssumption DEF Operation
    <3> QED
      BY <1>2, <3>2, FileTypes
  <2> HIDE DEF saved
  <2>3. /\ [me EXCEPT !.pc = "reply", !.ok = FALSE] \in Handler
        /\ [me EXCEPT !.pc = "truncate", !.content = saved] \in Handler
        /\ [me EXCEPT !.pc = "list", !.content = file] \in Handler
    BY <1>1, <2>2 DEF Handler
  <2>4. c \in Handler
    BY <2>3
  <2> HIDE DEF c
  <2> QED
    BY <1>1, <2>1, <2>4, OneType
<1>13. ASSUME NEW h \in Handlers, ListAccounts(h) PROVE Goal
  <2> DEFINE me == handlers[h]
             saved == Content([keys |-> Members(pool), legacy |-> NoKey], me.content.settings)
             c == IF Broken(me.content) THEN [me EXCEPT !.pc = "sync", !.then = "reply"]
                  ELSE [me EXCEPT !.pc = "truncate", !.content = saved]
  <2>1. Step(h, "list", c) /\ UNCHANGED <<pool, settings, file, dir>>
    BY <1>13 DEF ListAccounts
  <2>2. saved \in File
    <3>1. me.content.settings \in Settings
      BY <1>1, <1>4 DEF File
    <3> QED
      BY <1>1, <1>3, <3>1, FileTypes
  <2> HIDE DEF saved
  <2>3. /\ [me EXCEPT !.pc = "sync", !.then = "reply"] \in Handler
        /\ [me EXCEPT !.pc = "truncate", !.content = saved] \in Handler
    BY <1>1, <2>2 DEF Handler
  <2>4. c \in Handler
    BY <2>3
  <2> HIDE DEF c
  <2> QED
    BY <1>1, <2>1, <2>4, OneType
<1>14. ASSUME NEW h \in Handlers, Truncate(h) PROVE Goal
  <2> DEFINE c == [handlers[h] EXCEPT !.pc = "save"]
  <2>1. Step(h, "truncate", c) /\ file' = Truncated /\ UNCHANGED <<pool, settings, dir>>
    BY <1>14 DEF Truncate
  <2>2. c \in Handler
    BY <1>1 DEF Handler
  <2> QED
    BY <1>1, <2>1, <2>2, OneType, FileTypes
<1>15. ASSUME NEW h \in Handlers, Save(h) PROVE Goal
  <2> DEFINE me == handlers[h]
             replies == [me EXCEPT !.pc = "reply", !.content = Truncated]
             syncs == [me EXCEPT !.pc = "sync", !.then = "reply", !.content = Truncated]
             c == IF me.op.kind = "settings" THEN replies ELSE syncs
  <2>1. Step(h, "save", c) /\ file' \in WrittenOver(file, me.content)
        /\ UNCHANGED <<pool, settings, dir>>
    BY <1>15 DEF Save
  <2>2. Truncated \in File /\ file' \in File
    <3>1. me.content \in File
      BY <1>1, <1>4
    <3> QED
      BY <1>1, <2>1, <3>1, FileTypes, WrittenType
  <2> HIDE DEF Truncated
  <2>3. replies \in Handler /\ syncs \in Handler
    BY <1>1, <2>2 DEF Handler
  <2>4. c \in Handler
    BY <2>3
  <2> HIDE DEF c
  <2> QED
    BY <1>1, <2>1, <2>2, <2>4, OneType
<1>16. ASSUME NEW h \in Handlers, Reply(h) PROVE Goal
  <2>1. Step(h, "reply", IdleHandler) /\ UNCHANGED <<pool, settings, file, dir>>
    BY <1>16 DEF Reply
  <2> QED
    BY <1>1, <2>1, IdleType, OneType
<1>17. CASE Restart
  <2>1. /\ pool' = file.accounts /\ settings' = file.settings /\ UNCHANGED file
        /\ dir' = Mirror(Members(file.accounts))
        /\ handlers' = [h \in Handlers |-> IdleHandler]
    BY <1>17 DEF Restart
  <2>2. Directory(dir')
    BY <1>2, <1>3, <2>1, MirrorIs
  <2> QED
    BY <1>1, <1>2, <2>1, <2>2, IdleType
<1>18. CASE UNCHANGED vars
  BY <1>1, <1>18 DEF vars
<1> HIDE DEF Goal
<1> QED
  BY <1>7, <1>8, <1>9, <1>10, <1>11, <1>12, <1>13, <1>14, <1>15, <1>16, <1>17, <1>18 DEF Next

\* Every variable has its type.
LEMMA TypeInit ==
    ASSUME Init
    PROVE  TypeOK
<1>1. pool \in Pool /\ settings \in Settings /\ file = Content(pool, settings)
      /\ dir = Mirror(Members(pool)) /\ handlers = [h \in Handlers |-> IdleHandler]
  BY StoreAssumption DEF Init
<1>2. Directory(dir)
  BY <1>1, MembersListed, MirrorIs
<1>3. file \in File
  BY <1>1, FileTypes
<1> QED
  BY <1>1, <1>2, <1>3, IdleType DEF TypeOK, Directory

\* The pool stays a pool of distinct keys, every file is named for an account
\* and a request is where it can be, whatever overlaps and whatever dies.
THEOREM TypeOKAlways == Spec => []TypeOK
<1>1. Init => Inv /\ TypeOK
  BY IdleInv, TypeInit DEF Init
<1>2. Inv /\ TypeOK /\ [Next]_vars => Inv' /\ TypeOK'
  BY InvNext, TypeNext
<1> QED
  BY <1>1, <1>2, PTL DEF Spec

(***************************************************************************)
(* A request that runs alone repairs what races and crashes left.          *)
(***************************************************************************)

OnAccounts(o) == o.kind \in {"add", "update", "toggle", "remove"}

\* The files of the first n accounts are there, each with the last of its name.
FilesOf(d, a, n) ==
    \A i \in 1..n :
        /\ FileName(a, i) \in DOMAIN d
        /\ (\A j \in 1..n : j > i => FileName(a, j) # FileName(a, i)) => d[FileName(a, i)] = a[i]

\* On its way to the reply, or there.
Back(me) == me.pc = "reply" \/ (me.pc \in {"sync", "write"} /\ me.then = "reply")

\* What a request that runs alone has made of the directory so far, and of the
\* file.
Repair(me, f, p, s, d) ==
    /\ me.pc = "write" => me.list = Members(p) /\ FilesOf(d, me.list, me.done)
    /\ \/ me.pc \in {"act", "reply"}
       \/ me.pc \in {"read", "truncate", "save"} /\ me.op.kind = "settings"
       => d = Mirror(Members(p))
    /\ Back(me) /\ me.ok /\ OnAccounts(me.op) => Broken(me.before) \/ (~Broken(f) /\ Members(f.accounts) = Members(p))
    /\ Back(me) /\ me.op.kind = "settings" =>
          /\ me.pc = "reply" /\ me.ok = ~Broken(me.before)
          /\ me.ok => ~Broken(f) /\ f.settings = s
    /\ me.pc # "reply" => me.ok

Repaired ==
    \A h \in Handlers : Busy(h) /\ handlers[h].alone =>
        Repair(handlers[h], file, pool, settings, dir)

\* Writing the next file leaves those before it, unless it is one of them.
LEMMA FilesWritten ==
    ASSUME NEW a, Listed(a), NEW d, NEW n \in Nat, FilesOf(d, a, n), n + 1 \in DOMAIN a
    PROVE  FilesOf(Written(d, FileName(a, n + 1), a[n + 1]), a, n + 1)
<1> DEFINE new == FileName(a, n + 1)
           w == Written(d, new, a[n + 1])
<1>1. DOMAIN a = 1..Len(a) /\ Len(a) \in Nat
  BY DEF Listed
<1>2. /\ DOMAIN w = DOMAIN d \cup {new}
      /\ \A x \in DOMAIN d \cup {new} : w[x] = IF x = new THEN a[n + 1] ELSE d[x]
  BY DEF Written
<1> HIDE DEF w
<1>3. ASSUME NEW i \in 1..(n + 1)
      PROVE  /\ FileName(a, i) \in DOMAIN w
             /\ (\A j \in 1..(n + 1) : j > i => FileName(a, j) # FileName(a, i))
                => w[FileName(a, i)] = a[i]
  <2>1. CASE i = n + 1
    BY <1>2, <2>1
  <2>2. CASE i # n + 1
    <3>1. i \in 1..n /\ n + 1 \in 1..(n + 1) /\ n + 1 > i /\ \A j \in 1..n : j \in 1..(n + 1)
      BY <2>2
    <3>2. /\ FileName(a, i) \in DOMAIN d
          /\ (\A j \in 1..n : j > i => FileName(a, j) # FileName(a, i)) => d[FileName(a, i)] = a[i]
      BY <3>1 DEF FilesOf
    <3> HIDE DEF new
    <3>3. FileName(a, i) \in DOMAIN w
      BY <1>2, <3>2
    <3>4. ASSUME \A j \in 1..(n + 1) : j > i => FileName(a, j) # FileName(a, i)
          PROVE  w[FileName(a, i)] = a[i]
      <4>1. FileName(a, i) # new
        BY <3>1, <3>4 DEF new
      <4>2. d[FileName(a, i)] = a[i]
        BY <3>1, <3>2, <3>4
      <4> QED
        BY <1>2, <3>2, <4>1, <4>2
    <3> QED
      BY <3>3, <3>4
  <2> QED
    BY <2>1, <2>2
<1> QED
  BY <1>3 DEF FilesOf, w

\* When all files are there and the others are removed, the directory mirrors
\* the accounts.
LEMMA FilesPruned ==
    ASSUME NEW a, Listed(a), NEW d, FilesOf(d, a, Len(a))
    PROVE  Pruned(d, FileNames(a)) = Mirror(a)
<1> DEFINE w == Pruned(d, FileNames(a))
<1>1. DOMAIN a = 1..Len(a)
  BY DEF Listed
<1>2. \A i \in DOMAIN a : /\ FileName(a, i) \in DOMAIN d \cap FileNames(a)
                          /\ Holds(a, i) => d[FileName(a, i)] = a[i]
  BY <1>1 DEF FilesOf, FileNames, Holds
<1>3. DOMAIN d \cap FileNames(a) = FileNames(a)
  BY <1>2 DEF FileNames
<1>4. w = [n \in FileNames(a) |-> d[n]]
  BY <1>3 DEF Pruned
<1> HIDE DEF w
<1>5. /\ w = [n \in FileNames(a) |-> w[n]]
      /\ \A i \in DOMAIN a : Holds(a, i) => w[FileName(a, i)] = a[i]
  BY <1>2, <1>3, <1>4
<1> QED
  BY <1>5, MirrorIs DEF w

\* The members of a pool written out and read again.
LEMMA MembersAgain ==
    ASSUME NEW p \in Pool
    PROVE  Members([keys |-> Members(p), legacy |-> NoKey]) = Members(p)
<1> DEFINE s == Members(p)
<1>1. Listed(s) /\ \A i \in DOMAIN s : s[i].weight > 0
  BY MembersListed
<1> HIDE DEF s
<1>2. \A i \in DOMAIN s : [s[i] EXCEPT !.weight = IF @ = 0 THEN 1 ELSE @] = s[i]
  <2> SUFFICES ASSUME NEW i \in DOMAIN s
               PROVE  [s[i] EXCEPT !.weight = IF @ = 0 THEN 1 ELSE @] = s[i]
    OBVIOUS
  <2>1. s[i] \in Member /\ s[i].weight # 0
    BY <1>1 DEF Listed
  <2> QED
    BY <2>1 DEF Member
<1>3. Members([keys |-> s, legacy |-> NoKey])
        = [i \in DOMAIN s |-> [s[i] EXCEPT !.weight = IF @ = 0 THEN 1 ELSE @]]
  BY DEF Members
<1>4. s = [i \in DOMAIN s |-> s[i]]
  BY <1>1 DEF Listed
<1> QED
  BY <1>2, <1>3, <1>4 DEF s

\* A step of an active request h: nobody else runs alone.
LEMMA OneRepair ==
    ASSUME Inv, Repaired, NEW h \in Handlers, Busy(h), NEW c,
           handlers' = [handlers EXCEPT ![h] = c], c.alone => handlers[h].alone,
           c.alone => Repair(c, file', pool', settings', dir')
    PROVE  Repaired'
<1>1. \A g \in Handlers : handlers'[g] = IF g = h THEN c ELSE handlers[g]
  BY DEF Inv, Shapes
<1>2. ASSUME NEW g \in Handlers, Busy(g)', handlers'[g].alone
      PROVE  Repair(handlers[g], file, pool, settings, dir)'
  <2>1. g = h
    BY <1>1, <1>2 DEF Inv, Alone, Busy
  <2> QED
    BY <2>1, <1>1, <1>2
<1> QED
  BY <1>2 DEF Repaired

\* What an action that starts at `from` finds.
LEMMA Found ==
    ASSUME Inv, TypeOK, Repaired, NEW h \in Handlers, NEW from \in PCs \ {"idle"},
           NEW c, Step(h, from, c)
    PROVE  /\ Busy(h) /\ handlers[h].pc = from /\ handlers' = [handlers EXCEPT ![h] = c]
           /\ handlers[h] \in Handler /\ pool \in Pool
           /\ Listed(Members(pool))
           /\ handlers[h].alone => /\ Repair(handlers[h], file, pool, settings, dir)
                                   /\ Phase(handlers[h], file, pool, settings)
<1>1. Busy(h) /\ handlers[h].pc = from /\ handlers' = [handlers EXCEPT ![h] = c]
  BY DEF Step, Busy
<1>2. handlers[h] \in Handler /\ pool \in Pool
  BY DEF TypeOK
<1>3. Listed(Members(pool))
  BY <1>2, MembersListed
<1> QED
  BY <1>1, <1>2, <1>3 DEF Repaired, Inv, Alone

\* Listing the accounts.
LEMMA SyncListRepairs ==
    ASSUME Inv, TypeOK, Repaired, NEW h \in Handlers, SyncList(h)
    PROVE  Repaired'
<1> DEFINE me == handlers[h]
           list == Members(pool)
           c == [me EXCEPT !.pc = "write", !.list = list, !.done = 0]
<1>1. Step(h, "sync", c) /\ UNCHANGED <<pool, settings, file, dir>>
  BY DEF SyncList
<1> HIDE DEF list
<1>2. /\ Busy(h) /\ me.pc = "sync" /\ handlers' = [handlers EXCEPT ![h] = c] /\ me \in Handler
      /\ me.alone => Repair(me, file, pool, settings, dir)
  BY <1>1, Found DEF PCs
<1>3. /\ c.pc = "write" /\ c.list = list /\ c.done = 0 /\ c.then = me.then
      /\ c.alone = me.alone /\ c.op = me.op /\ c.ok = me.ok /\ c.before = me.before
  BY <1>2 DEF Handler
<1> HIDE DEF c, me
<1>4. FilesOf(dir, list, 0)
  BY DEF FilesOf
<1>5. c.alone => Repair(c, file', pool', settings', dir')
  BY <1>1, <1>2, <1>3, <1>4 DEF Repair, Back, list
<1> QED
  BY <1>2, <1>3, <1>5, OneRepair DEF me

\* Writing the file of the next account.
LEMMA SyncWriteRepairs ==
    ASSUME Inv, TypeOK, Repaired, NEW h \in Handlers, SyncWrite(h)
    PROVE  Repaired'
<1> DEFINE me == handlers[h]
           i == me.done + 1
           c == [me EXCEPT !.done = i]
<1>1. /\ Step(h, "write", c) /\ UNCHANGED <<pool, settings, file>> /\ i \in DOMAIN me.list
      /\ dir' = Written(dir, FileName(me.list, i), me.list[i])
  BY DEF SyncWrite
<1>2. /\ Busy(h) /\ me.pc = "write" /\ handlers' = [handlers EXCEPT ![h] = c] /\ me \in Handler
      /\ Listed(Members(pool))
      /\ me.alone => Repair(me, file, pool, settings, dir)
  <2> HIDE DEF i
  <2> QED
    BY <1>1, Found DEF PCs
<1>3. me.done \in Nat
  BY <1>2 DEF Handler
<1>4. me.alone => FilesOf(dir', me.list, i)
  BY <1>1, <1>2, <1>3, FilesWritten DEF Repair
<1> HIDE DEF i
<1>5. /\ c.pc = "write" /\ c.list = me.list /\ c.done = i /\ c.then = me.then
      /\ c.alone = me.alone /\ c.op = me.op /\ c.ok = me.ok /\ c.before = me.before
  BY <1>2 DEF Handler
<1> HIDE DEF c, me
<1>6. c.alone => Repair(c, file', pool', settings', dir')
  BY <1>1, <1>2, <1>4, <1>5 DEF Repair, Back
<1> QED
  BY <1>2, <1>5, <1>6, OneRepair DEF me

\* Removing the files of no account.
LEMMA SyncPruneRepairs ==
    ASSUME Inv, TypeOK, Repaired, NEW h \in Handlers, SyncPrune(h)
    PROVE  Repaired'
<1> DEFINE me == handlers[h]
           c == [me EXCEPT !.pc = me.then, !.list = <<>>, !.done = 0]
<1>1. /\ Step(h, "write", c) /\ UNCHANGED <<pool, settings, file>> /\ me.done = Len(me.list)
      /\ dir' = Pruned(dir, FileNames(me.list))
  BY DEF SyncPrune
<1>2. /\ Busy(h) /\ me.pc = "write" /\ handlers' = [handlers EXCEPT ![h] = c] /\ me \in Handler
      /\ Listed(Members(pool))
      /\ me.alone => Repair(me, file, pool, settings, dir)
  BY <1>1, Found DEF PCs
<1>3. me.then \in {"act", "reply"}
  <2>1. Returns(me) /\ me.then \in {"", "act", "reply"}
    BY <1>2 DEF Inv, Shapes, Shape, Handler
  <2> QED
    BY <2>1, <1>2 DEF Returns
<1>4. me.alone => dir' = Mirror(Members(pool))
  BY <1>1, <1>2, FilesPruned DEF Repair
<1>5. /\ c.pc = me.then /\ c.alone = me.alone /\ c.op = me.op /\ c.ok = me.ok
      /\ c.before = me.before
  BY <1>2 DEF Handler
<1> HIDE DEF c, me
<1>6. c.alone => Repair(c, file', pool', settings', dir')
  BY <1>1, <1>2, <1>3, <1>4, <1>5 DEF Repair, Back
<1> QED
  BY <1>2, <1>5, <1>6, OneRepair DEF me

\* Changing memory: the accounts are copied anew after it, the settings are
\* not in the directory.
LEMMA ActRepairs ==
    ASSUME Inv, TypeOK, Repaired, NEW h \in Handlers, Act(h)
    PROVE  Repaired'
<1> DEFINE me == handlers[h]
           ok == me.op.kind = "read"
           done == [me EXCEPT !.pc = "reply", !.ok = ok]
           goes == [me EXCEPT !.pc = "read"]
<1>1. /\ UNCHANGED <<file, dir>>
      /\ \/ Step(h, "act", done) /\ UNCHANGED <<pool, settings>> /\ me.op.kind # "settings"
         \/ Step(h, "act", goes) /\ (me.op.kind = "settings" => UNCHANGED pool)
  BY DEF Act, Accepted
<1> HIDE DEF ok
<1>2. /\ Busy(h) /\ me.pc = "act" /\ me \in Handler
      /\ \/ handlers' = [handlers EXCEPT ![h] = done] /\ UNCHANGED <<pool, settings>>
            /\ me.op.kind # "settings"
         \/ handlers' = [handlers EXCEPT ![h] = goes] /\ (me.op.kind = "settings" => UNCHANGED pool)
      /\ me.alone => Repair(me, file, pool, settings, dir)
  BY <1>1, Found DEF PCs
<1>3. /\ done.pc = "reply" /\ done.alone = me.alone /\ done.op = me.op /\ done.ok = ok
      /\ goes.pc = "read" /\ goes.alone = me.alone /\ goes.op = me.op /\ goes.ok = me.ok
  BY <1>2 DEF Handler
<1> HIDE DEF done, goes, me
<1>4. CASE /\ handlers' = [handlers EXCEPT ![h] = done] /\ UNCHANGED <<pool, settings>>
           /\ me.op.kind # "settings"
  <2>1. done.alone => Repair(done, file', pool', settings', dir')
    <3>1. done.ok => me.op.kind = "read"
      BY <1>3 DEF ok
    <3> QED
      BY <3>1, <1>1, <1>2, <1>3, <1>4 DEF Repair, Back, OnAccounts
  <2> QED
    BY <2>1, <1>2, <1>3, <1>4, OneRepair DEF me
<1>5. CASE handlers' = [handlers EXCEPT ![h] = goes] /\ (me.op.kind = "settings" => UNCHANGED pool)
  <2>1. goes.alone => Repair(goes, file', pool', settings', dir')
    BY <1>1, <1>2, <1>3, <1>5 DEF Repair, Back
  <2> QED
    BY <2>1, <1>2, <1>3, <1>5, OneRepair DEF me
<1> QED
  BY <1>2, <1>4, <1>5

\* Reading the file.
LEMMA ReadRepairs ==
    ASSUME Inv, TypeOK, Repaired, NEW h \in Handlers, Read(h)
    PROVE  Repaired'
<1> DEFINE me == handlers[h]
           saved == Content(file.accounts, me.op.settings)
           fails == [me EXCEPT !.pc = "reply", !.ok = FALSE]
           saves == [me EXCEPT !.pc = "truncate", !.content = saved]
           lists == [me EXCEPT !.pc = "list", !.content = file]
<1>1. /\ UNCHANGED <<pool, settings, file, dir>>
      /\ \/ Step(h, "read", fails) /\ me.op.kind = "settings" /\ Broken(file)
         \/ Step(h, "read", saves) /\ me.op.kind = "settings"
         \/ Step(h, "read", lists) /\ me.op.kind # "settings"
  BY DEF Read
<1> HIDE DEF saved
<1>2. /\ Busy(h) /\ me.pc = "read" /\ me \in Handler
      /\ \/ handlers' = [handlers EXCEPT ![h] = fails] /\ me.op.kind = "settings" /\ Broken(file)
         \/ handlers' = [handlers EXCEPT ![h] = saves] /\ me.op.kind = "settings"
         \/ handlers' = [handlers EXCEPT ![h] = lists] /\ me.op.kind # "settings"
      /\ me.alone => /\ Repair(me, file, pool, settings, dir)
                     /\ Phase(me, file, pool, settings)
  BY <1>1, Found DEF PCs
<1>3. /\ fails.pc = "reply" /\ fails.alone = me.alone /\ fails.op = me.op /\ fails.ok = FALSE
      /\ fails.before = me.before
      /\ saves.pc = "truncate" /\ saves.alone = me.alone /\ saves.op = me.op /\ saves.ok = me.ok
      /\ lists.pc = "list" /\ lists.alone = me.alone /\ lists.op = me.op /\ lists.ok = me.ok
  BY <1>2 DEF Handler
<1> HIDE DEF fails, saves, lists, me
<1>4. CASE handlers' = [handlers EXCEPT ![h] = fails] /\ me.op.kind = "settings" /\ Broken(file)
  <2>1. fails.alone => Repair(fails, file', pool', settings', dir')
    <3>1. me.alone => fails.ok = ~Broken(fails.before)
      BY <1>2, <1>3, <1>4 DEF Phase
    <3> QED
      BY <3>1, <1>1, <1>2, <1>3, <1>4 DEF Repair, Back, OnAccounts
  <2> QED
    BY <2>1, <1>2, <1>3, <1>4, OneRepair DEF me
<1>5. CASE handlers' = [handlers EXCEPT ![h] = saves] /\ me.op.kind = "settings"
  <2>1. saves.alone => Repair(saves, file', pool', settings', dir')
    BY <1>1, <1>2, <1>3, <1>5 DEF Repair, Back
  <2> QED
    BY <2>1, <1>2, <1>3, <1>5, OneRepair DEF me
<1>6. CASE handlers' = [handlers EXCEPT ![h] = lists] /\ me.op.kind # "settings"
  <2>1. lists.alone => Repair(lists, file', pool', settings', dir')
    BY <1>1, <1>2, <1>3, <1>6 DEF Repair, Back
  <2> QED
    BY <2>1, <1>2, <1>3, <1>6, OneRepair DEF me
<1> QED
  BY <1>2, <1>4, <1>5, <1>6

\* Preparing the accounts: nothing is saved into an unreadable file.
LEMMA ListAccountsRepairs ==
    ASSUME Inv, TypeOK, Repaired, NEW h \in Handlers, ListAccounts(h)
    PROVE  Repaired'
<1> DEFINE me == handlers[h]
           saved == Content([keys |-> Members(pool), legacy |-> NoKey], me.content.settings)
           syncs == [me EXCEPT !.pc = "sync", !.then = "reply"]
           saves == [me EXCEPT !.pc = "truncate", !.content = saved]
<1>1. /\ UNCHANGED <<pool, settings, file, dir>>
      /\ \/ Step(h, "list", syncs) /\ Broken(me.content)
         \/ Step(h, "list", saves)
  BY DEF ListAccounts
<1> HIDE DEF saved
<1>2. /\ Busy(h) /\ me.pc = "list" /\ me \in Handler
      /\ \/ handlers' = [handlers EXCEPT ![h] = syncs] /\ Broken(me.content)
         \/ handlers' = [handlers EXCEPT ![h] = saves]
      /\ me.alone => /\ Repair(me, file, pool, settings, dir)
                     /\ Phase(me, file, pool, settings)
  BY <1>1, Found DEF PCs
<1>3. /\ syncs.pc = "sync" /\ syncs.alone = me.alone /\ syncs.op = me.op
      /\ syncs.ok = me.ok /\ syncs.before = me.before
      /\ saves.pc = "truncate" /\ saves.alone = me.alone /\ saves.op = me.op /\ saves.ok = me.ok
  BY <1>2 DEF Handler
<1> HIDE DEF syncs, saves, me
<1>4. me.alone => me.op.kind # "settings" /\ me.content = me.before
  BY <1>2 DEF Phase
<1>5. CASE handlers' = [handlers EXCEPT ![h] = syncs] /\ Broken(me.content)
  <2>1. syncs.alone => Repair(syncs, file', pool', settings', dir')
    BY <1>1, <1>2, <1>3, <1>4, <1>5 DEF Repair
  <2> QED
    BY <2>1, <1>2, <1>3, <1>5, OneRepair DEF me
<1>6. CASE handlers' = [handlers EXCEPT ![h] = saves]
  <2>1. saves.alone => Repair(saves, file', pool', settings', dir')
    BY <1>1, <1>2, <1>3, <1>4, <1>6 DEF Repair, Back
  <2> QED
    BY <2>1, <1>2, <1>3, <1>6, OneRepair DEF me
<1> QED
  BY <1>2, <1>5, <1>6

\* Truncating the file.
LEMMA TruncateRepairs ==
    ASSUME Inv, TypeOK, Repaired, NEW h \in Handlers, Truncate(h)
    PROVE  Repaired'
<1> DEFINE me == handlers[h]
           c == [me EXCEPT !.pc = "save"]
<1>1. Step(h, "truncate", c) /\ UNCHANGED <<pool, settings, dir>>
  BY DEF Truncate
<1>2. /\ Busy(h) /\ me.pc = "truncate" /\ handlers' = [handlers EXCEPT ![h] = c] /\ me \in Handler
      /\ me.alone => Repair(me, file, pool, settings, dir)
  BY <1>1, Found DEF PCs
<1>3. c.pc = "save" /\ c.alone = me.alone /\ c.op = me.op /\ c.ok = me.ok
  BY <1>2 DEF Handler
<1> HIDE DEF c, me
<1>4. c.alone => Repair(c, file', pool', settings', dir')
  BY <1>1, <1>2, <1>3 DEF Repair, Back
<1> QED
  BY <1>2, <1>3, <1>4, OneRepair DEF me

\* Saving: the accounts in the file are those in memory, or the settings are.
LEMMA SaveRepairs ==
    ASSUME Inv, TypeOK, Repaired, NEW h \in Handlers, Save(h)
    PROVE  Repaired'
<1> DEFINE me == handlers[h]
           written == [keys |-> Members(pool), legacy |-> NoKey]
           replies == [me EXCEPT !.pc = "reply", !.content = Truncated]
           syncs == [me EXCEPT !.pc = "sync", !.then = "reply", !.content = Truncated]
<1>1. /\ file' \in WrittenOver(file, me.content) /\ UNCHANGED <<pool, settings, dir>>
      /\ \/ Step(h, "save", replies) /\ me.op.kind = "settings"
         \/ Step(h, "save", syncs) /\ me.op.kind # "settings"
  BY DEF Save
<1> HIDE DEF written
<1>2. /\ Busy(h) /\ me.pc = "save" /\ me \in Handler /\ pool \in Pool
      /\ \/ handlers' = [handlers EXCEPT ![h] = replies] /\ me.op.kind = "settings"
         \/ handlers' = [handlers EXCEPT ![h] = syncs] /\ me.op.kind # "settings"
      /\ me.alone => /\ Repair(me, file, pool, settings, dir)
                     /\ Phase(me, file, pool, settings)
  BY <1>1, Found DEF PCs
<1>3. /\ replies.pc = "reply" /\ replies.alone = me.alone /\ replies.op = me.op
      /\ replies.ok = me.ok /\ replies.before = me.before
      /\ syncs.pc = "sync" /\ syncs.alone = me.alone /\ syncs.op = me.op
      /\ syncs.ok = me.ok /\ syncs.before = me.before
  <2> HIDE DEF Truncated
  <2> QED
    BY <1>2 DEF Handler
<1> HIDE DEF replies, syncs, me
<1>4. me.alone => /\ file' = Outcome(me, pool, settings) /\ ~Broken(me.before) /\ ~Broken(file')
                  /\ me.ok
  <2>1. me.alone => file' = me.content
    BY <1>1, <1>2, WrittenOnce DEF Phase
  <2>2. me.alone => /\ ~Broken(me.before) /\ me.content = Outcome(me, pool, settings)
                    /\ me.ok
    BY <1>2 DEF Phase, Repair
  <2>3. ~Broken(Outcome(me, pool, settings))
    BY DEF Outcome, Content, Broken
  <2> QED
    BY <2>1, <2>2, <2>3
<1>5. CASE handlers' = [handlers EXCEPT ![h] = replies] /\ me.op.kind = "settings"
  <2>1. me.alone => ~Broken(file') /\ file'.settings = settings
    BY <1>4, <1>5 DEF Outcome, Content
  <2>2. replies.alone => Repair(replies, file', pool', settings', dir')
    BY <2>1, <1>1, <1>2, <1>3, <1>4, <1>5 DEF Repair, OnAccounts
  <2> QED
    BY <2>2, <1>2, <1>3, <1>5, OneRepair DEF me
<1>6. CASE handlers' = [handlers EXCEPT ![h] = syncs] /\ me.op.kind # "settings"
  <2>1. me.alone => file'.accounts = written
    BY <1>4, <1>6 DEF Outcome, Content, written
  <2>2. Members(written) = Members(pool)
    BY <1>2, MembersAgain DEF written
  <2>3. syncs.alone => Repair(syncs, file', pool', settings', dir')
    BY <2>1, <2>2, <1>1, <1>2, <1>3, <1>4, <1>6 DEF Repair
  <2> QED
    BY <2>3, <1>2, <1>3, <1>6, OneRepair DEF me
<1> QED
  BY <1>2, <1>5, <1>6

\* A request that arrives has repaired nothing yet.
LEMMA ArriveRepairs ==
    ASSUME Inv, TypeOK, Repaired, NEW h \in Handlers, NEW o \in Operations, Arrive(h, o)
    PROVE  Repaired'
<1> DEFINE new == [IdleHandler EXCEPT !.pc = "sync", !.then = "act", !.op = o,
                                      !.alone = TRUE, !.before = file]
           mine == IF \A i \in Handlers : ~Busy(i) THEN new ELSE Overlapped(new)
           theirs(g) == Overlapped(handlers[g])
<1>1. handlers' = [g \in Handlers |-> IF g # h THEN theirs(g) ELSE mine]
  BY DEF Arrive
<1>2. /\ new.pc = "sync" /\ new.then = "act" /\ new.ok /\ ~Overlapped(new).alone
      /\ \A g \in Handlers : ~theirs(g).alone
  <2>1. \A c \in Handler : ~Overlapped(c).alone
    BY DEF Overlapped, Handler
  <2>2. new \in Handler /\ \A g \in Handlers : handlers[g] \in Handler
    BY IdleType DEF TypeOK
  <2>3. new.pc = "sync" /\ new.then = "act" /\ new.ok
    BY DEF IdleHandler
  <2> QED
    BY <2>1, <2>2, <2>3
<1> HIDE DEF new, theirs
<1>3. ASSUME NEW g \in Handlers, handlers'[g].alone
      PROVE  handlers'[g].pc = "sync" /\ handlers'[g].then = "act" /\ handlers'[g].ok
  BY <1>1, <1>2, <1>3
<1> QED
  BY <1>3 DEF Repaired, Repair, Back

\* Every step keeps the repairs.
LEMMA RepairedNext ==
    ASSUME Inv, TypeOK, Repaired, [Next]_vars
    PROVE  Repaired'
<1>1. ASSUME NEW h \in Handlers, NEW o \in Operations, Arrive(h, o) PROVE Repaired'
  BY <1>1, ArriveRepairs
<1>2. ASSUME NEW h \in Handlers, SyncList(h) \/ SyncWrite(h) \/ SyncPrune(h) \/ Act(h)
      PROVE  Repaired'
  BY <1>2, SyncListRepairs, SyncWriteRepairs, SyncPruneRepairs, ActRepairs
<1>3. ASSUME NEW h \in Handlers, Read(h) \/ ListAccounts(h) \/ Truncate(h) \/ Save(h)
      PROVE  Repaired'
  BY <1>3, ReadRepairs, ListAccountsRepairs, TruncateRepairs, SaveRepairs
<1>4. ASSUME NEW h \in Handlers, Reply(h) PROVE Repaired'
  <2>1. Step(h, "reply", IdleHandler) /\ ~IdleHandler.alone
    BY <1>4, IdleShape DEF Reply
  <2>2. handlers' = [handlers EXCEPT ![h] = IdleHandler] /\ Busy(h)
    BY <2>1 DEF Step, Busy
  <2> QED
    BY <2>1, <2>2, OneRepair
<1>5. CASE Restart
  <2>1. handlers' = [h \in Handlers |-> IdleHandler] /\ ~IdleHandler.alone
    BY <1>5, IdleShape DEF Restart
  <2> HIDE DEF IdleHandler
  <2> QED
    BY <2>1 DEF Repaired
<1>6. CASE UNCHANGED vars
  BY <1>6 DEF vars, Repaired, Busy
<1> QED
  BY <1>1, <1>2, <1>3, <1>4, <1>5, <1>6 DEF Next

\* What a request has made of its copies is what the property promises.
LEMMA RepairedAlone ==
    ASSUME Inv, TypeOK, Repaired
    PROVE  AloneRepairs
<1> SUFFICES ASSUME NEW h \in Handlers, handlers[h].alone, handlers[h].pc = "reply"
             PROVE  LET me == handlers[h] IN
                    /\ dir = Mirror(Members(pool))
                    /\ HashesFree(Members(pool)) => Cardinality(DOMAIN dir) = Len(Members(pool))
                    /\ me.ok /\ me.op.kind \in {"add", "update", "toggle", "remove"} =>
                          IF Broken(me.before) THEN file = me.before
                          ELSE ~Broken(file) /\ Members(file.accounts) = Members(pool)
                    /\ me.op.kind = "settings" =>
                          /\ me.ok = ~Broken(me.before)
                          /\ me.ok => ~Broken(file) /\ file.settings = settings
  BY DEF AloneRepairs
<1>1. /\ Repair(handlers[h], file, pool, settings, dir)
      /\ Phase(handlers[h], file, pool, settings)
  BY DEF Repaired, Inv, Alone, Busy
<1>2. Listed(Members(pool))
  BY MembersListed DEF TypeOK
<1>3. dir = Mirror(Members(pool))
  BY <1>1 DEF Repair
<1>4. HashesFree(Members(pool)) => Cardinality(DOMAIN dir) = Len(Members(pool))
  BY <1>2, <1>3, MirrorIs
<1>5. Broken(handlers[h].before) => file = handlers[h].before
  BY <1>1 DEF Phase
<1> QED
  BY <1>1, <1>3, <1>4, <1>5 DEF Repair, Back, OnAccounts

\* A request that ran alone leaves the directory a mirror of memory, with a file
\* of its own for every account if no hashed name is another's, and, if it says
\* it changed something, config.yaml a copy of memory or as unreadable as it
\* was, whatever races and crashes came before (syncAuthDir, persistAccounts,
\* persistSettings).
THEOREM AloneRepairsAlways == Spec => []AloneRepairs
<1>1. Init => Inv /\ TypeOK /\ Repaired
  <2> SUFFICES ASSUME Init PROVE Inv /\ TypeOK /\ Repaired
    OBVIOUS
  <2>1. handlers = [h \in Handlers |-> IdleHandler] /\ ~IdleHandler.alone
    BY IdleShape DEF Init
  <2>2. Inv /\ TypeOK
    BY <2>1, IdleInv, TypeInit
  <2> HIDE DEF IdleHandler
  <2> QED
    BY <2>1, <2>2 DEF Repaired
<1>2. Inv /\ TypeOK /\ Repaired /\ [Next]_vars => Inv' /\ TypeOK' /\ Repaired'
  BY InvNext, TypeNext, RepairedNext
<1>3. Inv /\ TypeOK /\ Repaired => AloneRepairs
  BY RepairedAlone
<1> QED
  BY <1>1, <1>2, <1>3, PTL DEF Spec

(***************************************************************************)
(* A request changes no account but its own.                               *)
(***************************************************************************)

Full(m) == [m EXCEPT !.weight = IF @ = 0 THEN 1 ELSE @]
Entry(s, k) == {Full(s[i]) : i \in {j \in DOMAIN s : s[j].key = k}}

\* The member of a key is its entry or, without entries, the legacy key's.
LEMMA MemberOfIs ==
    ASSUME NEW p \in Pool, NEW k
    PROVE  /\ ~(p.keys = <<>> /\ p.legacy # NoKey) => MemberOf(p, k) = Entry(p.keys, k)
           /\ p.keys = <<>> /\ k # p.legacy => MemberOf(p, k) = {}
           /\ p.keys = <<>> /\ k = p.legacy /\ p.legacy # NoKey => MemberOf(p, k) # {}
           /\ Entry(<<>>, k) = {}
<1> DEFINE s == p.keys
           m == NewMember(p.legacy, 1, DefaultLabel, FALSE)
<1>1. Listed(s) /\ \A i \in DOMAIN s : s[i] \in Member
  BY PoolIs DEF Listed
<1>2. Entry(<<>>, k) = {}
  BY DEF Entry
<1>3. CASE ~(s = <<>> /\ p.legacy # NoKey)
  <2>1. Members(p) = [i \in DOMAIN s |-> Full(s[i])]
    BY <1>3 DEF Members, Full
  <2>2. \A i \in DOMAIN s : Full(s[i]).key = s[i].key
    BY <1>1 DEF Full, Member
  <2>3. MemberOf(p, k) = Entry(s, k)
    BY <2>1, <2>2 DEF MemberOf, Entry
  <2> QED
    BY <1>2, <1>3, <2>3
<1>4. CASE s = <<>> /\ p.legacy # NoKey
  <2>1. Members(p) = <<m>> /\ m.key = p.legacy
    BY <1>4 DEF Members, NewMember
  <2> HIDE DEF m
  <2>2. DOMAIN <<m>> = {1} /\ <<m>>[1] = m
    OBVIOUS
  <2>3. MemberOf(p, k) = {m : i \in {j \in {1} : m.key = k}}
    BY <2>1, <2>2 DEF MemberOf
  <2> QED
    BY <1>2, <1>4, <2>1, <2>3
<1> QED
  BY <1>3, <1>4

\* Changing, adding or removing the entry of a key leaves the others.
LEMMA EntryKept ==
    ASSUME NEW s, Listed(s), NEW k, NEW key, k # key
    PROVE  /\ \A t : /\ t = [i \in DOMAIN s |-> t[i]]
                     /\ \A i \in DOMAIN s : t[i].key = s[i].key
                     /\ \A i \in DOMAIN s : s[i].key # key => t[i] = s[i]
                     => Entry(t, k) = Entry(s, k)
           /\ \A m : m.key = key => Entry(Append(s, m), k) = Entry(s, k)
           /\ Entry(Without(s, key), k) = Entry(s, k)
<1>1. s \in Seq(Member) /\ DOMAIN s = 1..Len(s) /\ Len(s) \in Nat
  BY DEF Listed
<1>2. ASSUME NEW t, t = [i \in DOMAIN s |-> t[i]], \A i \in DOMAIN s : t[i].key = s[i].key,
             \A i \in DOMAIN s : s[i].key # key => t[i] = s[i]
      PROVE  Entry(t, k) = Entry(s, k)
  <2>1. DOMAIN t = DOMAIN s
    BY <1>2
  <2> QED
    BY <2>1, <1>2 DEF Entry
<1>3. ASSUME NEW m, m.key = key PROVE Entry(Append(s, m), k) = Entry(s, k)
  <2> DEFINE t == Append(s, m)
  <2>1. /\ DOMAIN t = 1..(Len(s) + 1) /\ t[Len(s) + 1] = m
        /\ \A i \in DOMAIN s : t[i] = s[i]
    BY <1>1
  <2> HIDE DEF t
  <2>2. {j \in DOMAIN t : t[j].key = k} = {j \in DOMAIN s : s[j].key = k}
    BY <1>1, <1>3, <2>1
  <2> QED
    BY <2>1, <2>2 DEF Entry, t
<1>4. Entry(Without(s, key), k) = Entry(s, k)
  <2> DEFINE others == {m \in Range(s) : m.key # key}
             f == Among(s, others)
  <2>1. /\ f \in Seq(Member)
        /\ \A i \in DOMAIN f : f[i] \in others /\ \E j \in DOMAIN s : f[i] = s[j]
        /\ \A j \in DOMAIN s : s[j] \in others => \E i \in DOMAIN f : f[i] = s[j]
    <3> HIDE DEF others
    <3> QED
      BY AmongMembers DEF Listed
  <2>2. \A j \in DOMAIN s : s[j].key = k => s[j] \in others
    BY DEF Range
  <2>3. Without(s, key) = f
    BY DEF Without
  <2> HIDE DEF others, f
  <2>4. \A i \in DOMAIN f : \E j \in DOMAIN s : f[i] = s[j]
    BY <2>1
  <2>5. \A j \in DOMAIN s : s[j].key = k => \E i \in DOMAIN f : f[i] = s[j]
    BY <2>1, <2>2
  <2> QED
    BY <2>3, <2>4, <2>5 DEF Entry
<1> QED
  BY <1>2, <1>3, <1>4

\* What an operation does to the entries of other keys, and to the legacy key.
LEMMA AppliedEntries ==
    ASSUME NEW p \in Pool, NEW o \in Operations, o.kind \notin {"read", "settings"},
           Accepted(p, o), NEW k \in Keys \ {o.key}
    PROVE  LET q == Applied(p, o) IN
           /\ Entry(q.keys, k) = Entry(p.keys, k)
           /\ o.kind # "remove" => q.keys # <<>>
           /\ o.kind = "remove" => q.legacy = IF p.legacy = o.key THEN NoKey ELSE p.legacy
           /\ o.kind \in {"update", "toggle"} /\ p.keys = <<>> => p.legacy = o.key
           /\ o.kind = "remove" /\ p.keys = <<>> => q.keys = <<>>
<1> DEFINE s == p.keys
           key == o.key
           q == Applied(p, o)
<1>1. /\ Listed(s) /\ DOMAIN s = 1..Len(s) /\ Len(s) \in Nat /\ \A i \in DOMAIN s : s[i] \in Member
      /\ p = [keys |-> s, legacy |-> p.legacy] /\ k # key
      /\ \A m : Append(s, m) # <<>>
  <2>1. s \in Seq(Member)
    BY PoolIs DEF Listed
  <2>2. \A m : Append(s, m) # <<>>
    BY <2>1
  <2> QED
    BY <2>1, <2>2, PoolIs
<1>2. /\ o.kind \in {"add", "update", "toggle", "remove"}
      /\ o.weight \in Weights /\ o.label \in Labels \cup {NoLabel} /\ o.key \in Keys
  BY StoreAssumption DEF Operation
<1>3. Has(p, key) => s # <<>> /\ DOMAIN s # {}
  BY DEF Has, KeysOf
<1>4. /\ \A t : /\ t = [i \in DOMAIN s |-> t[i]]
                /\ \A i \in DOMAIN s : t[i].key = s[i].key
                /\ \A i \in DOMAIN s : s[i].key # key => t[i] = s[i]
                => Entry(t, k) = Entry(s, k)
      /\ \A m : m.key = key => Entry(Append(s, m), k) = Entry(s, k)
      /\ Entry(Without(s, key), k) = Entry(s, k)
  <2>1. Listed(s) /\ k # key
    BY <1>1
  <2> HIDE DEF s, key
  <2> QED
    BY <2>1, EntryKept
<1>5. CASE o.kind = "add"
  <2> DEFINE Overwrite(m) == [m EXCEPT !.weight = o.weight, !.label = o.label]
  <2>1. q = AddAccount(p, key, o.weight, o.label)
    BY <1>5 DEF Applied
  <2>2. CASE Has(p, key)
    <3> DEFINE t == [i \in DOMAIN s |-> IF s[i].key = key THEN Overwrite(s[i]) ELSE s[i]]
    <3>1. q = ChangeEntry(p, key, Overwrite)
      BY <2>1, <2>2 DEF AddAccount
    <3>2. \A m \in Member : Overwrite(m).key = m.key
      BY DEF Member
    <3> HIDE DEF Overwrite
    <3>3. q = [keys |-> t, legacy |-> p.legacy]
      BY <1>1, <3>1 DEF ChangeEntry
    <3>4. \A i \in DOMAIN s : t[i].key = s[i].key /\ (s[i].key # key => t[i] = s[i])
      BY <1>1, <3>2
    <3>5. t = [i \in DOMAIN s |-> t[i]]
      OBVIOUS
    <3> HIDE DEF t, q, s
    <3>6. Entry(q.keys, k) = Entry(s, k)
      BY <1>4, <3>3, <3>4, <3>5
    <3>7. q.keys # <<>>
      <4>1. DOMAIN t # {} /\ DOMAIN <<>> = {}
        BY <1>3, <2>2, <3>3, <3>5
      <4> QED
        BY <1>3, <2>2, <3>3, <3>5, <4>1
    <3> QED
      BY <1>5, <3>6, <3>7 DEF q, s
  <2>3. CASE ~Has(p, key)
    <3> DEFINE m == NewMember(key, o.weight, o.label, FALSE)
    <3>1. q.keys = Append(s, m) /\ m.key = key
      BY <1>1, <2>1, <2>3 DEF AddAccount, NewMember
    <3> HIDE DEF m, q, s
    <3>2. Entry(q.keys, k) = Entry(s, k) /\ q.keys # <<>>
      BY <1>1, <1>4, <3>1
    <3> QED
      BY <1>5, <3>2 DEF q, s
  <2> QED
    BY <2>2, <2>3
<1>6. CASE o.kind = "update"
  <2> DEFINE Merge(m) == [m EXCEPT !.weight   = IF o.weight > 0 THEN o.weight ELSE @,
                                   !.label    = IF o.label # NoLabel THEN o.label ELSE @,
                                   !.disabled = IF o.disabled # {} THEN TRUE \in o.disabled ELSE @]
  <2>1. q = UpdateAccount(p, key, o.weight, o.label, o.disabled)
    BY <1>6 DEF Applied
  <2>2. Has(p, key) \/ p.legacy = key
    BY <1>6 DEF Accepted, CanUpdate
  <2>3. CASE Has(p, key)
    <3> DEFINE t == [i \in DOMAIN s |-> IF s[i].key = key THEN Merge(s[i]) ELSE s[i]]
    <3>1. q = ChangeEntry(p, key, Merge)
      BY <2>1, <2>3 DEF UpdateAccount
    <3>2. \A m \in Member : Merge(m).key = m.key
      BY DEF Member
    <3> HIDE DEF Merge
    <3>3. q = [keys |-> t, legacy |-> p.legacy]
      BY <1>1, <3>1 DEF ChangeEntry
    <3>4. \A i \in DOMAIN s : t[i].key = s[i].key /\ (s[i].key # key => t[i] = s[i])
      BY <1>1, <3>2
    <3>5. t = [i \in DOMAIN s |-> t[i]]
      OBVIOUS
    <3> HIDE DEF t, q, s
    <3>6. Entry(q.keys, k) = Entry(s, k)
      BY <1>4, <3>3, <3>4, <3>5
    <3>7. q.keys # <<>>
      <4>1. DOMAIN t # {} /\ DOMAIN <<>> = {}
        BY <1>3, <2>3, <3>3, <3>5
      <4> QED
        BY <1>3, <2>3, <3>3, <3>5, <4>1
    <3> QED
      BY <1>3, <1>6, <2>3, <3>6, <3>7 DEF q, s
  <2>4. CASE ~Has(p, key)
    <3> DEFINE n == NewMember(key, 1, DefaultLabel, FALSE)
    <3>1. q = [keys |-> Append(s, Merge(n)), legacy |-> NoKey]
      BY <2>1, <2>4 DEF UpdateAccount
    <3>2. Merge(n).key = key
      BY DEF NewMember
    <3> HIDE DEF Merge, n, q, s
    <3>3. Entry(q.keys, k) = Entry(s, k) /\ q.keys # <<>>
      BY <1>1, <1>4, <3>1, <3>2
    <3> QED
      BY <1>6, <2>2, <2>4, <3>3 DEF q, s
  <2> QED
    BY <2>3, <2>4
<1>7. CASE o.kind = "toggle"
  <2> DEFINE Flip(m) == [m EXCEPT !.disabled = ~@]
  <2>1. q = ToggleAccount(p, key) /\ Has(p, key)
    BY <1>7 DEF Applied, Accepted, CanToggle
  <2> DEFINE t == [i \in DOMAIN s |-> IF s[i].key = key THEN Flip(s[i]) ELSE s[i]]
  <2>2. q = [keys |-> t, legacy |-> p.legacy]
    BY <1>1, <2>1 DEF ToggleAccount, ChangeEntry
  <2>3. \A i \in DOMAIN s : t[i].key = s[i].key /\ (s[i].key # key => t[i] = s[i])
    BY <1>1 DEF Member
  <2>4. t = [i \in DOMAIN s |-> t[i]]
    OBVIOUS
  <2> HIDE DEF t, q, s
  <2>5. Entry(q.keys, k) = Entry(s, k)
    BY <1>4, <2>2, <2>3, <2>4
  <2>6. q.keys # <<>>
    <3>1. DOMAIN t # {} /\ DOMAIN <<>> = {}
      BY <1>3, <2>1, <2>2, <2>4
    <3> QED
      BY <1>3, <2>1, <2>2, <2>4, <3>1
  <2> QED
    BY <1>3, <1>7, <2>1, <2>5, <2>6 DEF q, s
<1>8. CASE o.kind = "remove"
  <2>1. q = [keys |-> Without(s, key), legacy |-> IF p.legacy = key THEN NoKey ELSE p.legacy]
    BY <1>8 DEF Applied, RemoveAccount
  <2>2. Entry(Without(s, key), k) = Entry(s, k)
    BY <1>4
  <2>3. s = <<>> => Without(s, key) = <<>>
    <3>1. Listed(Without(s, key)) /\ KeysOf(Without(s, key)) = KeysOf(s) \ {key}
      BY <1>1, ListedWithout
    <3> HIDE DEF Without
    <3>2. Without(s, key) \in Seq(Member)
      BY <3>1 DEF Listed
    <3>3. KeysOf(<<>>) = {}
      BY DEF KeysOf
    <3>4. s = <<>> => KeysOf(Without(s, key)) = {}
      BY <3>1, <3>3
    <3>5. s = <<>> => DOMAIN Without(s, key) = {}
      BY <3>4 DEF KeysOf
    <3> QED
      BY <3>2, <3>5
  <2> HIDE DEF Without
  <2> QED
    BY <1>8, <2>1, <2>2, <2>3
<1> QED
  BY <1>2, <1>5, <1>6, <1>7, <1>8

\* What a request does to the member of another key.
LEMMA MembersUntouched ==
    ASSUME NEW p \in Pool, NEW o \in Operations, o.kind \notin {"read", "settings"},
           Accepted(p, o), NEW k \in Keys \ {o.key}
    PROVE  LET q == Applied(p, o) IN
           \/ MemberOf(q, k) = MemberOf(p, k)
           \/ /\ k = p.legacy /\ p.keys = <<>> /\ o.kind = "add"
              /\ MemberOf(q, k) = {}
           \/ /\ k = p.legacy /\ p.keys # <<>> /\ o.kind = "remove"
              /\ q.keys = <<>> /\ MemberOf(q, k) # {}
<1> DEFINE q == Applied(p, o)
<1>1. q \in Pool /\ p.legacy \in Keys \cup {NoKey} /\ q.legacy \in Keys \cup {NoKey}
  BY AppliedPool, PoolIs
<1>2. /\ Entry(q.keys, k) = Entry(p.keys, k)
      /\ o.kind # "remove" => q.keys # <<>>
      /\ o.kind = "remove" => q.legacy = IF p.legacy = o.key THEN NoKey ELSE p.legacy
      /\ o.kind \in {"update", "toggle"} /\ p.keys = <<>> => p.legacy = o.key
      /\ o.kind = "remove" /\ p.keys = <<>> => q.keys = <<>>
  BY AppliedEntries
<1>3. o.kind \in {"add", "update", "toggle", "remove"} /\ k # o.key /\ k # NoKey
  BY StoreAssumption, PoolAssumption DEF Operation
<1>4. \A r \in {p, q} :
         /\ ~(r.keys = <<>> /\ r.legacy # NoKey) => MemberOf(r, k) = Entry(r.keys, k)
         /\ r.keys = <<>> /\ k # r.legacy => MemberOf(r, k) = {}
         /\ r.keys = <<>> /\ k = r.legacy /\ r.legacy # NoKey => MemberOf(r, k) # {}
         /\ Entry(<<>>, k) = {}
  BY <1>1, MemberOfIs
<1> HIDE DEF q
<1>5. CASE o.kind # "remove"
  <2>1. MemberOf(q, k) = Entry(p.keys, k)
    BY <1>2, <1>4, <1>5
  <2>2. CASE p.keys # <<>>
    BY <1>4, <2>1, <2>2 DEF q
  <2>3. CASE p.keys = <<>>
    BY <1>2, <1>3, <1>4, <1>5, <2>1, <2>3 DEF q
  <2> QED
    BY <2>2, <2>3 DEF q
<1>6. CASE o.kind = "remove"
  <2>1. CASE p.keys = <<>>
    <3>1. q.keys = <<>> /\ (k = q.legacy <=> k = p.legacy)
      BY <1>2, <1>3, <1>6, <2>1
    <3>2. CASE k # p.legacy
      BY <1>4, <2>1, <3>1, <3>2 DEF q
    <3>3. CASE k = p.legacy
      <4>1. q.legacy = p.legacy
        BY <1>2, <1>3, <1>6, <3>3
      <4>2. Members(q) = Members(p)
        BY <2>1, <3>1, <4>1 DEF Members
      <4> QED
        BY <4>2 DEF MemberOf, q
    <3> QED
      BY <3>2, <3>3
  <2>2. CASE p.keys # <<>>
    <3>1. MemberOf(p, k) = Entry(q.keys, k)
      BY <1>2, <1>4, <2>2
    <3>2. CASE ~(q.keys = <<>> /\ q.legacy # NoKey)
      BY <1>4, <3>1, <3>2 DEF q
    <3>3. CASE q.keys = <<>> /\ q.legacy # NoKey
      <4>1. q.legacy = p.legacy
        BY <1>2, <1>6, <3>3
      <4> QED
        BY <1>4, <1>6, <2>2, <3>1, <3>3, <4>1 DEF q
    <3> QED
      BY <3>2, <3>3
  <2> QED
    BY <2>1, <2>2
<1> QED
  BY <1>5, <1>6

\* An admin request changes no account but its own, whatever runs beside it,
\* but for the two exceptions of the legacy key (addAccount, updateAccount,
\* toggleAccount, removeAccount).
THEOREM OthersUntouchedAlways == Spec => OthersUntouched
<1> DEFINE Untouched ==
        \A h \in Handlers : Act(h) /\ handlers[h].op.kind # "read" =>
          \A k \in Keys \ {handlers[h].op.key} :
             \/ MemberOf(pool', k) = MemberOf(pool, k)
             \/ /\ k = pool.legacy /\ pool.keys = <<>> /\ handlers[h].op.kind = "add"
                /\ MemberOf(pool', k) = {}
             \/ /\ k = pool.legacy /\ pool.keys # <<>> /\ handlers[h].op.kind = "remove"
                /\ pool'.keys = <<>> /\ MemberOf(pool', k) # {}
<1>1. Init => Inv /\ TypeOK
  BY IdleInv, TypeInit DEF Init
<1>2. Inv /\ TypeOK /\ [Next]_vars => Inv' /\ TypeOK'
  BY InvNext, TypeNext
<1>3. ASSUME Inv, TypeOK PROVE Untouched
  <2> SUFFICES ASSUME NEW h \in Handlers, Act(h), handlers[h].op.kind # "read",
                      NEW k \in Keys \ {handlers[h].op.key}
               PROVE  \/ MemberOf(pool', k) = MemberOf(pool, k)
                      \/ /\ k = pool.legacy /\ pool.keys = <<>> /\ handlers[h].op.kind = "add"
                         /\ MemberOf(pool', k) = {}
                      \/ /\ k = pool.legacy /\ pool.keys # <<>> /\ handlers[h].op.kind = "remove"
                         /\ pool'.keys = <<>> /\ MemberOf(pool', k) # {}
    OBVIOUS
  <2> DEFINE o == handlers[h].op
  <2>1. pool \in Pool /\ o \in Operations
    <3>1. handlers[h] \in Handler /\ pool \in Pool
      BY <1>3 DEF TypeOK
    <3>2. handlers[h].pc = "act"
      BY DEF Act, Step
    <3>3. Returns(handlers[h])
      BY <1>3 DEF Inv, Shapes, Shape
    <3>4. handlers[h].op # NoOperation
      BY <3>2, <3>3 DEF Returns
    <3>5. \A c \in Handler : c.op \in Operations \cup {NoOperation}
      BY HandlerFields
    <3>6. handlers[h].op \in Operations \cup {NoOperation}
      BY <3>1, <3>5
    <3> QED
      BY <3>1, <3>4, <3>6
  <2>2. \/ pool' = pool
        \/ Accepted(pool, o) /\ o.kind \notin {"read", "settings"} /\ pool' = Applied(pool, o)
    BY DEF Act
  <2>3. CASE pool' = pool
    BY <2>3 DEF MemberOf
  <2>4. CASE Accepted(pool, o) /\ o.kind \notin {"read", "settings"} /\ pool' = Applied(pool, o)
    <3> HIDE DEF o
    <3>1. \/ MemberOf(pool', k) = MemberOf(pool, k)
          \/ /\ k = pool.legacy /\ pool.keys = <<>> /\ o.kind = "add"
             /\ MemberOf(pool', k) = {}
          \/ /\ k = pool.legacy /\ pool.keys # <<>> /\ o.kind = "remove"
             /\ pool'.keys = <<>> /\ MemberOf(pool', k) # {}
      BY <2>1, <2>4, MembersUntouched DEF o
    <3> QED
      BY <3>1 DEF o
  <2> QED
    BY <2>2, <2>3, <2>4
<1>4. Inv /\ TypeOK => [Untouched]_vars
  BY <1>3
<1> QED
  BY <1>1, <1>2, <1>4, PTL DEF Spec, OthersUntouched
=============================================================================
