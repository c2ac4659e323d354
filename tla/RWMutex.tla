------------------------------- MODULE RWMutex -------------------------------
(***************************************************************************)
(* sync.RWMutex as the code uses it: one lock per configuration            *)
(* (pluginConfig.mu, config.go:28).  A writer first announces itself; from *)
(* then on nobody may start to read, a call that already reads included,   *)
(* and the writer is in once the readers that were there have left.  The   *)
(* lock does not know who took it: whoever unlocks it gives it back.       *)
(***************************************************************************)
CONSTANTS
    Calls,      \* the calls the host makes
    Configs,    \* the parsed configurations
    NoCall      \* the owner of a lock nobody has

ASSUME NoCallAssumption == NoCall \notin Calls

VARIABLE lock   \* per configuration: who reads and who is, or waits to be, writer

LockTypeOK == lock \in [Configs -> [readers : SUBSET Calls, writer : Calls \cup {NoCall}]]

LockInit == lock = [c \in Configs |-> [readers |-> {}, writer |-> NoCall]]

\* RLock returns at once; a writer that only waits is enough to block it.
MayRead(c) == lock[c].writer = NoCall

\* The readers a writer waits for have left.
Drained(c) == lock[c].readers = {}

Reads(c, r)  == lock' = [lock EXCEPT ![c].readers = @ \cup {r}]
Leaves(c, r) == lock' = [lock EXCEPT ![c].readers = @ \ {r}]

Announces(c, w) == lock' = [lock EXCEPT ![c].writer = w]
Unlocks(c)      == lock' = [lock EXCEPT ![c].writer = NoCall]
=============================================================================
