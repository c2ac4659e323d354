# Formal models of cpa-plugin-commandcode-go

TLA+ specifications of the Command Code plugin for CLIProxyAPI, the TLC configurations that
check them on small instances, and TLAPS proofs of what matters most. File and line references
are to the Go sources in `src/`.

Run from this directory: `tlc -workers 2 -config <X>.cfg <module>` and `tlapm <module>.tla`.

## 1. The system

The plugin is a shared library the host (CLIProxyAPI) calls through a C ABI. It turns OpenAI chat
requests into calls of one upstream endpoint that only streams NDJSON events, balances the calls
over a pool of API keys, and serves an admin page that edits the pool.

| Part | Source | State | Operations | Hard about it |
|---|---|---|---|---|
| Stream conversion | `executor.go` 264–619 | `streamState` (local to a request) | `line`, `frames`, `finalize` | the order and completeness of upstream events is not guaranteed |
| Non-streaming assembly | `executor.go` 636–754 | local accumulators | `assembleNonStreaming` | a second reader of the same events |
| Key selection | `executor.go` 45–104 | `wrrCur` under `wrrMu` | `selectMembersOrder` | requests with different views of the pool share the credit |
| Execution, failover | `executor.go` 132–228 | the request's copy of the pool | `callOnce`, `Execute`, `ExecuteStream` | failures of the host's client, the pool changing meanwhile |
| Credential pool | `config.go` 27–60, 164–187; `management.go` 444–569 | `APIKeys`, `APIKey` under `cfg.mu` | add, update, toggle, remove, `members` | the legacy key beside the list |
| Admin persistence | `management.go` 44–57, 92–402, 594–895 | `config.yaml`, `cmdc-*.json` | `persistAccounts`, `persistSettings`, `syncAuthDir` | concurrent requests without a file lock, crashes between writes |
| Lifecycle, dispatch | `abi.go`, `plugin.go` | `abiState`, `globalMgmt.cfg` | load, register, reconfigure, shutdown, call | "The host may invoke methods concurrently" (`abi.go` 85) |
| Configuration locking | `config.go` 78–162, `management.go` 333–381 | `cfg.mu` | accessors, settings requests | a nested read lock, and `m.cfg` changing between lock and unlock |
| Host calls | `hostcall.go` | a channel and a goroutine per stream | `Do`, `DoStream` | the reader may stop reading, the context be cancelled, the host go away |
| Model routing | `router.go`, `config.go` 204–288, `plugin.go` 117–155 | indexes built once | `models`, `owned`, `upstreamModel` | prefixes and aliases overlap, the settings change between reads |
| Request translation | `translator.go` | local to a request | `buildEnvelope`, `convertMessages` | pairing tool calls with results, replaying reasoning |
| Admin page | `admin.html` | browser | none on the server | its texts are promises about the rest |

How they interact: a request enters through the ABI, is routed and translated, reads the pool once
(`members`), orders it (`selectMembersOrder`) and walks its copy (`callOnce`); the body goes through
the converter or the assembler. Admin requests change the pool and the settings under `cfg.mu`, then
write the configuration file and mirror the accounts into the auth directory; every admin request
also hands the one management service the configuration of its plugin and syncs the directory when
it arrives (`getManagementService`), and so does registration. Routing and translation read those
settings, each under a short lock of its own.

What makes each part correct is listed as `hazards` in `PROJECT.json`, each with its line and the
properties that cover it.

## 2. Modules

| Module | Models | Built on |
|---|---|---|
| `ChatEvents` | the upstream events as data | |
| `StreamConverter` | `convertEventStream`, `streamState` | `ChatEvents` |
| `ChatClient` | the client's fold of chunks (external) | `ChatEvents` |
| `ChatCompletion` | what a stream promises its client (abstract specification) | `ChatClient` |
| `Assembler` | `assembleNonStreaming` | `ChatEvents` |
| `StreamAgreement` | converter and assembler over one body; the mapping of the converter to `ChatCompletion` | `StreamConverter`, `Assembler`, `ChatClient`, `ChatCompletion` |
| `KeyPool` | the pool and what the admin operations make of it | |
| `KeySelection` | `selectMembersOrder` as a function of credit and members | `KeyPool` |
| `KeyScheduler` | selection over fixed pools and over pools that are changed | `KeySelection` |
| `Executor` | concurrent `callOnce`s over a pool that changes | `KeySelection` |
| `AccountStore` | admin requests, `config.yaml`, the auth directory, crashes | `KeyPool` |
| `RWMutex` | `sync.RWMutex`, one per configuration (external) | |
| `PluginLifecycle` | concurrent calls, reconfiguration, shutdown, the configuration locks | `RWMutex` |
| `OrderedBody` | what a streamed body promises its reader (abstract specification) | |
| `HostStream` | `DoStream`, its goroutine, the host's stream and the reader | `OrderedBody` |
| `ModelRouting` | names, prefixes, aliases: `models`, `owned`, `upstreamModel` as operators | |
| `MessageTranslation` | `convertMessages`, one turn per step | |
| `RequestPath` | a request from the list of models to the envelope, settings changing | both of these |
| `MC*` | instances for TLC | the module they name |
| `KeySelection_proofs` | what the operators of `KeyPool` and `KeySelection` compute: lemmas for three of the others | `KeySelection` |
| other `*_proofs` | theorems and proofs | the module they name |

**StreamConverter.** One action per kind of event in `frames`; `Line(e)` is one call of
`streamState.line` and `Finalize` ends the fold. `roleSent`, `toolOpen`, `toolIndex`, `usage`,
`finished`, `doneSent` are the fields of `streamState`; `out` is the list of frames, `seen` a history
variable. The body is any sequence of lines, cut anywhere, so lost and late events are all covered.
Payload bytes are never inspected by the code, so an event has only flags and a payload is named by
the position of its event. A start event without an id gets a minted id (a UUID, never equal to an
upstream id). `Assembler` folds the same events and then makes its response of the fold: arguments
trimmed with `{}` for none, zeros without usage, no reasoning tokens. For that a fragment is `blank` or
not, a tool event `named` or not, and a usage block says whether it has reasoning tokens.

**KeyScheduler.** `Read` is `members()`, `Select` the critical section of `wrrMu`, `Adjust` a toggle
or update of an account. A request may select over a pool that has changed since it read it.

**Executor.** `Begin` is the read of the pool, `Select` the critical section of `wrrMu`, `Answer` one
upstream call with any outcome (2xx, retryable status, other status, transport error), `Reply` the
return to the host, `Admin` the critical section of an admin operation. A request's further steps
touch only its copy. The ABI passes `context.Background` (`abi.go` 157), so `ctx.Err()` is always nil.

**AccountStore.** A request is `Arrive` (a call of `getManagementService`), a sync (`SyncList`, one
`SyncWrite` per file, `SyncPrune`), the critical section `Act`, then `Read`, `ListAccounts`,
`Truncate`, `Save` for the file and a second sync, then `Reply`. `persistAccounts` lists the accounts
after reading the file, so these are two steps. `os.WriteFile` truncates, then writes; of two requests
that truncate before either writes the second writes over the first (`WrittenOver`), and the file is
its text, torn (it does not parse), or a mix of the two. Two mixes are left out: one that lists a key
twice, and one with half an entry that parses all the same. Auth files are written in one step, since
the next sync rewrites each of them whole. `Restart` is a crash of the process followed by registration
(`handleRegister`, `buildPlugin`), at any point; of an empty or torn file it loads nothing, as the host,
which is the one to parse it, is taken to do. How a label and a key become a file name is left to two
constants, `AuthFileName` and `HashedName`, of which nothing is assumed: names collide as they may.
`alone` and `before` are history: whether another request overlapped this one, and what the file held
when it came. The browser's `/callback` is an add of weight 1.

**PluginLifecycle.** A call is a sequence of statements (`pc`), each of which evaluates `m.cfg` anew;
`target` is what it was evaluated to, `own` the configuration of the plugin the call found. `Register`
builds a configuration, hands it to the service and syncs; `Swap` publishes the plugin. A settings
request takes the outer read lock (`OuterRead`), reads each setting under a lock of its own
(`ReadField`), and gives the outer lock back (`ReleaseRead`); an update announces itself, waits for
the readers (`Enter`), writes and unlocks. Account operations lock as an update does. `RWMutex` has
Go's writer preference: from the announcement on nobody starts to read, a call that already does
included. `mixed` is history: whether management calls of two configurations share `m.cfg` now, have
done so once and returned, or never did. Releasing a lock that is not held ends the model (`fate`): Go
stops the process when the mutex is not locked at all, and otherwise somebody else's hold is given
back. A management call ends at its unlock: that `syncAuthDir` and `persistAccounts` read `m.cfg` once
more after it (lines 654, 703), and may save another configuration's accounts, is not modelled.

**HostStream.** `AnswerBuffered`, `AnswerEmpty`, `AnswerStream` and `RequestFails` are the outcomes of
the first host call (an answer that cannot be decoded may leave a stream open whose id is lost),
`CheckContext`, `ReadAnswers`, `ReadFails`, `HandOver`, `GiveUp`, `HandOverError`, `ReleaseStream`,
`CloseChannel` the goroutine. The channel is unbuffered, so handing over is one step of goroutine and
reader. Nothing in `src/` calls `DoStream` yet; the SDK's interface requires it, and the reader is
modelled as any that may leave at any time.

**RequestPath.** The steps are the reads of the settings: `models()` takes three, `owned` and
`claimsModel` up to three, `convertMessages` one and `upstreamModel` one, and `UpdateSettings` may come
between any two. A name is the sequence of its segments between slashes; `Segments` is what segments
the catalogue, the aliases and the prefixes are made of. `CatalogAssumption` states what the generated
catalogue (`models_catalog.go`) satisfies: no id begins with `cmdc` or `commandcode-go`. The model the
host passes beside the body is the body's or none, so the router never has two different candidates; a
body that does not parse, which is forwarded as it is, is left out. A text is told apart only by
whether it starts with a `<thought>` block or was given one here.

## 3. Runs

| Run | Configuration | States | Shows |
|---|---|---|---|
| `stream_converter` | `StreamConverter.cfg` | 224k | bodies of any lines up to 3, of any but empty lines up to 4, with 2 tool ids and the empty id: the seven stream properties; `ClientSpec`: the frames, folded by the client, implement `ChatCompletion`; `BothReadersAgree`: for expected bodies of up to 5 lines the answers of the two readers differ in three named places only |
| `key_scheduler` | `KeyScheduler.cfg` | 111k | `ExactShare`, `NeverAhead` for every pool of up to 4 keys with weights 1–4; `CreditBounded` and, under fairness, `NoKeyStarves` while keys are toggled and reweighted |
| `executor` | `Executor.cfg` | 385k | two requests, two keys, any admin operation at any time: `FailoverCoversPool`, `StopsAtAnswer`, `CreditConserved` |
| `account_store` | `AccountStore.cfg` | 810k | every operation alone, account removals and additions and settings requests two at a time, files that two requests write over each other, crashes: `AloneRepairs`, `AloneIsAtomic`, `OthersUntouched` |
| `lifecycle` | `PluginLifecycle.cfg` | 65k | calls of any kind, with reconfigure and shutdown: `SettingsReadWhole`, `UpdateReachesServed`, `BrokenOnlyWhenMoved`, `OnlyNestedReadWedges`, `ShutdownUnserves`, and under fairness `EveryCallReturns` |
| `host_stream` | `HostStream.cfg` | 1.5k | every answer of the host, up to four payloads: `BodySpec`, `ReleasedBeforeEnd`, and under fairness `ReaderSeesEnd`, `StreamReleased` |
| `request_path` | `RequestPath.cfg` | 1.0M | overlapping prefixes and aliases, one of a catalogue id: `ListedIsServed`, `OwnNamespaceNeverStale`, `AliasIsServed`; every conversation of up to three turns: `ResultNamesItsCall`, `TurnsKept`, `OneReplayMode` |

Five runs expect a violation, each a disagreement between a statement of the repository and its code:

* `settings_race`: the page says settings are "successfully saved and written to config.yaml!"; an
  account request that read the file earlier overwrites them. Memory and file then differ.
* `legacy_key`: the legacy `api_key` is "treated as a single-member pool so existing configs keep
  working"; adding an account to that pool loses the member. (`abi.go` 341, "Used when api_keys is
  empty", describes what happens, and `updateAccount` does carry the legacy key over.)
* `reconfigure_race`: "The host may invoke methods concurrently" (`abi.go` 85–86); a reconfigure
  between the lock and the unlock of a management call makes it unlock the mutex of another
  configuration, which nobody holds. `BrokenOnlyWhenMoved` shows that this takes calls of two
  configurations at once.
* `nested_read_lock`: the same comment; a settings request that reads while an update waits takes a
  lock it holds already, and waits for ever. `OnlyNestedReadWedges` shows that no circle does without
  a settings request that waits for a read lock while it holds one; when calls of two configurations
  share `m.cfg` the lock waited for can be the other configuration's.
* `namespaced_alias`: "modelMap maps a client-facing alias to an upstream vendor model id"
  (`config.go` 62); an alias that starts with the namespace, as those of the samples do, is never
  found, since `upstreamModel` cuts the namespace off first. `AliasIsServed` holds of the others.

What the properties except, because the code does it:

* `BothReadersAgree`: a non-streaming client gets the arguments of a call without the white space at
  both ends, and `{}` for none; it is told zero tokens where the other is told nothing, and nothing of
  reasoning tokens. Bodies with an `error` event are not expected ones: the assembler ignores it.
* `AloneRepairs`: a `config.yaml` that a crash or a race has left empty or torn stays as it is; a
  settings request says so, an account request reports success. A file for every account is promised
  only if no hashed name is another account's (`HashesFree`); otherwise the last of the two has the file.
* `SettingsReadWhole`, `UpdateReachesServed`: nothing while calls of two configurations share `m.cfg`,
  and the first nothing after that either, since settings torn then stay torn. An update also misses the
  served plugin when its own has been replaced since it was called, as when it captured the old plugin
  before a registration published the new one.
* `ShutdownUnserves`: a registration under way when the shutdown comes publishes its plugin after it.
* `StreamReleased`: the errors and payloads for a reader that has left, and the stream of an answer
  that could not be decoded.
* `ListedIsServed`: a bare id that starts with the prefix is claimed and then cut.
* `OneReplayMode` counts parts and blocks in a message and says nothing of what the reasoning is: one
  that comes in two fields, different in white space, is joined to itself (`translator.go` 343).

### Bounds

* `MaxEvents` = 5 and `MaxLines` = 4 (lines of a body): a violation of the stream properties needs
  at most a start, a delta, a terminal event and one late event. Marks (named, blank, reasoned) are in
  expected bodies only, since nothing else depends on them, and not beside text in those of four lines: a
  call whose arguments are blank, or that is named twice, takes four with its finish. Of four lines there
  are no empty ones; of five lines only expected bodies without marks and text, which leaves a call from
  its start to the finish with a step. The proofs hold for every value.
* `MaxRounds` = 24 is at least one full cycle of the largest total weight (16) and two or more of
  every pool with a total up to 12; the credit returns to zero after a cycle, so behaviour repeats.
* `ChangeablePools` is one pool of three keys: with two a toggled key leaves a pool of one.
* `MaxWeight` = 1 in the executor and the store: weights above 1 are the scheduler run's business. The
  weight 0 (any weight below 1) is what a file of the store, or an operation, may say; the pools of the
  executor and the scheduler come from `members`, which makes it 1.
* Two keys make failover, its order and its exhaustion happen. Two requests are the least that
  interleave. Requests of the store overlap only when they are of the few operations, and on the plain
  accounts, named in `MCAccountStore`: the races are about the files, and those operations write all
  of them. A third account is in some initial files only; it is what a hashed name can collide with.
* Four calls of the lifecycle, of which the first registers; the names of the others mean nothing, so
  they begin in their order. Four settings, as `handleSettings` reads. With six calls there is a circle
  through nested reads over two configurations in which none waits for the lock it holds, which the
  second case of `EveryCallReturns` covers; in four calls the nested read is of the same lock.
* `MaxPayloads` = 4 covers a payload before, beside and after every other event of a stream.
* Names and conversations do not influence each other, so `MCRequestPath` takes rich names with an
  empty conversation, and every conversation with one name. `MaxUpdates` = 2: the settings
  change twice, between any of the reads.

Symmetry is used only in runs without a liveness property, over sets the specification does not
order (tool ids, keys and requests of `Executor`, handlers, ids and function names).

### Fairness

* `NoKeyStarves`: requests keep coming, each reads and each selects (`Fairness` of `KeyScheduler`;
  without traffic no key is tried). `Select` holds a mutex nobody keeps. `Adjust` is not fair.
* `EveryCallReturns`: weak fairness of the next statement of each call, which Go's scheduler gives a
  goroutine that is not blocked; the host need not begin any call.
* `ReaderSeesEnd`, `StreamReleased`: weak fairness of the goroutine, of the host's answers and of a
  reader that goes on reading, and that a body ends some time. `Leave`, `Cancel` and `Shutdown` are
  not fair.

## 4. Proofs

Checked by TLAPS for every value of the constants.

| Theorem | Module | Says |
|---|---|---|
| `TypeCorrect`, `RoleLeadsAlways`, `FinishEndsStreamAlways`, `IndexPerCallAlways`, `ArgumentsReachTheirCallAlways`, `PayloadInOrderAlways`, `PayloadCompleteAlways`, `LatestUsageReportedAlways` | `StreamConverter_proofs` | `Spec => []P` for the property each is named after, for every set of tool ids and inputs and every bound on the body |
| `ConverterRefinesChatCompletion` | `StreamConverter_proofs` | `Spec => ClientSpec`: the converter implements `ChatCompletion`, for the same |
| `BothReadersAgreeAlways` | `StreamConverter_proofs` | `Spec => []BothReadersAgree`: converter and assembler give the same answer to every expected body of any length, but for the three differences it names |
| `NeverAheadAlways`, `ExactShareAlways`, `CreditBoundedAlways` | `KeyScheduler_proofs` | the same, for every pool of any size, all weights and any number of requests and changes |
| `StopsAtAnswerAlways`, `FailoverCoversPoolAlways`, `CreditConservedAlways` | `Executor_proofs` | the same, for any requests, keys, weights and pools |
| `TypeOKAlways`, `AloneIsAtomicAlways`, `AloneRepairsAlways`, `OthersUntouchedAlways` | `AccountStore_proofs` | the same, for any handlers, operations, accounts and settings; `OthersUntouched` is an action property |
| `TypeCorrect`, `SettingsReadWholeAlways`, `UpdateReachesServedAlways`, `BrokenOnlyWhenMovedAlways`, `OnlyNestedReadWedgesAlways`, `ShutdownUnservesAlways` | `PluginLifecycle_proofs` | the same, for any number of calls, reconfigurations and settings |
| `TypeCorrect`, `ReleasedBeforeEndAlways`, `BodyKept` | `HostStream_proofs` | the same, and `Spec => Body!Spec`: `DoStream` implements `OrderedBody`, for bodies of any length |
| `TypeOKAlways`, `ListedIsServedAlways`, `OwnNamespaceNeverStaleAlways`, `AliasIsServedAlways`, `ResultNamesItsCallAlways`, `TurnsKeptAlways`, `OneReplayModeAlways` | `RequestPath_proofs` | the same, for every catalogue, alias map, set of settings and conversations of any length |

They rest on the named assumptions of the modules only, which TLC evaluates on the instances:

* about values that stand for "nothing", which are none of the others: `NoIdAssumption`,
  `NoCallAssumption`, `EmptyAssumption`, parts of `PoolAssumption`;
* about ranges and types: `InputsAssumption`, `MaxEventsAssumption`, `InitialPoolsAssumption`,
  `StoreAssumption`, `NamesAssumption`, `LifecycleAssumption`, `StreamAssumption`,
  `MaxRoundsAssumption`, `PathAssumption`;
* `PoolAssumption`: the keys that ever occur are finitely many, so that credit has a sum;
* `PoolsAssumption`: the scheduler's pools are not empty and have distinct keys with weights above 0,
  as `members` returns them (`config.go` 175). That keys are distinct, here and in `Pool`, is what the
  admin operations keep; `parseConfig` does not check it, so of a file written by hand that lists one
  key twice nothing is said;
* `CatalogAssumption`: the catalogue's ids are not empty and do not begin with a namespace of the
  plugin.

What a fold or a recursive function computes is proved by induction over sets: a set of numbers has a
least element (`LeastOf`, `LeastNumber`), so one that holds 0 and the successor of each of its elements
holds every number, and one that is closed under adding an element holds every finite set. The set is
that of the arguments for which the fact holds, so no theorem about a predicate has to be instantiated.

*The converter.* No single property is inductive: that an argument fragment reaches its call needs
that an open call has a frame, which needs the indices, which need the types. The invariant `IInv`
conjoins the seven properties with `Bookkeeping` (the flags agree with the frames out so far and with
the terminal events seen, and a payload frame's source is a consumed line). Frames are only appended,
so two lemmas say what appending does to `out` and what a step starts from (`Led`, `Finished`), and
each property then has one lemma with one step per action. `LatestUsageReported` is inductive beside
`IInv`: a usage frame means that the stream is closed, and `InputsAssumption` keeps the other events
from carrying usage.

*The client's view.* `ClientMessage` and `Assemble` are recursive functions over the positions of
frames and lines. That such a function exists is shown first (`ReceivedExists`, `FoldedExists`), then
that one frame, or line, more is one `Receive`, or `FoldEvent`, more (`MessageFold`, `ResponseFold`).
`held` names what the client has put together so far, and `Held` relates it to `streamState`: a call
is held exactly when it is in `toolOpen`, at the position its index says, `toolIndex` calls in all;
there is a finish reason exactly when `finished`; the usage arrives with `doneSent`; and nothing was an
orphan. With one lemma per action on what becomes of `held` (`TextHeld`, `StartHeld`, `DeltaHeld`,
`FinishHeld`, `ErrorHeld`, `CloseHeld`) every action maps to one of `ChatCompletion`: `TextDelta` to
`Text`, `ToolStart` to `OpenCall` or `Skip`, `ToolDelta` to `Arguments`, `Finish` to `Finish`, `Error`
to `Fail`, `Finalize` to `Close` and every other line to `Skip`.

*Both readers.* `BothReadersAgree` compares two folds at the end only. `AnswersAgree` compares them
after every line: `answer` is what the assembler would return if the body ended there. As long as the
body is one `SoFar` allows, texts and calls of `held` and `answer` are the same (`SameCalls`), the
assembler's finish reason is the client's or still "stop", and a call that got a fragment has arguments
(`FragmentsKept`), which is why the input of a later complete call adds nothing. The assembler looks a
call up by searching its list and the converter by its index; `SlotHeld` says that they find the same
one. Usage is the part with a condition of its own: the converter takes the latest block, the assembler
the first of the `finish-step`s unless the `finish` has one, so they agree only while the body so far
has one block at most or ends with a `finish` that has one (`UsageAgrees`). That is what `AsExpected`
asks for. Names are the other: both keep the first one given, the client looking through the frames and
the assembler through the events (`NamesAgree`), which takes that a complete call names nothing new.
What the assembler then makes of its fold, it makes of the same fold the client has.

*Key selection.* `KeySelection_proofs` says what the operators return: `Among` keeps order, distinct
keys and exactly the chosen members; sums over a finite set do not depend on the order; each active
key earns its weight, the best pays the total, so the sum of all credit stays; the candidates are the
active members, each once, the best first. `KeyScheduler_proofs` adds two invariants. `LeadInv`: while
nobody changes the pool the credit of a key is exactly `rounds * weight - picks * total`, the leads
sum to 0 and each is above `-total`. With a sum of 0 somebody's lead is positive after raising, so the
best key's is, and paying the total keeps it above `-total`; `NeverAhead` is that bound, and at a full
cycle a lead is a multiple of the total, so it is 0: `ExactShare`. `CreditInv`, for changing pools:
no credit outside the pool, and any `a` of its `n` keys together have at most `a * (n - a)` times the
heaviest weight seen (`Spread`). The bound on one key alone is not inductive; this one is: a
selection either charges a key of the set or leaves out one with at least as much credit as each of
its own, and then the bound on the set with that key gives the bound on the set. `CreditBounded` is
the case of one key and of all but one.

*The executor.* `StopsAtAnswer` is inductive once the answers of a request are known to be answers
(`Shapes`): a request in its loop holds no answer that would have ended it, and `MovesOn` is false for
one that does. `Walks` adds what a request knows of its copy: it is a pool that can be scheduled, the
candidates are its enabled members, each once, and there are as many answers as candidates when a
request ends without an answer that settles it. Nothing in it mentions the pool, so a change of the
pool keeps it; `FailoverCoversPool` follows. `CreditConserved` needs that each selection is over
distinct keys of `Keys`.

*The account store.* `AloneIsAtomic` says nothing of where a request is, so it is not inductive. `Inv`
adds that nobody else is active beside a request that runs alone, and `Phase`, which says what
`config.yaml` and the content to be written are at each step. A step of another request cannot
disturb it since there is none; a crash makes every request idle. That proof does not look into pools
or files. The others do: the types need that every operation keeps keys distinct (removal filters), and
so does every mix of two files. `Repaired` is what a request that runs alone has put right so far: at
each step of a sync, which files are written (`FilesOf`: the last account of a name so far has its
file, whatever names collide), after `SyncPrune` the directory is the mirror of the pool; when it has
answered and changed something, the file is the pool, or as unreadable as it was. That the directory
has as many files as the pool accounts needs `HashesFree`. `OthersUntouched` is proved of each operation
on the pool, from the types.

*The lifecycle.* `Inv` says, besides the types: the lock a call holds is the one its stage needs
(`Consistent`, `Locks`); while calls of two configurations do not share `m.cfg`, a management call
works on its own configuration (`Follows`), a reader has read what is still there (`Copied`) and a
writer has written what it claims (`Written`); and if they never did, settings nobody is writing are of
one update (`Whole`). The lock part is needed only while no lock is broken, so the conjuncts carry
those conditions; each has a lemma for calls that begin and one for their next statements. `Copied` and
`Written` hold again once such calls have returned, `Whole` does not: hence the three values of
`mixed`. Lock operations are used through lemmas on what they leave alone, never through the record.

*The host's stream.* `Inv` counts: what the reader has and what is buffered are the first payloads in
order, all of them but the one being offered (`InOrder`, `Delivered`), and a goroutine on its way out
has delivered an error or the whole body unless the request was cancelled; the channel is closed at
the very end (`Ended`). Every step then maps to one step of `OrderedBody` or to a stutter:
`AnswerBuffered`, `AnswerEmpty` and `ReadAnswers` to `HostSends`, `HandOver` and `TakeBuffered` to
`Receive`, `HandOverError` to `Fail`, `SeeEnd` to `End`.

*Routing.* `Routed` says what is known at each read: what the call has seen of the settings are
settings that were in force, and are the present ones as long as none changed (`ViewOK`); every offer
is a catalogue id bare or under a prefix (`ListedOK`), and so is the name asked for (`AskedOK`); what
the router has found so far (`OwnedOK`); and the model sent (`SentOK`). Which name resolves to which
model then follows from lemmas on `Cut`: no catalogue id begins with a namespace of the plugin, so
what is cut off a listed name is its prefix, and no more. `steady`, that the settings have not changed
since the list, is a condition of `ListedIsServed` and not of `OwnNamespaceNeverStale`.

*Translation.* `Translated` holds between any two turns: messages come from the turns converted so
far in their order (`TurnsOK`), each of which is kept with its reasoning replayed in `mode` (`KeptOK`),
`toolNames` knows the last call of each id in the messages (`NamesOK`), and results carry the name that
was known when they were converted (`ResultsOK`). The work is in three lemmas on one turn: the parts of
an assistant turn are reasoning, texts, calls in this order (`Laid`), how many of them were put there
by the replay, and which call of the turn is the last with an id. The settings take part only through
`mode`, which is read once.

Model-checked only:

* `NoKeyStarves`, `EveryCallReturns`, `ReaderSeesEnd`, `StreamReleased`: liveness under fairness, which
  the prover does not do.

## 5. Not modelled

* The rendering of frames, responses, YAML and JSON; HTTP headers; the text of errors. Failing file
  operations, the search for `config.yaml` and the auth directory.
* The OAuth state table (`pendingStates`): it is written and pruned, and nothing reads it.
  `HttpRequest` and `CountTokens`, which keep no state.
* `convertTools`, `parseToolArguments`, `rawText`, the display names and limits of the catalogue: one
  value converted to another.
* A configuration file written by hand that lists one key twice: `parseConfig` takes it as it is.
* The admin page's script and the generated catalogue.

Seen while reading, without a run:

* The project README's sample puts the plugin's block under `plugins.commandcode-go`, where
  `updateYamlAccounts` (`management.go` 723–754) does not find it, so nothing is persisted.
* `assembleNonStreaming` ignores `error` events, which end a streamed answer.
* `config.go` 25–26 says keys rotate only "for failures that happen before the upstream produced a
  response"; `callOnce` (line 171) also rotates after a response with a retryable status. Its own
  comment, "before any successful response", has it right, and `StopsAtAnswer` is stated of that.
* Two overlapping admin requests can leave the auth directory behind memory ("kept in real-time sync",
  `admin.html` 1404) until the next request, which repairs it (`AloneRepairs`).
* `max_completion_tokens` is parsed (`translator.go` 75) and never used; `top_p` and `stop` are
  advertised (`plugin.go` 175) and not passed on. `extractReasoning` compares a trimmed text with an
  untrimmed one (line 343), so the same reasoning may be replayed twice. Images in system, assistant
  and tool turns are dropped without a word.
* A browser callback for a key of the pool sets its weight back to 1 (`management.go` 202).
* The goroutine of `DoStream` waits for ever with an error for a reader that has left
  (`hostcall.go` 160, 167), and a stream whose answer cannot be decoded stays open (125–127).

## 6. Plan

1. Done: the converter, its client's view, the assembler; selection; execution; the account store;
   the lifecycle and its locks; the host's stream; routing and translation.
2. Proved: every safety property of the runs, and both refinements. The four liveness properties stay
   with TLC.
3. To model, where it pays: failing file operations in `AccountStore`, what a management call saves after
   its unlock when `m.cfg` has changed, a model beside the body that differs from the body's.
