# A TLA+ model of the k8s agent

The agent (`cmd/operator`) runs inside a cluster. It reports the cluster's
objects to a control plane and executes the signed commands that the control
plane sends. This directory models the parts whose behaviour depends on the
order of events, checks the models with TLC on small instances, and proves the
central properties with TLAPS for every value of the constants.

## The system and its parts

| Part | Source | Status | Modules |
|---|---|---|---|
| Uploader | `internal/uploader` | modelled | `Uploader` |
| Informer manager | `internal/informers` | partly (redaction and metrics are left out) | `Informers`, `Operator` |
| Inventory pipeline (informers, uploader, control plane) | the two above, `cmd/operator` | modelled | `InventorySync` |
| Receiver | `internal/receiver` | modelled | `Receiver`, `PushChannel` |
| WebSocket client | `internal/wsclient` | modelled | `WsClient`, implements `PushChannel` |
| Executor: apply, patch, delete, cert-rotate, Helm verbs | `internal/executor` | modelled | `Executor` |
| The body of an update, field by field | `internal/executor` | modelled | `Merge` |
| Drift detection | `internal/drift` | modelled | `Executor` |
| Drain and uncordon | `internal/executor` | modelled | `Drain` |
| Operator main, readiness, shutdown | `cmd/operator`, `internal/server` | modelled | `Operator` |
| Configuration | `internal/config` | partly (durations, paths) | `Config` |
| Mock control plane | `cmd/mockserver` | modelled | `MockServer`, composed in `Operator` |
| Protocol client | `internal/protocol` | partly (answers and errors) | `Uploader`, `Receiver`, `Operator` |
| Validator, protocol types, signatures, metrics, chart | | not modelled, see below | |

Two pipelines share the process. *Inventory*: informers call `Enqueue`, the
uploader's `Run` sends batches, the control plane stores rows. *Commands*: polls
and WebSocket pushes reach `process`, which starts one `HandleCommand` goroutine
per accepted command; the handler's reports leave through the socket and through
a queue that polls carry. `cmd/operator` starts both, stops both, and reports
readiness.

## Modules

Variables and actions keep the names of the source. `PROJECT.json` gives the
lines behind each definition. A definition marked `Mutant` is a plausible bug
used to show that a property can fail; no specification uses it.

**Uploader.** `buf`, `spill`, `notify`, `seq`, `needSnapshot`, `backoff` are the
fields of the struct and the locals of `Run`; `seqFile` and `torn` are what is on
disk; `pc` says where `Run` is. `Enqueue` is two steps, `Enqueue` and `Signal`,
because the code signals after it unlocks. `os.WriteFile` is two steps, because
it truncates first (`PersistTruncate`, `PersistWrite`). `Restart` keeps the files
and nothing else; an orderly stop is the same step, since `Run` does not flush.

**Informers, InventorySync.** `Informers` has the API server's objects, the
caches and the notifications under way; `Snapshot` returns the cached objects in
any order. `InventorySync` instantiates it and `Uploader`, feeds `toEvent` into
`Enqueue`, and adds the control plane's `rows`, to which each batch that arrives
is applied. A send that fails was applied or not.

**Receiver.** `process` is a thread per channel (`at`, `arg`). `nonceCache.seen`
has no lock, so it is a lookup step and an insertion step, and two insertions at
once may lose a list element. `queue` and `req` have the reports that wait and
those that a poll carries; `wire` and `dropped` follow the terminal ones. The
WebSocket appears as its connected flag, its writes and its pushes. Handlers are
reduced to their first and their last report: succeeded, failed or refused
(`HandlerFinishes`), or the progress report with which a stalled drain returns
(`HandlerStalls`).

**Executor.** One handler per command, with steps `Begin`, `Fetch`, `DryRun`,
`Write`, `RestampGet` and `RestampPatch`: between any two of them other handlers
and `Foreign` writers run. The verbs differ in `...Fetched` (what they make of
the object they read) and `...Admitted` (what the API server lets them write).
An object has a `resourceVersion`, a drift annotation, and a content in two
parts: what a manifest sets, and what it omits.

**Drain.** `Cordon`, `ListPods`, `Evict` and `Uncordon` are the handlers;
`ClusterStep` is everybody else: scheduler, owners, kubelet, budgets, operators,
shutdown. An eviction that the API server accepts only starts the deletion of the
pod (`leaving`); when the kubelet has ended it, it is gone from its node (`where`).
The code does not wait for that.

**Merge.** `MergeMap`, `AdoptImmutableFields`, `ReconcileSelectorLabels` and
`ClampPVCStorage` are the functions of the same names, on objects that are trees
of maps, leaves and nulls: a map gives a value to every key, `Missing` to those
that it does not have. `MergeMap` is a recursive function on `Values`, the trees
of at most `Depth` levels. `Update` builds the body; `Store` is the API server,
which drops nulls and keeps the status of a built-in kind; then the same manifest
is applied once more.

**PushChannel, WsClient.** `PushChannel` says what the receiver relies on: when
`Connected` may change and what a successful `SendReport` means. `WsClient` has
the goroutine of `Run` (`run`), the socket (`open`, `mute`, `inbound`), the
callers of `SendReport` with the mutex (`call`, `age`, `starving`), and
`keepalive` with its ticker and its ping (`ka`, `tick`, `due`, `pinged`). The
read loop is itself a caller, because the command handler runs inside it. Time
is a step, `Tick`, which is taken only when no goroutine has something to do
(`Quiet`). `Channel` is the refinement mapping.

**Config, MockServer, Operator.** `Config` is `Load` and `Validate` as operators.
`MockServer` hands its commands out on the first poll and on the first
connection. `Operator` is `run`: `Load`, `Clients`, `Build`, `Spawn`, then the
goroutines (`Begin`, `End`), readiness, and `Finish`, which waits for the
goroutines and not for handlers. A handler has the context that `process` gave it
(`ctx`), and remembers whether its command came before `Receiver.Run` had begun
(`early`). `RunWithContext` of Helm works in a goroutine of its own and returns when
the context is cancelled, without stopping it (`abandoned`); an uninstall is given
no context at all (`helm.go:164`, `213`, `230`). A subsystem is reduced to what the
others see of it; the modules above have the detail.

`MC*` modules give the constants small values; `*Proofs` hold the theorems.

### Abstractions

- An event, command, object or pod is a model value. A hash is the content it
  was computed from, so two contents never share one.
- An `ack` with an error text counts as success, as in the code. A torn seq
  file reads as none. Loss of the spill volume itself is not modelled.
- `deliverReport` is one step. Its order against other reports is not part of
  any property.
- A failing API write may have been executed. A Helm action is one such write;
  Helm's dry run of an install does not look whether the release exists.
- Immutable fields that an update adopts from the live object count as omitted
  by the manifest.
- A handler's death by restart is in `Receiver` (the handler vanishes), not in
  `Executor`.
- Time in a drain is counted in two-second pauses; calls take no time. The
  receiver's backoff durations are left out: a poll may start at any time.
- A concurrent map access that stops the process is covered by `Restart`.
- The control plane of `Receiver` hands out any command at any time, also again,
  and keeps only terminal reports. The one of `Operator` is the mock server.
- In `WsClient` any frame but a pong is a command, whose handler may return at
  once. Dialling, the close handshake and a backoff take any time, and a dial may
  never return; the backoff's value is kept for its bound. A ping is written
  without delay; the library closes a socket on which a write has timed out, and a
  write to a mute peer succeeds or waits for its timeout. `sync.Mutex` lets a
  newcomer overtake once before it hands over in order, as its starvation mode does.
- In `Operator` one call of `process` is one step, a handler makes one write, and
  the goroutines other than receiver and WebSocket client begin at once.
- In `Merge` one field stands for each list of immutable fields, and lists are
  leaves, as they are for `mergeMap`. What the API server has stored has no nulls,
  has maps where its schema has them, and strings as labels (`WellFormed`); a
  manifest may omit or null these, but has nothing else there (`WellTyped`).
  Defaulting and other admission are left out.

## What TLC checks

Runs that pass:

| Run | Configuration | Properties | Shows |
|---|---|---|---|
| `uploader` | `Uploader.cfg` | `TypeOK`, `NoLostWakeup`, `SeqDurable`, `BatchFits`, `Custody`, `EventuallyUploaded` | accepted events are kept until acknowledged and leave once sends succeed; no lost wake-up; the seq file is exact; batches fit |
| `inventory_sync` | `InventorySync.cfg` | `MirrorsCluster`, `Converges` | the control plane's table agrees with the cluster when all is quiet, and converges |
| `receiver` | `Receiver.cfg` | `TypeOK`, `TerminalKept`, `EventuallyReported` | no terminal report vanishes while the process lives; one of every executed command reaches the control plane, unless all its executions stall, a full queue pushes one out, or the agent restarts |
| `receiver_window` | `ReceiverWindow.cfg` | `ReplayWindow` | the nonce cache is an exact window |
| `executor` | `Executor.cfg` | `TypeOK`, `OneTerminal`, `SuccessIsComplete`, `ApplyIsGated`, `DriftWindow`, `EveryCommandEnds` | every verb ends, with one terminal report; success is complete; apply never overwrites drift, and patch and delete only what was written after they looked |
| `drain` | `Drain.cfg` | `TypeOK`, `DrainedNode`, `OutcomeReported`, `EveryDrainEnds` | after a successful drain every evictable pod still on the node is being deleted; only a drain that has waited a whole stall timeout returns without an outcome; no drain runs for ever |
| `wsclient` | `WsClient.cfg` | `TypeOK`, `SilenceBound`, `SendBounded`, `LiveIsKept`, `ChannelSpec`, `Reconnects`, `Ends` | a silent connection is given up in time, a live one only behind a busy handler; sends are bounded; the client implements `PushChannel`, reconnects, and ends when cancelled |
| `operator` | `Operator.cfg` | `TypeOK`, `WriterOnly`, `OncePerChannel`, `StopStopsWrites`, `StopEnds`, `CommandsArrive` | a read-only agent starts no handler; commands are handed out in order and once per channel; a stop ends the process, and meanwhile only Helm and a command pushed too early still write; commands that no poll has taken arrive, unless the agent stops or the answer that has them is lost |
| `merge` | `Merge.cfg` | `OverlayIsExact`, `AdoptedFieldsKept`, `Reapplied` | the update body is exactly the overlay except where fields are adopted; the adopted fields are the live ones, claims do not shrink, and labels agree with `matchLabels`; the same manifest applied again changes nothing |

Runs that find a disagreement between the code and what a document, comment or
test says of it. Each checks the statement as written; `findings` in
`PROJECT.json` quotes it.

| Run | Property | What happens |
|---|---|---|
| `inventory_spill` | `MirrorsCluster` | a buffered event overtakes a spilled older one |
| `receiver_race` | `AtMostOnce` | two channels pass the unlocked caches together |
| `operator_ready` | `ReadyWhenConnected` | the caches sync, and the agent is ready without ever having reached the control plane |

Other behaviours in which the models follow the code and a document says
something else, and for which no run is kept:

- `SERVER.md:91` asks for a failed batch to be resent with the same `seq`; the
  snapshot that follows a failure takes that number (`uploader.go:153`).
- `SERVER.md:78` says that `seq` survives restarts; a process killed between the
  truncation and the write of the file starts from 0 (`uploader.go:272`).
- `README.md:277` says that up to 10k events are buffered; replay loads the whole
  spill file (`uploader.go:354`).
- `SERVER.md:49` says that a full snapshot comes first; the one taken before the
  caches have synced is empty and counts as sent (`uploader.go:171`).
- `SERVER.md:244` says that duplicates are harmless; a restart forgets which
  commands were executed (`receiver.go:97`).
- `README.md:211` says that drift refuses the update; an apply refused at a later
  object has written the earlier ones (`executor.go:286`).
- `README.md:10` says that every mutation is dry-run; a Helm uninstall is not
  (`helm.go:230`).
- `README.md:11` says that conflicting writes are refused; patch and delete check
  what they read and then write without a precondition (`executor.go:532`, `584`).
  `DriftWindow` states exactly how far the gap goes.
- `drift.go:14` says that the annotation records the last applied state; the
  re-stamp after a patch hashes what is then there (`executor.go:540`).
- `SERVER.md:176` says that reports end with succeeded, failed or refused; a
  stalled drain ends with a progress report (`executor.go:663`). `OutcomeReported`
  states that this is the only case.
- A drain that reports "drained, n pods evicted" has had its evictions accepted; the
  pods may still be running down their grace period (`executor.go:648`).
- The comment in `apply` says that adopting immutable fields is done "so the update
  validates" (`executor.go:294`, also `374`). Immutable fields that
  `adoptImmutableFields` does not list are as the manifest has them: the access modes
  of a claim, the template of a Job, most of the spec of a StatefulSet. So are labels
  that a selector of `matchExpressions` asks for, since only `matchLabels` is
  reconciled (`executor.go:424`). Such an update is sent and the API server refuses it.
  `AdoptedFieldsKept` speaks of the listed fields only, and `OverlayIsExact` says that
  all others follow the manifest.
- Helm takes no notice of a cancelled context, so a Helm command goes on writing while
  the process stops (`helm.go:164`, `213`, `230`).
- `cmd/mockserver` says that commands are delivered exactly once per channel; a
  connection that breaks takes those not yet written along (`main.go:200`), so it
  is at most once.
- A pushed command that arrives before `Receiver.Run` has stored its context runs
  with one that nobody cancels (`receiver.go:225`).
- After an error of a subsystem the process stops with exit code 0
  (`main.go:188`).
- The read loop reads no pong while the command handler writes a report. Commands
  whose reports together take a pong timeout to write can so cost a live connection
  (`wsclient.go:253`); `LiveIsKept` states that nothing else does.
- `Dial` has no timeout of its own (`wsclient.go:140`).
- `mergeMap` says that an explicit null removes the key; where the live object
  has no map at that place, the manifest's map is taken with its nulls
  (`executor.go:369`). The API server drops them.
- An eviction names the pod that was listed; one of the same name created since
  on another node is evicted there (`executor.go:648`).

### Bounds

- *Uploader*: capacity 1 and batches of 2 force spills, replays of more events
  than fit and batches of mixed sizes; three events, two failed sends, one file
  fault and one restart allow each fault to hit the recovery of another.
- *InventorySync*: two objects with two versions, one fault and one restart; the
  buffer is large enough that nothing spills, since spilling breaks
  `MirrorsCluster` (run `inventory_spill`); this is the hypothesis of
  `LargeBufferMirrors`. Events have size 1.
- *Receiver*: one command that is delivered twice, on either channel, refused when it
  has expired, and otherwise ending in each of the four ways; a queue of two reports where an execution makes three,
  one fault of each kind and one restart. `receiver_window` has two commands,
  caches of one entry and three deliveries, so that eviction and reuse happen.
- *Executor*: two objects, two values of each part, one foreign write, one failing
  call. `Batches` are the commands that run at the same time: an apply of two objects
  with a patch and a delete; the three Helm verbs on one release; a rotation, a
  manifest that cannot be decoded and an unsupported verb. The initial store is any
  subset of the objects with any content. Handlers may all be done, so deadlock is not
  checked. The theorems hold for any number of commands and foreign writes.
- *Drain*: one node with two evictable pods, which may already be on their way out,
  two drains and an uncordon, a stall timeout of one pause, one failing call. The
  theorem `DrainEvictsAll` covers any number of nodes, pods and drains.
- *WsClient*: the read loop and one handler as callers; two sets of timings, the
  production one in units of ten seconds and one with a silence limit below the
  ping interval, as in the tests of `keepalive`; one command waiting and two
  faults, so that a connection breaks, goes mute or cannot be dialled, the same
  happens to the next attempt, and the one after that works. The theorems hold for any
  number of callers, faults and frames.
- *Operator*: an apply and a Helm install, which come on both channels; two sessions, two starts
  and one fault, so that commands are lost on either channel, the listener fails,
  or a restarted agent meets a server that remembers. Nine environments cover
  each reason to refuse one, each default and each way to be read-only. The
  process may stay ended, so deadlock is not checked.
- *Merge*: 18,432 pairs of a live object and a manifest: all objects of two
  levels with two keys, and claims, services and workloads in which each
  immutable field is set, changed, nulled and omitted. Two levels are the depth
  at which a recursive merge differs from a flat one. `Depth` is one more than
  these objects need, and `Paths` has all their paths. A round ends, so deadlock
  is not checked. The theorems hold for any objects, depth and paths.

The two commands of `receiver_window`, which has no liveness property, are
permuted (`Symmetry`).

### Fairness

Each `FairSpec` assumes that goroutines which can run are scheduled and that
calls return. HTTP calls to the control plane have a client timeout, and flush
and pause timers fire. That calls of the API server return is an assumption on
client-go, which gives up connections that stop answering; the agent sets no
timeout of its own on them. In `WsClient` strong fairness of `RunStep`, of each `SendReport` and of `Tick`
stands for a mutex that starves nobody and for time that goes on; nothing is
assumed of the peer. In `Operator` the goroutines run and polls return, and nothing is
assumed of the WebSocket channel, of handlers or of Helm. Nothing is assumed of the socket, of budgets, of the
scheduler or of operators. Faults have a budget, which is what "once sends succeed" means.

## What is proved

tlapm checks these theorems, from the named assumptions on the constants in each
module (positive limits, well-formed commands, disjoint handlers). `WsClient` has
one about the code's numbers: two write timeouts (20 s) fit into a ping interval
and a pong timeout (55 s).

| Theorem | Statement | Argument |
|---|---|---|
| `UploaderProofs!TypeCorrect` | `Spec => []TypeOK` | inductive as it stands; `BatchLenBounds` and `CutBatch` show that a batch is never empty and loses no event |
| `UploaderProofs!CustodyKept` | `Spec => Custody` | an action property, by cases on the step, from `TypeOK` |
| `UploaderProofs!WakeupNeverLost` | `Spec => []NoLostWakeup` | inductive together with `TypeOK` |
| `UploaderProofs!SeqIsDurable` | `Spec => []SeqDurable` | inductive together with `TypeOK` |
| `UploaderProofs!BatchesFit` | `Spec => []BatchFits` | `BatchLenBounds`: any length the loop of `batchLen` went past had a successor within the budget; `FrontFits` carries the estimate over to the batch |
| `InventoryProofs!NoOverflowMirrors` | `Spec /\ NoOverflow => []MirrorsCluster` | `SyncInv`, see below |
| `InventoryProofs!LargeBufferMirrors` | `Spec => []MirrorsCluster`, if `MaxEvents <= Capacity` | `Short`: the queue is no longer than the number of events enqueued, which implies `NoOverflow` |
| `ReceiverProofs!TypeCorrect` | `Spec => []TypeOK` | inductive; `EnqueuedFacts` bounds the queue |
| `ReceiverProofs!TerminalsAreKept` | `Spec => []TerminalKept` | `KeptInv` adds that the tracked reports are terminal, so that `Accept` does not filter them; `ClearSentFacts` shows that only reports of the request are removed |
| `ReceiverProofs!ReplayWindowExact` | `Spec => []ReplayWindow`, with polling only | `WindowInv`: the cache's list is the end of the history of accepted nonces, and its map has the same elements |
| `ExecutorProofs!TypeCorrect` | `Spec => []TypeOK` | inductive; `BodyType` and `CommitType` type what is written |
| `ExecutorProofs!ApplyGated` | `Spec => ApplyIsGated` | `GateInv`: a `resourceVersion` names one state, so an apply that finds the one it read finds the content it checked |
| `ExecutorProofs!WindowOnly` | `Spec => DriftWindow` | `GateInv` also records that what a handler looked at was the state at that moment and passed the check; a later state differs only by a later write |
| `ExecutorProofs!ExactlyOneTerminal` | `Spec => []OneTerminal` | `ReportInv`: while a handler runs none of its reports is terminal, and `Finish` adds the only one |
| `ExecutorProofs!SuccessMeansComplete` | `Spec => []SuccessIsComplete` | `CompleteInv`: the objects before the index have been written, so the last index means all |
| `MergeProofs!MergeInvariant` | `Spec => []MergeInv` | inductive: the live object is well-formed, the manifest of its kind, the body what `Update` made of the two, and in the second round the live object what was stored of an earlier one |
| `MergeProofs!OverlaysExact` | `Spec => []OverlayIsExact` | `MergeExact`, by induction on the path: at each key the merge is the overlay of the values under it; `AdoptLeaf` and `SetLeaf` show that the rest of the code leaves all other paths alone |
| `MergeProofs!UpdatesKeepAdopted` | `Spec => []AdoptedFieldsKept` | `ClaimBody`, `ServiceBody` and `WorkloadBody`: what is sent for each kind; the fields to be set can be set, since an overlay on a map is a map or nothing |
| `MergeProofs!ReapplyIsNoop` | `Spec => []Reapplied` | `MergeAgain`, see below |
| `DrainProofs!TypeCorrect` | `Spec => []TypeOK` | inductive |
| `DrainProofs!DrainEvictsAll` | `Spec => []DrainedNode` | `DrainInv`: while nobody reopens the node it stays cordoned, and from the listing on every evictable pod on it is still to be evicted or being deleted |
| `DrainProofs!OutcomesReported` | `Spec => []OutcomeReported` | `OutcomeInv`: a running handler has reported no outcome, and the wait of a drain reaches the stall timeout only with pods left |
| `WsClientProofs!TypeCorrect` | `Spec => []TypeOK` | inductive, by groups of variables |
| `WsClientProofs!SendsAreBounded` | `Spec => []SendBounded` | `SendInv`: a waiting caller has waited no longer than the holder of the mutex, or one write timeout longer once it has been overtaken; `starving` excludes a second overtaking |
| `WsClientProofs!SilenceIsBounded` | `Spec => []SilenceBound` | `ClockInv`: silence, ticker and ping advance together, so silence is at most what the ticker and the ping show; a cancelled client is bounded by `SendInv` instead |
| `WsClientProofs!LiveConnectionIsKept` | `Spec => LiveIsKept` | `PongInv`: a peer that is not mute has answered within its time, and an answer is on the way or read; `ClockInv` keeps idle time below the silence limit |
| `WsClientProofs!ImplementsChannel` | `Spec => ChannelSpec` | `LinkInv` ties flag, pointer and place of `Run` together; each step maps to a step of `PushChannel` or to none |
| `OperatorProofs!TypeCorrect` | `Spec => []TypeOK` | inductive, by groups: the process, its goroutines, and the wire with the control plane's sessions |
| `OperatorProofs!HandedOnce` | `Spec => []OncePerChannel` | `HandInv`: polling has handed out all commands or none, and what was pushed followed by what the one session that pushes has left is the command file |
| `OperatorProofs!OnlyWriterHandles` | `Spec => []WriterOnly` | `GateInv`: from `Clients` on the configuration says writer only if there is an executor, and a handler is started by `process` alone |
| `OperatorProofs!StopReachesHandlers` | `Spec => StopStopsWrites` | `GateInv`: once the receiver has begun its context is stored, so a handler with another one was started before |

`MirrorsCluster` speaks of quiet states only, so its invariant has to say what
is true while events are under way. `SyncInv` follows each object through the
stages. The informer's version of it is what its last pending notification says.
If none is pending, it is what the last delta about it in the queue says, where
the queue is the batch in flight followed by the buffer. If no delta is queued
either, the row of the control plane has that version, and so do the events of a
snapshot that is being sent. A failed batch goes back to the front, which leaves
the queue as it was, and applying it a second time changes no row that no later
delta will overwrite. A snapshot reads the stores, so it can be ahead of the
queue, and then a delta of that object is still to come. After a restart the
stores are empty, which agrees with any row of an object that is gone. Spilling
breaks the order of the queue: run `inventory_spill` shows that the hypothesis
`NoOverflow` is needed.

`Merge` is about recursive functions on trees. The equations of such a function
(`MergeDef`, `StoredDef`, `AlongDef`, `LevelDef`) are themselves theorems: by
induction on the depth there is a function that satisfies them, so the chosen
one does. From then on the proofs go by induction over trees (`ValueInduction`).
`MergeAgain` says that merging the same manifest into what was stored of the
first merge is stored the same; a null must be seen to delete what is no longer
there, and a map taken over whole, nulls included, to be stored as if it had been
merged. `NodeAgain` lifts this to a map in which single fields were set
afterwards, and `ClaimAgain`, `ServiceAgain` and `WorkloadAgain` show that these
are set the same again. For a claim this is `FloorKept` and `FloorFits`: a request
that was raised to the floor is the floor of the next update, and one that was
not is no less than it. The status must not change in between; the API server
sees to that. The assumption is `MergeAssumption`: at least five levels, the
field names among the keys, and pairs of a well-formed object and a well-typed
manifest of its kind.

Only model-checked: all liveness, since TLAPS does not reason about fairness and
ENABLED.

## Not modelled

- *Validator* (`internal/validator`): no package imports it, so it takes part in no
  behaviour of the program.
- *Protocol types and signatures*: data and cryptography. Whether a signature
  verifies is a constant of `Receiver`.
- *Protocol client*: encoding and status codes. A call returns an answer, a
  refusal or an error, and an error may follow a request the server handled.
- *Metrics*, logging, URLs, the redaction of secrets and the table of known
  resources: nothing decides by them, or they are pure data.
- *Configuration* of durations, paths and addresses: constants of the modules.
- *Helm's REST client adapter* and the building of API clients: plumbing that
  succeeds or fails.
- *The chart*: templates without behaviour of their own.
- The handlers of `Executor` inside the process of `Operator`: there a handler is
  one write and its end. The product of the two is beyond TLC, and shutdown
  interrupts a handler only through its context, which any API call may then
  report as a failing call.
