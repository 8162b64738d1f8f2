# lurpicUI: a TLA+ model of its concurrent core

lurpicUI is a UI framework in Go. One *runtime thread* owns the facet tree, the
stores and the frame; around it run the workers of a job pool, the goroutines of
the *drive* server (a local protocol by which tests and tools drive an
application, `Documentation/drive.md`) and the platform's event sources. The
framework's rule is *snapshot, work, commit*: workers see immutable snapshots and
only the runtime thread commits. This directory models the parts where that rule
meets concurrency or long sequences of calls: the job pool, the memory wallets it
charges, the event streams of the drive server with their delivery, the way of a
drive request from a connection through the runtime to its retained outcome, and
the reactive stores with the phases of the frame that move them.

## The system's parts

| Component | Source | State | Operations | What is hard | What makes it correct |
|---|---|---|---|---|---|
| Job pool | `job/job.go` | active tokens and reservations per JobID, sequence numbers, two job queues, a result channel, a wake-up token, pause and closed flags | schedule (replace, refuse), cancel, pause/resume, drain (ordered), shutdown; worker loop | workers against drain against schedule; three fallible steps after a reservation; join at shutdown | frontier soundness, exact accounting of records and memory, no lost wake-up, termination |
| Memory wallets | `internal/membudget/plan.go` | capacity and three counters per wallet, ledger of allocations | partition, reserve (batch), publish, retire, cancel, release, acknowledge | uint64 arithmetic; charges on ancestors; use after free | counters equal the allocations; capacity never exceeded |
| Drive event streams | `drive/stream.go` | bounded log; per stream filter, credit, sent, acked, state | append (evict, expire), watch, drain, ack, cancel, close, sweep | eviction against positions; unsigned windows | no silent gap; a live stream can continue; the window is respected |
| Stream delivery | `drive/server/server.go`, `runtime/drive_streams.go` | per connection a wake-up token, the bound streams and the drain in progress | notify, bind after the reply, stream loop, sub.ack, close | signals sent outside the hub's mutex; expiry between reply and bind | no lost wake-up; every sendable record and every expiry is delivered |
| Drive port, sessions, ledger | `runtime/drive_port.go`, `drive/session.go`, `drive/ledger.go` | bounded inbox, coalesced flags, sessions with generations, outcomes by ID | submit, claim, admit, replay, attach, detach, resume, revoke, fence | flags cleared outside the mutex; retries; late results of a lost generation | at-most-once execution; one answer; an open operation is carried; a lost generation is fenced |
| Runtime frame and life cycle | `runtime/lifecycle.go`, `frame.go`, `clock.go`, `surface.go`, `pipeline.go` | clock mode and its owner, frame phase, surface, render credits, frontier of a Virtual frame | wait for work, run a frame, pause, lose and regain the surface | many wake-up sources; a frame that fails or loses its surface half-way | credits return; an operation whose frame is gone is ended |
| Stores, signals, binder | `store/`, `signal/`, `marks/data/join.go` | values with versions, scopes with queues and dirty lists, deriveds, staged transactions; a binder's children and order | set, put, insert, remove, replace, stage, commit, read, close a scope; deliver, flush | caches across scopes; notifications that are late; events applied to a later state | caches never vouch for stale values; projection reads stable stores; the mirror follows |
| Input, facets, projection, assets, rendering, platforms, widgets | `input/`, `facet/`, `projection/`, `assets/`, `render/`, `platform/`, `marks/` ... | trees, caches, pixels | per frame, on the runtime thread | mostly sequential | unit-tested; not modelled |

How they interact: the frame's first phase drains the pool (`frame.go`), a
Virtual frame freezes `Pool.Frontier` and parks until `ReadyThrough`, woken by
`FrontierWake`; `surface.go` pauses the pool when the platform pauses the
application; every job's memory is a reservation in the jobs wallet. The runtime
appends a record to the event hub at every cut; the hub calls back into the
server, which wakes the connection's stream loop; `sub.watch`, `sub.cancel` and
`session.revoke` are commands executed on the runtime thread, `sub.ack` is handled
by the connection's reader. Requests are queued in the port's inbox and admitted
by the runtime at the next cut; those that need a frame (time, commands) end when
the renderer acknowledges it, and a connection that is lost leaves a control key by
which the runtime fences its generation. A store's mutation queues a notification
in its scope; the frame delivers the queues, flushes the dirty deriveds and then
projects.

`PROJECT.json` lists the components, the hazards of the code line by line, and the
source lines of every definition.

## Modules

| Module | Models | Notes |
|---|---|---|
| `Wallet` | `internal/membudget/plan.go` | one action per public method (each holds the ledger's mutex); words of `MaxUint` |
| `JobPool` | `job/job.go` | one step per critical section, channel operation or wallet call; 30 actions |
| `FrameLoop` | `runtime/lifecycle.go` (`Run`, its two parks), `config.go`, `frame.go` and `pipeline.go` as far as they wake and admit frames | the runtime thread as the pool's caller; extends `JobPool` |
| `StreamHub` | `drive/stream.go` | one action per method (each holds `h.mu`); also the abstract specification of delivery |
| `StreamDelivery` | `drive/server/server.go`, emitters and commands of `runtime/drive_streams.go` | extends `StreamHub` with the goroutines of the runtime and of each connection |
| `Ledger` | `drive/ledger.go` | the operations on one ledger, as operators |
| `DriveSessions` | `drive/session.go` | the session table; extends `Ledger` |
| `DrivePort` | `runtime/drive_port.go`, `drive_methods*.go`, the drive parts of `frame.go`, `lifecycle.go`, `input_ownership.go`, `pipeline.go` | the runtime thread, by the steps of a drain and of a frame; extends `DriveSessions` |
| `DriveServer` | connections of `drive/server/server.go` | composes connections, sessions and port; properties |
| `OutcomeRegister` | | abstract specification: per request ID a write-once register |
| `Collection` | `store/collection.go`, `marks/data/join.go` | the collection and the binder, as operators, with a small specification of the collection alone |
| `Stores` | `store/*.go`, the store phases of `runtime/frame.go` | the reactive graph; extends `Collection` |
| `Sums` | | induction and finite sums, for the proofs of `Wallet`, `StreamHub`, the drive and `Stores` |
| `WalletProofs`, `CollectionProofs` | | theorems about `Wallet` and `Collection` |
| `JobPoolProofs` | | theorems about `JobPool`: frontier, places and counts; then memory and bookkeeping; then `FrameLoop` |
| `StreamProofs` | | theorems about `StreamHub` and `StreamDelivery` |
| `DriveProofs`, `DriveWork` | | theorems about `DriveServer`: the ledgers; then the work between a claim and its outcome |
| `StoresProofs` | | theorems about `Stores`; extends `CollectionProofs` and `Sums` |
| `MCWallet`, `MCJobPool`, `MCFrameLoop`, `MCStreamDelivery`, `MCDrive`, `MCStores` | | instances for TLC |

### Wallet and the code

A wallet is a member of `Wallets`, a root and the children a partition may make of
it; `cap` is zero until it exists. The wallets charged by an allocation are
`Owners(w)`, the least set that holds `w` and is closed under parents: the loop of
`addChargeLocked` up the tree. Every counter is a word and is added to and
subtracted from with wrap-around; `BatchTotalValid` is the overflow check of a
batch, which adds its sizes one by one. `Batches` are the batches that callers ask
for, `Sizes` the single reservations; a freed identity may be used again by whoever
still holds it, and is refused.

### JobPool and the code

A member of `Jobs` is one call of `ScheduleGuarded`, together with its token, its
reservation and its result. `tpc` is the position of a calling thread, `wpc` that
of a worker:

- `ScheduleGuarded` is `ScheduleReserve`/`ScheduleNoMemory` (wallet), then
  `ScheduleRefused`/`ScheduleAdmit` (the section under `p.mu`), then
  `ScheduleSend`, or `ScheduleFull` and `ScheduleUndo` when the queue is full;
- `ReceiveWake` takes the token of `frontierWake`, which a caller does when it likes;
  `woken` remembers, as history, who took it and has not drained since;
- `drain` is `DrainBegin`, `DrainReceive` per result, `DrainSort`, and
  `DrainCommit` per result;
- `Shutdown` is `ShutdownBegin`, the join, `ShutdownReceive` per result left,
  `ShutdownRelease` per reservation copied, `ShutdownReturn`;
- a worker passes the pause gate (`AtTop`), takes an interactive job or blocks in
  the second select, works or panics, cleans up, sends or drops its result, and
  books it (`WorkerPublish`).

`pendingSequence` is split into `waitingSeq` and `readySeq`, the keys that map to
false and to true. `committed` and `reported` are history. Left out: the fault
counters, the wrappers of `submitAny`, and the data of jobs; a job's result is
`ok`, `error` or `cancelled`, and `stale` says that its snapshot's versions or its
commit predicate no longer hold. The wallet is reduced to the state of each
reservation; `Wallet` checks that the counters are the sums of those states.

### FrameLoop and the code

`at` is where the runtime thread stands in `Run`: at the `top` of the loop, in one of
its parks (`waitForWallWork` or `virtualParkStep`), in `pace` (`WaitWithWake`) or in a
`frame`. The parks do not drain: `WallJobWake` takes the token of the pool and sets
`wallWakePending`, `VirtualJobWake` takes it and parks again. Pacing takes the token of
a request and then the flag is cleared (`FrameTick`); only after that comes the
admission, `WallFrame` with a render credit or `RefuseFrame` without one, which goes back
to the top with the flag gone. A frame begins with `DrainBegin` and runs the calls of
the pool that application code makes (`LoopCall`); `EndFrame` submits it and `RenderDone`
returns its credit. `ToVirtual` and `ToWall` are time.mode and the exits to wall time of
humans, lost connections and leases; `VirtualFrame` is the frame of a token.

`dirty` stands for all other work that `hasWallFrameWork` finds: dirty or ticking
facets, pending events, frame tokens. The steps of the pool are those of `JobPool`, so
`LoopSpec` is a behaviour of the pool with one caller (`LoopUsesPool`).

### StreamHub, StreamDelivery and the code

A record is its cursor; `event` remembers its kind, a filter is a set of kinds. A
member of `Streams` is one `Watch`; stream IDs are not reused. `Word` is the
wrap-around of `uint64`. Eviction by age is nondeterministic (`aged`), by count
and bytes it is computed. Methods that fail change nothing and are no step.

In `StreamDelivery` the runtime thread appends (`Emit`) and then signals stream by
stream (`Notify`), since `fireNotify` runs after `h.mu` is released; it executes
commands only when it is not in the middle of that (`toNotify = {}`).
`awaitCommand` is `BindDelivery`, `BindRegister`, then `BindSignal` or
`BindReport`; the stream loop is `LoopWakes` and one step per stream; the reader
is `ClientAck` and `AckSignals`; `close` has three steps, because the connection
leaves the table, loses its streams and detaches its session at three different
moments. The client acknowledges positions it received. The bounded outbox is not
modelled: a full one closes the connection, which `CloseBegins` may do at any time.

### The drive modules and the code

A command is a session, a generation, an ID and a method. `rt` is where the runtime
thread stands: `driveDrain` is `StartTurn` (serviceControl takes the keys), `Fence`,
`RenderCompletion` per acknowledgment, `ClaimTake` and `ClaimClear` (apart, because
the flag is stored after the mutex is released), then one `Admit...` action per
claimed command; a frame is `StartTokenFrame` or `StartWallFrame`, `JobDone` per
result, `FrameEvents` (human input, loss of the surface), serviceControl again, and
`Activate`, `ActivateLost` or `FrameWithoutCommand` with its `Submit`. A handler that
ends several operations moves them to `closing` and `CompleteOne` records them one by
one, as completeClaimed does. `frames` holds the frames on their way with the token
and the command each carries: `open`, `sent`, `acked`, or `skipped` when the surface
went away and no acknowledgment will come. The loops that filter a queue in place are
`Kept`: the positions that stay, in their order.

Methods are reduced to eight kinds: a read (any handler that answers at once, with a
payload), a command, the three time requests, `op.cancel`, `session.revoke` and a
request that is rejected for good. Whether a read or a render fails, a command's
callback panics, how many jobs it schedules and whether they fail are
nondeterministic. An admission is one step: the code checks the generation again
inside the session's lock when it claims, and answers the refusals that fall in
between like the ones modelled. (A permanent rejection is recorded without that
second check; that it may be recorded for a generation lost in between is left out.)
A retained request that has ended is answered by `AdmitReplay`, the retained outcome, or
by `AdmitPending`, which is what `replayRetained` says of a rejection: that its ID is
admitted and its outcome pending. An operation that is really in flight is told the same
or joins its waiters (`AdmitRefused`), which says nothing of an end.
`ran` and `answers` are history; `Heard` is `answers` without "pending".

On the server, `conn` is the state of the connection of each generation: a lost one
detaches its session and then signals (`Close`, `Signal`), a resume attaches and then
signals the generation it replaced, and the lease loop may signal a generation that
is still attached. (The loop reads the owner of time from the snapshot of the last cut;
the model reads the current one, so a lease signalled just after its release is left
out.)

### Stores and the code

Stores run on the runtime thread only, so the actions are the calls of the
application and the steps of the frame. The application acts before the signals,
inside handlers and in layout; in projection it only reads. The value of a store
is the number of its mutations and a derived adds up what it reads, so that any stale
part shows; a `Gated` derived reads the rest only if its first source is even.

A call that has several effects is taken apart, and until it is through nothing else
happens (`Idle`):

- `Get` and `flushIfDirty` push a frame on `stack` when the cached value will not do
  (`Compute`). `ReadSource` reads one source, and pushes a frame for a source that is
  not up to date; `Finish` stores the value, takes the versions of the sources as they
  are then, bumps the version and hands the dependents to `marking`;
- `marking` holds the invalidation callbacks still to run, of a new value or of a
  notification; `Mark` runs one, which is markDirty, and if the derived was clean
  queues a notification in its scope. The registry uses free slots again, so
  callbacks are run in any order;
- `Commit` applies the staged mutations one a step (`committing`). The code queues the
  notifications together at the end; nothing else queues in between, and all go to
  the queue of the transaction's scope in that order.

A notification is a node, the callbacks registered when it was queued (`targets`) and
the event that is emitted after them. OnChange of a derived runs no callback of a store,
but it counts as work for the pass that delivers it, and what an application does in its
handlers it may do anyway in that pass. `Finish` queues it before what the dependents
queue, the code behind them; nothing depends on the place of a notification without
callbacks. `FlushSignals` is `TakeBatch` per scope of the
tree in preorder (`visit`), `Deliver` per notification, and `EndPass`, which starts over
if the pass delivered anything (`worked`). `FlushDerived` is `Flush`, then `FlushScope`
to take the list of a scope and `FlushNext` for its members by rank and then
registration (`Precedes`), then `EndFlush`. `late` remembers a mutation during layout,
`ahead` a binder reconciled while events of its collection were queued.

Scopes exist from the start and may be closed; a closed one is not created again.

## Runs

| Run | Checks | Instance |
|---|---|---|
| `wallet` | `TypeOK`, `Conservation`, `WithinCapacity` | a root of 13 bytes, up to two children, sizes 3, 8, 10 in four-bit words, four allocations: a batch of 8 + 10 wraps, and 3 + 10 fill the root |
| `pool_workers` | `FrontierSound`, `ChargeCoversWork`, `BookkeepingPaired`, `RecordsExact`, `WakeCoversResults`, `OneLivePerID`, `ChargesReturned`, `CommittedOnce` | three schedules of one JobID, two workers, queues of one, two records: replacement while queued, running and done; full queue, full results, out of memory |
| `pool_runtime` | `TypeOK`, `LoopType`, `WakeIsRemembered`; `QueuedJobRuns`, `ShutdownTerminates` under fairness | the pool alone: two JobIDs, one interactive and guarded, that can be scheduled again and again, one without a reservation; pause, cancel, one worker. And the pool under the loop: one job, both clock modes, one render credit |
| `stream` | `TypeOK`, `LogContiguous`, `NoSilentGap`, `LiveCanContinue`, `CursorsOrdered`, `UnfilteredWindow`, `NoLostWakeup`; `Delivers`, `ExpiryReported` under fairness | one stream and connection, three appends into a log of two records and three bytes, filtered and unfiltered, credit 1 or 2 |
| `drive` | `TypeOK`, `AtMostOnce`, `OneAnswer`, `OpenIsCarried`, `LostIsSignalled`, `CommandsCounted`, `RetentionExact`, `ImplementsRegister` | one session, two generations, two IDs, two requests, human input at any time, a ledger of one entry and two bytes, one render credit, one job per command; seven workloads (pairs of requests that meet) |
| `stores` | `TypeOK`, `CacheSound`, `ProjectionStable`, `DirtyIsListed`, `IndexExact`, `BinderMirrors` | a value, a map and a collection of up to two items; a chain of three deriveds, the last in a child scope, the middle one gated, and a fourth that reads one source twice; six applications of one to three mutations |
| `drive_credit` | finds `CreditsReturned` violated | virtual time, an advance, a return to the wall clock |
| `drive_replay` | finds `RetriesReplayed` violated | a rejected request and its retry |
| `pool_pause` | finds `PausedPullsNothing` violated | as `pool_runtime` |
| `pool_shutdown` | finds `ShutdownLeavesZero` violated | as `pool_workers`, one worker |
| `frame_wake` | finds `ReadyResultCommits` violated under fairness | the pool under the loop, one credit |
| `stream_window` | finds `WithinWindow` violated | a filtered stream of credit one |

The bounds: every limit of the code (queue, results, records, memory, retention, credit)
is small enough to be reached and exceeded, and every pair of goroutines that share
state is present. Three jobs of one ID give every order of replaced and replacing job
against two workers; a third worker adds only another position of the same kind. In
`pool_runtime` an interactive job that has come to rest may be forgotten (`Forget` of
`MCJobPool`) and is then a new call, so that interactive jobs keep coming in finitely
many states. The pool alone has a caller that may do anything at any time; under the
loop one job and one credit suffice for a wake that meets a full render window, and pause
is left to the pool alone. `Disturbances` says at which sets of calls made so far the
application may be paused, everything be cancelled and versions change: at any in
`pool_runtime`, after the first of three in `pool_workers`, which follows a pause or a
stale snapshot no further than that (`Early`). One
stream is enough for the stream properties, because streams share nothing but the log
and the connection's token, and the theorems hold for any number of them. In `drive` two
requests and two generations give a retry on the same and on the next connection, a
ledger of one entry evicts with the second, and one credit makes frames wait. A workload
says which of three disturbances (loss of the surface, a silent connection, expiry of
the session) may happen with it; with all of them in every workload the run passes too,
on 1.5 million states. Two sessions would share only the table and the time lease, which
`session.revoke` and the lease loop already take away from outside. In `stores` three
mutations are enough for insert, remove and insert again inside one frame, a transaction
or two, and the chain is the shortest on which a change has to pass a derived that is
dirty and a scope boundary. With deriveds one or two mutations suffice to change a source
before, between and after the steps that carry the news of the first, and the theorems
hold for any number. Deadlock is checked in the pool runs, where the only state without a
step would be one where a thread or worker waits for ever, and in `stores`, where a
computation, a delivery or a flush always finds its next step. The others switch it off,
because their counters are bounded (`MaxHead`, `MaxAllocs`, `MaxSends`) and an idle
server is a legitimate end.

Fairness: a goroutine that can run eventually does. In `JobPool` it is weak
fairness of each worker (jobs terminate) and of each thread that is inside a call;
nobody has to make a call. In `StreamDelivery` it is weak fairness of the notify
callback, the awaiting goroutine, the stream loop and the reader's signal; appends,
acks, cancellation and close are not fair. In `FrameLoop` it is weak fairness of the
loop's own steps, the renderer and the workers; events, requests and changes of the
clock are not fair. `QueuedJobRuns` says nothing while the
pool is paused or closed, and it says of a background job only that it is taken unless
interactive jobs are queued again and again for ever: the worker looks at the interactive queue first
in every round (`job.go:879-892`), so a steady stream of those starves it. `Delivers`
says nothing once the connection closes. The drive and
store modules state safety only. In the drive the code itself does not guarantee
progress: an erased flag waits for the next Submit or signal, and an operation whose
frame was skipped waits for a cancel; `OpenIsCarried` and `LostIsSignalled` say what
holds instead, that the work or the signal is never lost.

What the six violations show is described with quotations in `PROJECT.json`
under `findings`: workers that pull a job while paused; charges left after
shutdown; a job's wake-up that is used up by a refused frame; a credit window that
wraps; a render credit that does not come back; a retained rejection that its retry is
not told.

Two smaller disagreements of the streams with their comments are in the model without a
run of their own. `Watch` with position 0 starts at the first retained record (`Watch`
leaves `sent` at 0, `stream.go:407`), while `stream.go:372` says "from the next record".
A stream that expires between the reply to `sub.watch` and its bind is reported by the
bind (`BindReport`) and, since it is in the map of the connection, again by the stream
loop, while `server.go:1020-1022` says exactly once.

## Proofs

Proved by TLAPS for every value of the constants that satisfies the named
assumptions. These say that limits are natural numbers (one or more where the code
rejects zero), that the placeholders `NoJob`, `NoWallet` and `NoOwner` are none of the
real things, that jobs, workers, threads and the wallets of a tree are finitely many
(`JobPoolConstants`, `WalletConstants`), and that the bounds of the model leave its
words room (`StreamHubConstants`, `SessionAssumption`, `ServerAssumption`,
`PortAssumption`, `LedgerAssumption`, `ItemAssumption`). About the stores they say what the
constructors enforce: a scope other than the first has a parent created before it
(`ScopeAssumption`), the sources of a derived exist before it, so that some height
decreases from each derived to its sources (`NodeAssumption`), and the application uses
the calls there are (`ScenariosAssumption`). TLC evaluates them in every run.

**Induction and sums** (`Sums`). The counters of the code are sums over the entries
of a map. `Induction` is stated for a set of naturals, with no operator as a
parameter, and follows from the pigeonhole theorem of the library; from it come the
facts about `SumFunctionOnSet`: that it adds up over disjoint sets and over the
classes of a partition (`SumDisjoint`, `SumByClass`), what one changed entry does to it
(`SumChange`), and its bounds.

**Wallets** (`WalletProofs`): `WalletTypeCorrect`, `ChargesConserved`,
`NeverOverCapacity`. The inductive invariant has two layers. `PlacesInv` knows nothing
of the counters: parents form a tree that ends at the root, a partition has handed out
all of its capacity, only leaves own allocations, and a leaf's allocations are within
its capacity. From it follows, by summing over the children, that an aggregate is
within its capacity as well, so that no true sum ever exceeds a word. `Conservation` is
preserved on top of that: the wrapping additions and subtractions of the code equal
the true ones.

**Job pool** (`JobPoolProofs`):

- `TypeCorrect`: `TypeOK`. It needs that a thread or worker inside a call holds a job,
  so the inductive invariant pairs the labels with `tjob` and `wjob`.
- `FrontierIsSound`: `FrontierSound`. A job leaves `waitingSeq` only when its result
  has been sent; the strengthening says that every admitted job that has not reported
  still has its own number in `waitingSeq`, that numbers are not shared, and that a job
  in `results`, or with a worker that publishes, has reported.
- `NoLostWakeup`: `WakeCoversResults`. A result in the channel is covered by the token, a
  worker about to fill it, a drain still collecting, the closed pool, or a thread that took
  the token and has not drained since. The last case passes the duty to the caller;
  `WakesAreRemembered` says what the runtime's loop makes of it.
- `WakesAreRemembered`: `WakeIsRemembered`, for the loop of `FrameLoop`. The invariant
  (`LoopInv`) says it without the channel: whoever took the token and has not drained
  since has work, has virtual time or was refused, and inside a frame nobody owes a drain.
  What is lost after a refusal is the finding of `frame_wake`.
- `LoopUsesPool`: every behaviour of the loop is one of `Spec`, so that the theorems of
  this list hold under it.
- `RecordsAreExact`: `RecordsExact`. The jobs that count are the queued ones and those
  in the hands of a worker or of a thread between admission and send; each step adds
  or removes at most one.
- `OneOwner`: a job is in at most one place, and once there (`HandsInv`: queues,
  threads and workers; `ResultsInv`: the channel and the batches being drained). The
  next theorems rest on it.
- `CommitsOnce`: `CommittedOnce`, since what was committed is in no batch or channel
  any more.
- `ChargesCoverWork` and `ChargesAreReturned`: `ChargeCoversWork`, `ChargesReturned`.
  The invariant (`JobOK`) says per job which state its reservation has at each place on
  its way, that a held charge belongs to a job that is somewhere, and what the jobs
  refused by a full queue keep. Shutdown copies the reservations and settles them when
  all workers have left, so the rule is stated up to that point where Shutdown breaks it.
- `OneLive`: `OneLivePerID`, when one thread makes all calls (`OneCaller`). That is how
  the framework uses the pool (the runtime thread schedules and drains), and the run
  checks it that way too; with several callers the undo of a job refused by a full queue
  erases the entry of its ID even if another caller has filled it since, and the job
  erased is not told to stop when the next one replaces it. The invariant: a job that is
  going and was not told to stop owns the entry of its ID in `active`.
- `BookkeepingIsPaired`: `BookkeepingPaired`. A worker sends its result and books it
  later under the lock, and a drain may receive it in between. The invariant says that
  of the counters `ready` and `drainedEarly` of an ID one is zero and their difference
  is what the channel holds minus what is not booked yet, and that the two sequence
  sets are the sequence numbers of exactly those jobs.

**Streams** (`StreamProofs`):

- `HubNoSilentGap`, `HubLiveCanContinue`, `HubCursorsOrdered` and
  `HubUnfilteredWindow`, from `HubInv`: the type invariant, the four properties,
  `Newest` (the retained records are the newest, without a hole) and `Fresh` (a stream
  not yet watched has received nothing). `Newest` is what makes the scan of Drain
  complete: the records ahead of a stream are exactly those after `sent`.
- `HubLogContiguous`: `LogContiguous` with its byte bound. Eviction drops the shortest
  prefix that brings the log within its bounds; that one exists, and that the newest
  record survives, needs that a record alone fits (`MaxRecordBytes <= MaxBytes`, which
  the code's limits satisfy) and the sums of suffixes.
- `DeliveryImplementsHub`: every behaviour of the server is one of `HubSpec` (the map is
  the identity on the hub's variables, so that the theorem is about the steps);
  `DeliveryNoSilentGap` carries the hub's guarantee over.
- `DeliveryNoLostWakeup` and `DeliveryTypeCorrect`: `NoLostWakeup` and `TypeOK`, by
  `DeliveryInv`, which adds that a live stream without an awaiting goroutine is in the
  map of its connection, so that the next token of the loop drains it.

**Drive.** In `DriveProofs`, about the ledgers:

- `DriveImplementsRegister`: `ImplementsRegister`, the refinement of
  `OutcomeRegister` by the whole drive server. The inductive invariant has two parts:
  every ledger has entries only up to its high-water mark, open or settled with an
  outcome (`LedgersShaped`), and everything in `closing` carries an outcome
  (`EndsInOutcome`). Each step changes at most one ledger by a claim, a rejection, a
  completion or a removal; each of these followed by eviction is a step of the
  register of that session, since eviction removes settled entries only and never
  moves the mark. A revoke claims its own ID and removes a session in one step, which
  the register allows.
- `LedgerRetention`: `RetentionExact`. Entries are added, settled and removed one at a
  time, and the byte counter follows the sum; every method ends with eviction.

In `DriveWork`, about an operation between its claim and its outcome. All of it rests
on one invariant, `WorkInv`: an operation not yet ended is in one place, a queue, one
frame, the set that waits for jobs, or `closing` (`PlacesInv`); which places may be
occupied depends on where the runtime thread stands (`Control`); everything in work is
below the high-water mark of its session (`Known`) and no two pieces of work have the
same session and ID (`Unique`). Given `WorkInv`, each of the many steps of `DriveServer`
is one of six kinds (`Kinds`): it moves work towards its end, expires a session,
rejects, replays, claims or finishes. Each property is then shown from the six kinds:

- `OperationsRunOnce`: `AtMostOnce`. What has still to take effect has taken none, nor
  has an ID above the high-water mark. The mark, not the entries, is what protects a
  retry after eviction.
- `AnswersAgree`: `OneAnswer`. Nothing was told yet of an operation in work or of an
  ID above the mark; what the ledger retains was told; and an entry that is not `admitted`
  was rejected (`EntryOK`), so that "pending" is told of rejected operations only. That
  it is told of those at all is the finding of `drive_replay`.
- `OpenWorkIsCarried`: `OpenIsCarried`. What the ledger of a session not removed holds
  open is what the runtime has in work for it.
- `CommandCountExact`: `CommandsCounted`. The counter is the number of commands in
  work; since it is never zero while one is, the code's guard against lowering it below
  zero never takes effect.
- `LostWorkIsSignalled`: `LostIsSignalled`. Who gets work or time is attached at that
  moment, and every step that ends an attachment or takes a signal away leaves another
  signal or runs the fence.
- `DriveTypeCorrect`: `TypeOK`, from these and from `CreditInv`: the free credits and the
  frames that hold one are together at most `FrameCredits`, and only a frame with a
  reservation reaches the renderer. (That they may be fewer is the finding of
  `drive_credit`.)

**Collection** (`CollectionProofs`): `CollectionIndexExact`, `IndexExact` for the
collection alone, any IDs and any sequence of calls (the invariant adds that items are
distinct); `BinderFollows`, one event keeps a binder abreast of its collection.

**Stores** (`StoresProofs`), for every scope tree, every graph of deriveds over it, any
gates and any number of mutations. `Base` types the variables and says where things
are: the sources of a derived come before it in rank and live as long as it does, a
notification is queued in the scope of its sender, what is computed or flushed is alive.

- `StoresTypeCorrect` and `StoresIndexExact`: `TypeOK` and, for the collection among the
  other stores, `IndexExact`, from `Base`.
- `StoresCacheSound`: `CacheSound`. The invariant `Coherent` has three parts. `Mono`: no
  derived has seen a version still to come. `AllSettled`: a derived that its flag and its
  versions call up to date, and that no other derived is about to tell, is worth what its
  sources are worth now, and the deriveds it read are clean. `StackOK`: what a computation
  under way has read is still so, or a warning is on its way to it; and computations nest
  downwards in rank, so that none is entered twice. The last part is needed because the
  versions are taken when a computation ends and not when it reads: if a
  source read first is computed again on behalf of one read later, the computation ends
  with an old value and new versions, and only the warning still under way gives it
  away. That the
  values are right follows along the order of the graph (`Anew` is shown to be well
  defined from `NodeAssumption`, by `Induction`).
- `StoresDirtyIsListed` and `StoresProjectionStable`: `DirtyIsListed`, `ProjectionStable`.
  The invariant `Heard` follows the news. A clean derived with a changed source is about
  to be marked (`Aware`); a pass without work has left only empty queues behind it
  (`Pass`); so after the last pass everything clean is fresh, and right (`CalmFresh`,
  `CalmRight`). `Listed` says that some set of deriveds, all of them in reach of the flush
  (`Pending`), holds everything dirty and everything downstream of it: the flush marks
  deriveds again that have not been visited yet, and never one it has passed, because
  scopes are visited from the root down and lists by rank.
- `StoresBinderMirrors`: `BinderMirrors`. By `Linked` the notifications still to be
  delivered form a chain of collections, one mutation apart, that ends at the one there
  is, and the binder mirrors the first of them; a binder that took over a later state
  agrees with the chain except for items that an event still to come will change.
  `Drained` says that after the signals the chain is empty.

Only model-checked:

- liveness (`QueuedJobRuns`, `ShutdownTerminates`, `Delivers`, `ExpiryReported`), which
  is out of the prover's reach, and the absence of deadlock, which speaks of `ENABLED`;
- the properties that the violation runs refute.

## Not modelled

Reads that change nothing (`Status`, `Diagnostics`, documents), the encoding of
messages, and the components marked `not_modelled` in `PROJECT.json`, each with its
reason. `Sweep` is an action of `StreamHub` and absent from `StreamDelivery`,
because no production code calls it; the same holds for the sweep of sessions.

In the drive: `input.*` and the gestures it holds, the multi-frame plans of
`frame.run`, clients that wait on an operation in flight (they get the answer the
operation gets), grants and credentials, the bootstrap lease, pause and the separate
credit of cleanup frames, and the wake token. In the loop: pause, a surface that is not
ready (a frame then needs no credit), the cleanup credit, the frontier a token waits for
(a `VirtualFrame` may begin at any time), and a renderer that fails. In the stores: `export.go`, `Replace`
with duplicate IDs (the collection's contract excludes them) and the limit of sixteen
signal passes, which panics on a cycle of handlers.

Nearly all of the 150 000 lines of the repository are widgets, layout, text,
rendering, platform glue and build tools: sequential code over geometry, pixels and
I/O, with no protocol whose steps could interleave. A model of them would restate
their arithmetic. The modelled part is the code that the rest relies on for order,
memory, delivery and consistency; by lines it is a few percent.

## Plan

1. *Virtual frames in the loop*: the frontier a token waits for in `FrameLoop`, with
   pause and the loss of the surface: a Virtual frame whose jobs have finished starts,
   also after refused and dropped jobs.
2. *`input.*` and `frame.run`*: held gestures, plans over several frames and their
   preemption, in `DrivePort`.
3. *Commits against stores*: a job's snapshot versions and the order of commits of
   replaced jobs, with `Stores`.
4. *Termination of the store phases*: a measure that falls with each step of a flush
   and of a computation, as a safety property of the steps, so that the end of a frame
   needs fairness of the runtime thread and nothing else.
