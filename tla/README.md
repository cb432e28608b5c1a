# EmberVM in TLA+

EmberVM is a cloud of Firecracker microVM sandboxes that can be paused, moved
between storage tiers and resumed anywhere. This directory holds a TLA+ model of
the parts of it where steps of several actors meet, the TLC runs that check the
model on small instances, and TLAPS proofs of what holds for every instance.

Paths such as `pkg/...` are relative to `src/`.

## 1. The system

| part | code | role |
|---|---|---|
| state machine | `pkg/lifecycle/machine.go` | the states of a sandbox and the edges between them; used by the control plane on the row and by a node agent on its own struct |
| REST server | `pkg/controlplane/server.go` | one handler per verb; reads the row, claims or writes states, calls a node agent |
| store | `pkg/controlplane/store.go` | PostgreSQL: sandboxes, nodes, templates, tokens, events, checkpoints. `TransitionSandbox` compares and swaps, `SetSandboxState` writes whatever the row says |
| lifecycle engine | `pkg/controlplane/engine.go`, `autoscale.go`, `pkg/prewarm` | one goroutine that demotes idle sandboxes PAUSED_HOT → PAUSED_WARM → ARCHIVED_COLD → RECYCLED, prewarms and autoscales |
| scheduler | `pkg/controlplane/scheduler.go` | health polls, eviction after missed polls, placement under overcommit |
| create-time defaults | `pkg/controlplane/defaults.go` | fills in geometry and resize ceilings |
| node agent | `pkg/nodeagent` | create, pause, resume, snapshot, stop, release, restore, fork, rollback, resize; watchdog; egress rules; jailer, cgroups, golden snapshots |
| node API | `pkg/nodeapi` | the agent's verbs as HTTP over a socket |
| netns pool | `pkg/netns` | leases network namespaces |
| storage | `pkg/storage` | a ZFS dataset (or a directory) per sandbox, its snapshots and deltas |
| chunk store | `pkg/chunkstore` | content-addressed chunks and named objects in a directory or in S3; copier; garbage collection |
| snapshot format | `pkg/memsnap` | full and diff layers of a memory image, resolving a chain, synthesizing one layer from it |
| page-fault handler | `pkg/uffd`, `cmd/uffd-handler` | serves a restored VM's memory from chunks: faults, prefetch, backfill, balloon removes |
| guest agent | `pkg/guestd`, `pkg/guestapi` | commands, files and terminals inside the VM |
| templates | `pkg/template` | an OCI image becomes a root file system |
| console: files | `web/src/pages/workspace/FilesTab.tsx`, `Editor.tsx`, `lib/files.ts` | file tree and editor over the guest's disk |
| console: terminal | `web/src/lib/term.ts`, `termBridge.ts`, `TerminalTab.tsx` | shells over WebSockets that outlive the tab and reconnect |
| console: health | `web/src/lib/health.ts` | one polled feed per sandbox, shared by the components that show it |
| console: sandboxes | `web/src/api`, `web/src/pages`, `components/createSandbox.tsx` | the query cache, the verbs with their optimistic patches, the create dialog, the resources panel |
| tools | `pkg/webui`, `cmd/*`, `scripts`, `deploy` | serving the console, start-up, installation |

How they meet: a handler reads the row, moves it with a store call, calls the
agent of the node in the row, and writes the outcome. The engine does the same
from its ticker, the scheduler writes FAILED from its polls. A pause on a node
writes the snapshot through to the warm store L1 (chunks, manifest, snapfile,
disk delta, descriptor last); a restore on any node reads it back. The engine
copies it to the cold store and deletes it from L1, and the garbage collector
sweeps chunks that no manifest names. None of these holds a lock across its
steps.

The console is one JavaScript thread per browser tab. A handler runs to its
first `await` undisturbed and goes on later, against the state its closure saw;
between the two, answers, timers, renders and the user come in any order
(`FilesTab` has the renders as steps; the other modules take the render with the
change, see section 5). Four stores live outside the pages: the query cache, the
terminal manager, the health feeds and the token in localStorage.

## 2. The modules

| module | models | state |
|---|---|---|
| `Lifecycle` | `pkg/lifecycle/machine.go` | operators only: the edges, `Validate`, `To`, `CAS` |
| `Tiering` | one sandbox through handlers, store, engine, scheduler, agents, L1 and cold store | `row`, `up`, per-node `agent` entry, `reach`, `reports`, `l1`, `cold`, requests `th`, engine `eng`, history `gen`, `acked` |
| `NodeAgent` | one agent's verbs and its watchdog, at the grain of its locks, child processes, zfs and netns calls | table `sbx`, structs `obj`, `pool`, `rules`, history `stale`, datasets `data`, `l1`, calls `th` |
| `NetnsPool` | `pkg/netns/pool.go` | operators on a pool: the free stack and the used set |
| `ChunkGC` | `pkg/chunkstore/gc.go` against the copier and the manifests of pauses | clock `now`, `mtime`, the pauses, the collector |
| `FilesTab` | the file browser, its editor and its requests | `disk`, `listing`, `running`, the component's state (`file`, `dirty`, `saving` as rendered and, in `next`, as set; `busy`, `dialog`, `latest`, `gen`), the mounted `editor`, `calls` |
| `Terminal` | `TermManager`, the tab, and the events that reach it | `sess` (sessions with their sockets), `lastState`, `token`, `row`, `view`, `leaving`, `kill`, `server`, `net` |
| `ShellSession` | what the manager promises the user of a session | `phase`, `wire` |
| `Health` | the health store and the two views on it | the map's `entry`, the entry objects `ent`, `sub`, and the environment |
| `Geometry` | the create dialog against `resolveGeometry` and the validation behind it | operators only |
| `Console` | one sandbox in the query cache, every button that sends a verb on it, the control plane behind them; extends `Geometry` | `server`, `query`, `calls`, `page`, `panel`, `moves` |
| `*_proofs` | theorems about the module of that name; `Console_proofs` has those about `Geometry`, `TieringSerial_proofs` those about `Tiering` with one request at a time | |
| `MC*` | instances for TLC | |

### Tiering

A request is a record in `th`: the step it is at and what it read from the row
(`st`, `node`), which is the handler's local `sb` and may be stale. Each store
write and each agent call is a step of its own, named after the handler:
`ResumeBegin` reads the row, `ResumeClaim` is the compare-and-swap of
`server.go:721`, `ResumePlace` the placement and `SetSandboxNode`,
`ResumeRestore` or `ResumeHot` the call, `ResumeWrite` the record,
`ResumeUndo` the compensation. The engine is one more thread, because it is one
goroutine.

An agent's verb is a set of outcomes (`PauseSandbox`, `RestoreSandbox`, ...):
the entry it leaves, what it wrote to L1, and its answer. A pause that fails can
stop before the kill, after it, or after any object of the push
(`PauseFailures`). `Answers` adds that a node cannot be reached, or that the answer
is lost after the verb was carried out.

Data: a snapshot is named by the agent's sequence number (`p<N>` in the code)
and its content is its generation, a number no other snapshot of the behaviour
has. The manifest and the snapfile of a layer are one object, the disk delta
another, the descriptor a third; chunks are `ChunkGC`'s. `acked` is the newest
generation a row write acknowledged to a client.

`Faults` selects what the environment may do: `agent` a verb fails, `lost` an
answer is lost, `db` a store write fails, `crash` and `partition` of a node,
`process` a VM dies and the watchdog reaps it, `copy` an engine copy or deletion
fails, `capacity` a node is full, `apiserver` the API server restarts.

### NodeAgent

A call is the list of steps it has left (`Steps`), so what can come between two
steps is explicit. Structs (`obj`) and table entries (`sbx`) are separate,
because verbs go on working on a struct that has left the table, and datasets
and table entries are addressed by id. A lease stays in the struct after it was
given back, as in the code. `Busy` is zfs refusing to destroy a dataset whose
files a Firecracker has open. Taking a slot's egress rule off is best effort
(`egress_linux.go:35`): with the fault `iptables` it fails, the slot goes back with
its rule, and `stale` remembers it.

`Allowed` is what the control plane sends. It claims a row before a resume, a
restore or a release, but a claim is no lock: a FAILED that another handler writes
without comparing lets a second one in (`Tiering_clients`, below). `Claims` TRUE is
the hypothesis that none gets in, as when the requests on a sandbox do not
overlap; FALSE drops it.

### ChunkGC

Each pause copies one layer: per chunk `Has`, then `TouchChunk` or `PutProbe` and
`PutWrite`, and the manifest last (`Publish`). The collector lists the
manifests, reads them, lists the chunks, and re-stats and deletes each
candidate, one step each. `Repeated` and `DeleteRepeated` are requests that took
effect without an answer and are made again (`retryS3`, `s3.go:117`; three times
at most there, any number in the model). `MaxCopy` bounds the time from a pause's first chunk
to its manifest, `MaxMark` the time from listing the manifests to listing the
chunks; the module assumes `MaxCopy + MaxMark < Grace`. The default grace of an
hour (`engine.go:117`) makes that a very weak assumption.

### FilesTab

A request is sent, served by the guest and answered in three steps, and carries
the closure of the handler that awaits it (`file`, and whether the tab that sent
it is still mounted). `OpenAnswered` is the rest of `openFile`, `SaveAnswered`
of `save`, `ListAnswered` goes on from `refreshTree` to the `openFile` of
`createFile`, `CallFails` is each handler's catch and finally, and a write that the
guest began and did not finish. What these set is in `next` and reaches the
screen with `Render`; what they write to `latestTextRef` is there at once, and keys
and clicks in between meet the old file, the old editor and the new ref. An event
of the user renders all that waits (`Flush`), as React does. `Prompt` TRUE is the
hypothesis that a due render comes before the next key or click on Save: a browser
all but always has it so, and nothing in the code says so. `Rendered` is
React's rule that an `Editor` lives as long as its key. A text carries the path
it was read from or typed into (`of`), so that a save of the wrong buffer shows
on `disk`; the kinds of content stand for the NUL sniff and the two size
limits.

### Terminal and ShellSession

Each operator on a session (`connect`, `onclose`, `retry`, `resumed`, `closed`,
...) is the method or callback of that name in `term.ts`. A session that was
closed is kept until its socket is gone, because its callbacks still run.
`RowChanges` is the workspace's effect that reports the polled row to
`noteState`. Of a sandbox's state the code asks only whether it is RUNNING, and so
does the model. Other clients and the engine stop the sandbox and start it
(`World`), the user kills it, the network drops, a request is answered 401, and
another browser tab changes the token. `ShellSession` sees a session as absent,
live, lost or ended and the connections it holds; `Terminal!Promise` maps to it.

### Health

Entry objects and the map are separate: after the reset on a 401 or a
collection, closures still hold the old object. `Collect` deletes by sandbox id,
as `entries.delete(id)` does, whichever object is in the map by then. `Shows` is
what the header's pill and the overview's gauges render.

### Console and Geometry

`query` is the row in the cache with React Query's flags and the fetch in
flight; `setQueryData`, `invalidateQueries`, `Poll`, `Read`, `Delivered` and
`FetchFails` are the library's behaviour as the hooks use it. A call goes from
its button through `onMutate` (`mutate`), the server (`Begin` claims the row,
`Serve` decides), to `Answered` or `Failed`, which do what `onSuccess`,
`onError`, `onSettled` and the caller after `mutateAsync` do, in that order; a call
with `chain` is the toggle of "Turn off autoscale & apply", whose answer sends the
resize. `World` is what everyone else does to the row, through the store's four
writes: a claim compares the state, the other three go by id.
`Render` unmounts components whose page, tab or row is gone: their `isPending` no
longer disables anything and the resources panel loses its copy of the size. The
two ghosts of the query, `drift` and `late`, record why the cache may lag.

`Geometry` has the dialog's modes, presets, input constraints, `validateGeometry`
and the body it posts on one side, `resolveGeometry`, `validateCeilings` and the
slot rounding of the control plane on the other. `Console` submits every form
over the numbers of its cfg.

## 3. What TLC checks

The column "scope" matters: what a run leaves out is often what breaks its
property, and the table after it says so.

| run | scope | properties | distinct states |
|---|---|---|---|
| `Tiering_durable` | 1 client, every verb, hot and warm tiers, every fault but `agent` and `copy`, 3 snapshots | `TypeOK`, `PausedRestorable` | 4.5 M |
| `Tiering_faults` | 1 client, every verb, hot and warm tiers, `agent`, `crash`, `process`, `capacity`, 3 snapshots, with fairness | `RunsFromLastPause`, `OneVM`, `FailedRestorable`, `TransientLeft`, `HotDemoted` | 426 k |
| `Tiering_clients` | 2 clients, 3 nodes, every verb, hot and warm tiers, no faults, 3 snapshots | `PausedRestorable` | 2.4 M |
| `Tiering_archive` | 1 client, no migrate, all tiers, `agent`, `crash`, `process`, `capacity`, `copy`, 3 snapshots | `ColdTierComplete`, `RunsFromLastPause` | 3.7 M |
| `ChunkGC_grace` | 2 pauses, 2 chunks, 7 clock values, repeated requests | `TypeOK`, `LostOnlyInWindow` | 582 k |
| `NodeAgent_verbs` | 2 concurrent verbs, no stop or snapshot, no watchdog, failing steps, rules that stay, `Claims` | `SlotExclusive`, `EgressEnforced`, `DatasetKept`, `NoOrphanVM`, `NoLeakedSlot` | 539 k |
| `NodeAgent_watchdog` | 2 concurrent verbs among create, pause, resume and release, the watchdog, dying children, failing steps, `Claims` | `NoOrphanVM`, `NoLeakedSlot` | 268 k |
| `NodeAgent_faults` | every verb, one at a time, the watchdog, every fault but `iptables`, 2 structs, no `Claims` | `TypeOK`, `PoolSound`, `Settled` | 2.7 M |
| `FilesTab_edit` | 2 files, one editable and one over the limit, an upload of a read-only one, 2 requests in flight, lost and overtaking answers, the guest stopping, the tab left and reopened, `Prompt` | `TypeOK`, `NoCrossWrite`, `SaveTargets`, `SpinnerOwned`, `UnsavedKept` | 5.7 M |
| `Terminal_shells` | 3 sessions, 2 sockets each, every event, with fairness | `TypeOK`, `OneSocket`, `NotStranded`, `KeepsPromise`, `Reconnects` | 479 k |
| `Health_poller` | 2 views, 2 entry objects, 401s, sign-outs, hidden pages, a failing API, pauses, with fairness | `PollsWhileWatched`, `FeedOrdered`, `OneFeed`, `Recovers` | 447 k |
| `Console_cache` | 2 verbs in flight, every page and button, 2 moves (verbs sent here, and writes others make to the row), failing fetches and verbs, with fairness | `TypeOK`, `CacheTrue`, `CreateAccepted`, `Converges` | 1.5 M |

Deadlock is not checked in the runs of `Tiering`, `ChunkGC` and `NodeAgent`: a
bounded instance comes to rest when its snapshots, structs or clock are used
up. The four console runs check it: a page can always be left, reloaded or
polled.

### Where the properties stop holding

TLC finds each of these, by changing the constants of a run, its properties, or
the exception a property states, as shown. Properties the runs do not list
(`ChainPresent`, `WarmDeltasPresent`, `NodeFailureRecoverable`, `StoppedFinal`,
`PublishedIntact`, `ReapsOnlyDead`, `ToggleFirst`) are defined in the modules for this.

| from | change | violated | what happens |
|---|---|---|---|
| `Tiering_archive` | add `migrate` | `RunsFromLastPause`; `ColdTierComplete` even without faults | a migration brings the row back to PAUSED_WARM between the archive's copy and its swap, and the old copy is committed |
| `Tiering_archive` | property `ChainPresent`, no faults | `ChainPresent` | the L1 prune after archiving deletes the layers of a snapshot taken meanwhile |
| `Tiering_archive` | property `FailedRestorable` | `FailedRestorable` | a cold restore that fails leaves a FAILED row that restores from an empty L1 |
| `Tiering_faults` | property `NodeFailureRecoverable` | `NodeFailureRecoverable` | a pause that fails past the kill leaves the row RUNNING with no VM, and RUNNING cannot be resumed |
| `Tiering_faults` | add `apiserver` | `TransientLeft` | a restart drops the request; shown for a row left PENDING |
| `Tiering_durable` | add `agent` | `PausedRestorable`, `FailedRestorable` | a VM stays behind on a node that was cut off, or whose answer was lost, while the sandbox is restored elsewhere; a later pause of it that stops half way overwrites a layer the descriptor names (`agent_m2_linux.go:153`) |
| `Tiering_faults` | a second client | `PausedRestorable` (5 M states) | the same, with a VM that overlapping requests left behind |
| `Tiering_clients` | property `OneVM` | `OneVM` | two requests, no faults: a FAILED written by one handler under another's RESUMING lets a second claim in; the first resume then restores on the old node while a migration restores on its target. Without `kill` it takes a third node |
| `Tiering_clients` | property `RunsFromLastPause` | `RunsFromLastPause` | the resume's claim (`server.go:721`) compares the state, not the node: a hot resume runs an older snapshot on a node whose release is pending |
| `Tiering_archive` | no faults, property `WarmDeltasPresent` | `WarmDeltasPresent` | after a cold restore the next warm restore misses disk deltas that only the cold store has (`agent_m2_linux.go:338`) |
| `Tiering_clients` | property `StoppedFinal` | `StoppedFinal` | an unconditional state write takes a killed sandbox out of STOPPED |
| `Tiering_faults` | add `partition` | `OneVM` | a node that is cut off runs on while the sandbox is restored elsewhere; the repository claims nothing else |
| `ChunkGC_grace` | property `PublishedIntact` | `PublishedIntact` | a touch between re-stat and delete does not save the chunk |
| `ChunkGC_grace` | `raced` without the puts | `LostOnlyInWindow` | a delete took effect unanswered, a pause misses the chunk and puts it, the repeated delete (`s3.go:260`) takes it away |
| `NodeAgent_verbs` | `Claims` FALSE | `SlotExclusive`, `EgressEnforced`, `DatasetKept`, `NoOrphanVM`, `NoLeakedSlot` | two resumes or restores of one id at once; the claim that keeps them apart (`server.go:721`) gives way as in `Tiering_clients` |
| `NodeAgent_verbs` | add `snapshot` | `SlotExclusive` | the deferred rollback of one snapshot's resume FAILs the machine under a second snapshot's resume, and a restore takes the FAILED entry over while that resume still launches |
| `NodeAgent_verbs` | add `snapshot` and `stop` | `SlotExclusive`, `EgressEnforced`, `DatasetKept`, `NoLeakedSlot` | checked with both verbs together; StopSandbox ignores the machine's refusal and tears down beside another verb |
| `NodeAgent_verbs` | add `process` | `SlotExclusive`, `EgressEnforced`, `DatasetKept` | a failing create and the reap both clean up; a slot is freed under its new owner |
| `NodeAgent_watchdog` | property `ReapsOnlyDead` | `ReapsOnlyDead` | a pause and a resume between scan and reap: a healthy VM is reaped |
| `NodeAgent_watchdog` | add `restore`, property `DatasetKept` | `DatasetKept`, `NoOrphanVM`, `NoLeakedSlot` | the reap destroys, by id, the dataset a restore has just received (`watchdog_linux.go:103`) |
| `NodeAgent_watchdog` | add `stop` | `NoOrphanVM` | a stop during a resume leaves a VM that no verb reaches |
| `NodeAgent_faults` | 3 structs, property `NoLeakedSlot` | `NoLeakedSlot` | a stop and a restore overtake a reap, whose unbook, by id, drops the restored sandbox |
| `NodeAgent_faults` | without `process`, 3 structs, property `SlotExclusive` | `SlotExclusive` | a release that fails half way gives its slot back twice |
| `FilesTab_edit` | `Prompt` FALSE | `NoCrossWrite` | a file is opened over another; after `latestTextRef` is set (`FilesTab.tsx:85`) and before the new file is rendered, a key in the old editor puts the old text back in the ref and makes the new file dirty, and Save writes it there |
| `FilesTab_edit` | `SaveTargets` without `overlap` | `SaveTargets` | a key pressed while an oversized file loads enables Save for it (`FilesTab.tsx:225` does not look at `tooLarge`), with an empty text |
| `FilesTab_edit` | `UnsavedKept` without the undo | `UnsavedKept` | after a save, undoing to the text the editor was created with reads as clean (`Editor.tsx:93`) although the disk has another text |
| `Terminal_shells` | `NotStranded` without `skipped` | `NotStranded` | a `connect()` that finds no token gives up without a timer |
| `Health_poller` | `OneFeed` without `lapsed` | `OneFeed` | the collection timer of an entry dropped by a 401 deletes the entry made after the next sign-in (`health.ts:106`) |
| `Health_poller` | `Recovers` for every mounted component | `Recovers` | the same; the pill, mounted on an entry the map no longer has, stays blank |
| `Console_cache` | property `ToggleFirst` | `ToggleFirst` | while "Turn off autoscale & apply" waits for its toggle, another client, or the switch of this page, turns autoscale on again; the resize is sent all the same (`OverviewTab.tsx:526`) |
| `Console_cache` | `CacheTrue` with no drift for a failed rollback or migrate-and-retry, or for an autoscale flip undone off its page | `CacheTrue` | nothing refetches the row; the next poll does |
| `Console_cache` | `Disabled` TRUE | `CreateAccepted` | with elastic defaults switched off, the presets "small" and "large" are refused: a ceiling without a base |

### Bounds

Two nodes: one that holds the sandbox and one it can move to; the row names one
node. `Tiering_clients` has three, because two requests can carry two stale nodes
beside the row's. Two clients: the violations above need one stale request and
one that overtakes it. `MaxGen` 3 gives a root, a diff on it, and a snapshot that
follows a restore of both. The safety properties of `Tiering_durable`,
`Tiering_faults` and `Tiering_clients` are proved without these bounds (section 4).
The others were also checked on larger instances: `TransientLeft` and `HotDemoted`
with 3 nodes (4.7 M states), `Tiering_archive` with 3 nodes (34.7 M) and with
`MaxGen` 4 (16.7 M), `NodeAgent_verbs` and `NodeAgent_watchdog` with 4 structs and
with 3 concurrent verbs.
Two sandboxes and two slots: the owner of a slot, its next owner, and a pool that
runs dry. `MaxObjs` bounds the structs made: 3 where verbs overlap, 2 in
`NodeAgent_faults`; `TypeOK`, `PoolSound` and `Settled` also held with 2
concurrent verbs of every kind and failing steps (6.5 M states). In `ChunkGC`, `Grace` 3 with `MaxCopy` 1
and `MaxMark` 1 is the tightest timing the assumption admits, and `MaxTime` 6
lets a chunk grow old, be listed, touched and swept.

The console. `FilesTab`: two files are the one open and the one opened over it,
two requests the one overtaken and the one overtaking; `MaxGen` 2 is the
two opens of a behaviour. Without `Prompt`, and without uploads, all properties but
`NoCrossWrite` hold as well (34 M states). `Terminal`: `MAX_SESSIONS` 2 is reached and refuses
the next, and the third name is for a session hung up but not gone; two
sockets are the current one and one it superseded. `Health`: one entry in the
map and one that closures still hold; `CAPACITY` 2 overflows. `Console`: two
verbs are the least that patch and roll back across each other; `MOVES` 2
bounds verbs and the writes of others together, polls and page changes are not
bounded. With no busy guard on any button (`Pending` FALSE) all four properties
hold as well, so none of them depends on when `isPending` reaches a button. The
numbers typed are zero, each limit, the value above it, and sizes off and on the
slot grid.

### Fairness

`Tiering!LiveSpec`, in `Tiering_faults`: weak fairness of the steps of a request
under way, and of the engine. A call to an agent ends because the client gives
up after 15 minutes without a response (`ResponseHeaderTimeout`,
`nodeapi/http.go:426`). Store queries have no deadline in the code: that
PostgreSQL answers, or refuses, is an assumption. The engine's ticker starts a
pass again however the last one ended (`engine.go`, `Run`). Nothing is assumed
of clients beginning requests, of faults, or of nodes coming back.

`Terminal!LiveSpec`: retry timers fire, and a handshake or a close that can
complete does. `Health!Spec`: the interval fires and a request is answered or
fails. `Console!LiveSpec`: the polling interval fires (weak), which it does while
the browser tab is visible (`web/src/api/hooks.ts:21`); a request that is sent
again and again is read and its answer delivered (strong, since an invalidation
cancels the fetch under way and a fetch may fail). That not all fetches fail is an
assumption on the network. Nothing is assumed of the user, of verbs, or of the
sandbox coming back; `Reconnects`, `Recovers` and `Converges` speak of behaviours
in which it did.

## 4. What is proved

Proofs hold for every value of the constants that satisfies the modules'
assumptions: any number of nodes, clients, snapshots, files, sessions, entries
and mutations in flight. The assumptions say that a null value is no value of
another kind, and that a count is a number; `ChunkGC`'s says what the grace has
to cover.

* `Tiering_proofs!TypesKept`: `Spec => []TypeOK`, for all faults, tiers and verbs.
  The types bound the tag counters, so they are not preserved by themselves:
  `Inv` adds that no agent's counter, and no descriptor's, passes the number of
  snapshots taken, and that the chain a pause extends ends in the agent's own
  newest tag.
* `Tiering_proofs!PausedRestorableKept` and `FailedRestorableKept`:
  `Spec => []PausedRestorable` and `Spec => []FailedRestorable` for any number of
  concurrent requests, every verb and every fault but `agent`, without the cold
  tier. `Sound` says that L1 holds the newest snapshot taken, whole, and every
  object an agent's chain or the descriptor names. It is about the newest
  snapshot, not the newest acknowledged one, because any VM, also one left behind
  on another node, may be the next to pause; a pause only ever replaces a name's
  content by newer content.
* `TieringSerial_proofs!PausedRestorableSerial`, `FailedRestorableSerial`,
  `RunsFromLastPauseSerial` and `OneVMSerial`: the four invariants for requests
  that come one at a time, beside the engine, with the faults `agent`, `crash`,
  `process`, `capacity` and `copy`, without the cold tier. `Sound` fails here: a
  push may stop half way. `Guarded` says instead that a running VM is alone and
  on the row's node, that its counter and its chain are the descriptor's
  (`Twin`), so the next push starts under a tag the descriptor does not name, and
  for every step of a request what its copy of the row is still good for
  (`Bound`). The hypotheses are needed: section 3 has the violation for a second
  client, for a lost answer or partition, and for the cold tier, whose prune empties
  L1. `Guarded` was checked with TLC (348 k states) before it was proved.
* `ChunkGC_proofs!TypeCorrect`: `Spec => []TypeOK`.
* `ChunkGC_proofs!GraceSuffices`: `Spec => []LostOnlyInWindow`, from
  `MaxCopy + MaxMark < Grace`. The invariant alone is not inductive: it says
  nothing about a pass under way. `IInv` adds that nothing in progress is
  overdue (`Clock`), that what a copy has finished with was stamped since the
  copy began (`CopiedFresh`), that a published chunk is shielded from the pass
  under way by an unread manifest, a mark, or a stamp younger than the cutoff
  (`PublishedSafe`), and that nobody relies on the chunk about to be deleted
  except a pause that finished with it in the window (`DoomedUnused`). The step that needs
  the timing is `ListChunks`: an unmarked published chunk was published after
  the manifests were listed, so its stamp is at most `MaxCopy` older than the
  listing, hence younger than `now - Grace`.
* `NodeAgent_proofs!PoolAlwaysSound`: `Spec => []PoolSound`. `SetupSound`,
  `AcquireSound` and `ReleaseSound` are lemmas about the pool's operators;
  the agent only ever changes its pool through them, so double releases do no
  harm to the pool itself (they do to the sandboxes, section 3).
* `FilesTab_proofs!NoTextCrosses`: `Spec => []NoCrossWrite`, from `Prompt`. The
  property speaks of the disk alone; `Inv` adds that every place a text waits in
  belongs to the path it would be saved to (`Own`): the open file, as rendered and
  as set, the mounted editor under its key, the requests with their closures
  (`CallOK`), and `latestTextRef` as long as `dirty` enables the Save button. The
  steps that need it are the two saves: one takes its path and its text from
  different pieces of state, and `Prompt` is what keeps these together between an
  answer and its render. The other four theorems do not need it.
* `FilesTab_proofs!SpinnersOwned` and `TypesKept`: `Spec => []SpinnerOwned` and
  `Spec => []TypeOK`, from `Inv`.
* `FilesTab_proofs!SavesAimed` and `KeystrokesKept`: `Spec => []SaveTargets` and
  `Spec => UnsavedKept`, an action property. Both make an exception once the user
  acted under a request or before its render (`overlap`), so `KeptInv` says what
  holds until then (`Quiet`): a request is the only one, a read is not under way
  over unsaved text, and unsaved text is the editor's and differs from what it was
  created with only if `dirty` says so. `UnsavedKept` also names the ways text goes
  without the user's word: the tab unmounts, on leaving it or when the row of the
  sandbox fails to load, and the guest stops, which unmounts the editor; it comes
  back with the text last loaded or saved.
* `Terminal_proofs!SocketsExclusive` and `NeverStranded`: `Spec => []OneSocket` and
  `Spec => []NotStranded`. `Good` strengthens both for one session: it is
  listed exactly until the user closes it, holds no socket but its current one,
  and a listed one has a socket, a timer, an exited shell or found no token. A
  lemma per operator says it keeps a session good.
* `Terminal_proofs!PromiseKept`: `Spec => KeepsPromise`, the refinement. `Moved`
  says what one step does to all sessions in terms of the abstract ones:
  together (a resume, a kill, a sign-out) or one alone.
* `Terminal_proofs!TypesKept`: `Spec => []TypeOK`.
* `Health_proofs!WatchedIsPolled`, `FeedInOrder` and `FeedShared`:
  `Spec => []PollsWhileWatched`, `[]FeedOrdered` and `[]OneFeed`. Each handler replaces
  one entry object; a lemma per operator says that it leaves a good object (its
  interval matches its listeners, its ring is ordered and short enough) and the
  listeners it should have, and the invariant then only relates `sub`, the map and
  the objects.
* `Console_proofs!TypesKept` and `CacheSettles`: `Spec => []TypeOK` and
  `Spec => []CacheTrue`. `CacheTrue` speaks of a cache at rest; `CacheInv` says of
  every moment that a row in the cache or in flight differs from the server's only
  while a verb that writes it is unsettled, or a ghost says why.
* `Console_proofs!CreatesAccepted`: `Spec => []CreateAccepted` with elastic defaults on,
  from `DialogAgrees`.
* `Console_proofs!DialogAgrees`: with elastic defaults on, every form the dialog
  lets through is accepted, and in advanced mode stored with the ceiling the
  hint announced, whatever numbers are typed; one lemma per mode.

Only model-checked: `ColdTierComplete`, and `RunsFromLastPause` with the cold tier;
the properties of `NodeAgent` but `PoolSound`; and liveness (`TransientLeft`,
`HotDemoted`, `Reconnects`, `Recovers`, `Converges`), which needs fairness and
`ENABLED` and is outside the prover's reach, as are induction over data and
`RECURSIVE` operators. `Restorable` asks that the objects a descriptor names are
there and that its newest layer and delta are of one pause; that the older layers
of a chain belong to the lineage of the newest is not checked.

## 5. Not modelled

Listed with reasons under `components` in `PROJECT.json`.

* In `Terminal`, `Health` and `Console`, the time between a change and the render
  that shows it: the two are one step, so nothing is clicked on a stale screen.
  `FilesTab` has that time.
* Encodings, logging, metrics, authentication and ownership, the guest agent and
  its streams, templates, the jailer and cgroups (set up and torn down with the
  process they belong to), start-up wiring.
* The lineage behind checkpoints, forks and rollbacks (`server.go` 987-1213,
  `fork_linux.go`, `golden_linux.go`, dataset clones), which the row and the
  chain of `Tiering` do not have; `Console` has what they do to the row. A fork's
  parent is skipped by the demotion (`engine.go:488`), so `HotDemoted` is about a
  sandbox without forks, on a node that is registered.
* The scheduler's miss counter and its capacity arithmetic, and the autoscaler's
  thresholds; the models have their outcomes.
* The snapshot format and the page-fault handler: sequential code over page
  images, and races with the kernel whose rules are not in the repository.
* In the console: what only displays (charts, tables, themes, translations,
  toasts), navigation, the cookie session of the preview proxy, the list query
  (its row is patched as the sandbox's own is), events, storage and node pages,
  and the one-shot exec of the overview, which keeps its result to itself.
