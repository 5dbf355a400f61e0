# cudackpt: TLA+ models, checks and proofs

cudackpt checkpoints a running CUDA process and restores it. A library
preloaded into the application (the *shim*, C/C++/CUDA, `src/shim`) interposes
the CUDA driver API, keeps track of what the application has on the device, and
answers requests on a Unix socket. An *orchestrator* (Go, `src/pkg`,
`src/cmd/cudackpt`) drives the shim and CRIU, and keeps the images on disk.

This directory models the parts that carry state, checks them with TLC on small
instances, and proves with TLAPS, for instances of any size, every safety property
that the passing runs check. `PROJECT.json` lists the runs, the source lines each definition
stands for, the hazards the properties are aimed at, and the theorems.

    tlc -workers 2 -config Shim.cfg MCShim      # one run
    tlapm ShimProofs.tla                        # one proof module

## 1. Inventory

### The shim

| Component | State | Operations | What is hard, and what makes it correct |
|---|---|---|---|
| Interposer `interpose.c` | none of its own | `cuMemAlloc`, `cuMemFree`, stream, event, context and module calls, `cuLaunchKernel`, `cuLaunchHostFunc`, marks for unsupported API | Each call has two halves, the driver's and the tracker's, with no lock around both. Handles are reused by the driver. The tracker must never lose a handle the application holds. |
| Tracker `tracker.cpp` | allocation map in locked shards, tables of streams, events, contexts, modules; `host_callbacks_`; `bad_`; a copy of the state word | `track_*`, `untrack_*`, `*_snapshot`, `clear`, `host_callback_enter/leave` | Listings lock one shard after the other. A host function is counted before it is queued and must be counted for as long as it may run. |
| Control server `ipc.c` | `g_state` under `g_mu`, the socket | PING, STATUS, STATS, FREEZE, SNAPSHOT, RESTORE, RESUME, QUIT; the checkpoint signal | One thread per connection and no order between them; the state word has two copies written separately; a connection serves one request. |
| Quiesce `quiesce.cpp` | none | `ckpt_quiesce_gpu` | Synchronizes context, streams, events, then spins on the callback counter up to a bound. It must wait for all work submitted before, and must end. |
| Snapshot `snapshot.cu` | manifest, `device.bin`, sidecars | `ckpt_snapshot_write`, workers | The application may allocate and free meanwhile. Workers share an index and a flag; a worker that finds the flag set leaves its task undone. |
| GPU restore `restore.cu` | the tracker, the device | `ckpt_restore_load`, `ckpt_resume_signal` | Clears the tracker, maps the old addresses again, copies back; any step may fail half way. |
| Pinned pool `pinned_pool.cpp`, coalescing `coalesce.cpp` | `blocks_`, shared by all requests | acquire, release; `coalesce_allocs` | A buffer must have one user at a time; the pool must not grow with every request; allocations inside a coalesced block must be found again. |
| Application hooks in `ipc.c` | threads waiting on `g_cv` | `ckpt_wait_frozen`, `ckpt_app_resumed` | No wakeup may be lost; a parked application must go on with the memory it had. |
| Sidecars `module_io.cpp` | files | read and write | Streams are looked up in a tracker that has just been cleared. |

### The orchestrator

| Component | State | Operations | What is hard, and what makes it correct |
|---|---|---|---|
| Checkpoint and retry `orchestrator.go`, `queue.go`, `shimctl.go` | counters, attempt | freeze, snapshot, verify, process, CRIU dump, meta, finalize; retry | Each step may fail; CRIU ends the process; a crash may come anywhere. Counters count operations, not attempts. |
| Staging and finalize `finalize.go` | `<dest>.staging`, `<dest>`, `COMPLETE` | `WriteStaging`, `Finalize` | The marker must imply a whole image; the last good image must not be lost. |
| Retention and agent `retention.go`, `agent.go` | the directory of images | plan, apply | Plan and apply are separate from, and concurrent with, checkpoints. |
| Restore `orchestrator.go`, `restore.go`, `preflight.go` | counters, `restored.pid` | preflight, materialize, CRIU, poll sockets, PING/RESTORE/RESUME | Sockets of other processes are in the same directory; answers are lost; a deadline. |
| Promote, pin file, validate `promote.go`, `validate.go` | the stable path, the pin file | validate, remove, copy, validate, pin | The source may be replaced while it is copied, and the GC may have an older image at the path on its list. |
| Rollback `rollback.go` | none | stop the process, validate, restore | SIGKILL is not waited for. |
| Drift `drift.go` | none | compare two images | Only the left manifest is gone through. |
| Image pipeline `pkg/image` | files and flags of an image | sparse, dedup, compress, delta, materialize | Chains of parents, each rewritten when materialized. |
| Manifest format `format.go`, `flags.go`, `ckpt_ops.h` | `manifest.bin` | write and read, on both sides | Two languages, two layouts, one version word shared with the flags. |
| RPC `pkg/rpc`, CRIU wrapper | connections | calls | Modelled where used. |
| Watch, status, inspect, storage, health, bench, report, log, config, command line | little or none | read, print, parse | Not modelled, see section 7. |

### Interactions

The orchestrator opens a connection to the shim for each request of a
checkpoint, and *one* connection for the three requests of a restore. Shim and
orchestrator share the staging directory: the shim writes the GPU files, the
orchestrator checks and transforms them, CRIU adds its own. The agent's image GC
works on the same directories in another process, and `cudackpt promote` reads
them from a third. Inside the application the
handler threads share the tracker with the application's threads. A restore
brings the shim back inside the restored process, with the tracker as it was at
the dump and an empty device.

## 2. Plan

Modules, in the order of importance:

1. `Tracker` - done.
2. `Shim`, which extends `Tracker` with the handlers, with `ShimProofs`, which has the
   proofs about `Tracker` too - done.
3. `Checkpoint` with `CheckpointProofs`, and `Restore` with `RestoreProofs` - done.
4. `Manifest` with `ManifestProofs`, and `Images` with `ImagesProofs` - done.
5. `Lifecycle`, which extends `Shim` with the hooks, CRIU and the contents of
   device memory, with `LifecycleProofs`, which build on `ShimProofs` - done.
6. `Transfer`, what a request promises about the bytes it moves, and `Workers`,
   the threads and buffers that implement it, with `WorkersProofs` - done.
7. `ImageSlot`, what readers of an image path may see, which `Checkpoint`
   implements (proved), and `Promote`, which extends it with a reader and the GC,
   with `PromoteProofs` - done.

Left: a second orchestrator on one path.

## 3. Modules and code

**Tracker.** `live` is what exists in the driver (external), `tracked` what the
tracker's tables hold, `owned` what the application may use. A create is
`CreateReal` (the driver call) and `CreateTrack`; a destroy is `DestroyUntrack`
and `DestroyReal`, in the order of `interpose.c`. `LaunchHostEnter`,
`LaunchHostReal` and `HostWrap` are the three places a host function passes
through; `LaunchHostReal` may fail, and then the function stays counted
("leaked"), as in the code. A freed address may be handed out again at once.
Contexts, modules and symbols follow the same two halves and are left out.

**Shim.** A connection `c` runs one handler at a time; `pc[c]` is its position,
`loc[c]` its locals. A step ends where another thread could see a difference:
one per tracker shard, per synchronized handle, per spin, per mapped address,
and one for each of the two writes of the state. Requests that only read are
stuttering. The checkpoint signal is a request whose quiesce result is ignored.
`loc[c].held` and `loc[c].before` are ghosts: allocations held, and work
pending, ever since the request came. Failing driver and file calls are `Fault`,
bounded by `MaxFaults`.

**Lifecycle** extends `Shim`: one application with its threads in or outside the
two hooks, called one after the other as in `tests/integration/vectoradd.cu`; the
orchestrator's requests in the order `doCheckpoint` and `Restore` send them, with
an operator's RESUME and repeated FREEZE; and CRIU, which brings the host side
back as it was and leaves the device empty. A waiting thread gives up the mutex in the
step in which it looks at the state, and is woken by `set_state` alone. `mem`,
`copied`, `saved` are the contents of the device, of the workers' buffers and of
`device.bin`; a kernel writes its result when it ends. Ghosts: `quiet`, `sound`,
`view` remember whether all threads were parked when SNAPSHOT was asked for and
what the device then held at the dump. A process may begin FROZEN, as one started under
`CUDACKPT_NEED_GPU` does; a RESTORE into such a process of an image that another left
is not asked for here.

**Workers** is the inside of the copy step of `Shim`: a request has a list of
allocations, which `Coalesce` goes through one by one, as `coalesce_allocs` does: an
allocation that adjoins the last block extends it, any other begins a block. A block
has its `base`, `size`, context, place `off` in `device.bin`, and the `first` and
`last` of its allocations. `Launch` starts the workers. A request has a sequence of
tasks, one per coalesced block (SNAPSHOT) or per manifest entry (RESTORE), worker
threads that claim them from `next` and stop at `fail`, and buffers from a pool
shared with the other requests. A cell of memory holds its own address, so that
bytes in a wrong place are seen. `ReturnWith` drops the buffers a failed request
holds, as the code does (ghost `lost`). The steps are: a claim, a look at the
flag with the acquire, a copy, and in the request's own thread one turn of each loop.
The several error returns around the copy (context get, set, copy) are one. The
streams of `snapshot.cu` are opened with a check and written without one (lines 154,
172 to 174): `Finish` answers ok also when the disk took only a part of `device.bin`
or `manifest.bin`, and `OnDisk` is what is then there. `Fill` and `Reject` are the reads of
`restore.cu`, which are checked. The ghost `made[s]` says whether the image that
request `s` wrote or opened has all its bytes. `dev.bin` (line 186), of which a cut-off
copy reads as device 0, is left out.
**Transfer** is the promise, with `todo[s]` mapped to the allocations that are not
yet where the manifest or the restore says, and with `EndShort` for the ok that is given
without everything having been written.

**Checkpoint.** One orchestrator, one image path, its staging directory, the
application's state, the GC and a crash. A directory is a set of files, and
`os.RemoveAll` takes them one by one in any order. "gpu" stands for all that the
shim writes. A step may fail where `FaultAt` says so; every error path is that of
`WriteStaging` (remove staging) or of `Finalize` (leave it). `Verify` succeeds
when the GPU files are there, as it does with the mock shim; whether the
orchestrator can read the real shim's manifest is the question of module
`Manifest`. A checkpoint may be begun of a process that CRIU has already ended: nothing
checks it before FREEZE, and by then the old staging directory is gone. Errors of
`RemoveAll` on the staging directory are ignored, as in the code. Ghosts: `cut` in each
directory (the GC deleted from the staging directory, which keeps the mark when it is
renamed), `gap` (from Finalize's first deletion to the next rename), `placed`, `finals`,
`dump` (the directory the last dump is in) and `harmed` (one of the three things that
lose it has happened).

**ImageSlot** is what others may see at an image path: only an operation under way
changes it, the old image goes file by file, the new one comes in one step and whole unless
the GC has deleted from it. `Checkpoint!ImplementsSlot` maps `dest` and
`staging.cut` to it.

**Promote** extends `ImageSlot`: `Promote` validates the source, removes the stable
path, copies the names in the order of `filepath.Walk`, validates the copy and
enters the pin, each name in a step of its own, while the slot goes on changing;
the GC reads the pin file, plans and deletes in three steps. `old` is the age
of the copy; a promotion and the planning of a GC take less than MaxAge.

**Restore.** The restore operation with its polling loop, the candidates in the
code's order, authentication, PING, RESTORE and RESUME on one connection,
`restored.pid`, the rollback that stops the process first, and the sockets of other
processes that come and go: `sock` are the socket files, `bound` those that a running
process has bound, `up` those it listens on (`Unlink`, `Bind`, `Listen`: three steps of
`ckpt_ipc_init`), and a killed process leaves its file. A process that ends takes its
connections with it (`Breaks`), so that a new process with its pid is not reached by
them, and is no longer `loaded`. The restored process may end at any point of the
operation, which counts as a failure. The ghost `missed` says that the restored process
was dialled while it did not listen. `secret` gives each process and the
orchestrator (number 0) its `CUDACKPT_RPC_SECRET`. `Sorted` lists sockets
in the order of their pids, `AwaitTarget` is the part of a poll that waits for the socket of
the named process. `OpsPerConn` says how many requests
the server serves on a connection: many, as the mock server of `pkg/rpc` does,
or one, as `ipc.c` does.

**Manifest.** The file is a sequence of words. `WriteManifestFlags` and
`ReadManifest` are the Go side, `ShimManifest` and `ShimRead` the C side with its
structure padding; stages of the pipeline read, change and write it again. `Body` puts
entries of `w` words one after the other. `RestoreOrder` is the stable sort, given by
the rank of each entry. `Word32` is where a 32-bit word wraps.

**Images.** `store[p]` is an image's entries, flags, `device.bin`, compressed
copy, and delta. A CRC stands for the bytes it is taken of. What
`EnsureDeviceMaterialized` and `ApplyDelta` do by calling each other down the chain of
parents is two recursive functions, `Chains` (which images an image is made from) and
`Devices` (the `device.bin` of each once it is materialized), from which `Materialized`
takes the files that are rewritten. Their `Fuel` stands for the recursion depth of a
chain that refers to itself, which in Go does not end. Offsets are the running sums
`Ends`. Ghosts: `truth`, what the device held; `stale`, the images an ancestor of which
has been replaced, a new image that names its own path as its parent included.
`DropDevice` is the operator who deletes a `device.bin` that can be made again,
as `materialize_test.go` does. `Drift` is `CompareImages` on flags and manifests. `Intact`
says of an image that its ancestors are there, have not been replaced, and that no
unchanged chunk has moved; `Contents` is what the image materializes to, by address.

## 4. Runs

Passing runs:

| Run | Bounds | States | Shows |
|---|---|---|---|
| `tracker` | 2 threads, 2 addresses, 1 stream, 1 event, 2 work items | 7.6k | `TrackerFaithful`: every handle the application may use is tracked, every tracked handle exists, also when an address is freed by one thread and handed to another. `CallbacksCounted`: the counter is exactly the host functions counted and not yet finished, plus the leaked ones. |
| `shim_state` | 2 connections, all requests, 1 failure, 1 thread, 1 address | 363k | `StateAgreement`: STATUS and STATS agree whenever no handler is between its two writes. |
| `shim` | 1 connection, FREEZE and SNAPSHOT, 2 shards, 2 addresses, 1 stream, 1 work item | 496k | `QuiesceDrains`, `SnapshotComplete`, and under fairness `RequestAnswered`. |
| `lifecycle` | 1 thread, 1 address, 1 work item, 1 connection, 1 failure | 479k | `ResumesWhereItLeft`: an application parked at SNAPSHOT goes on with its memory, at its addresses, tracked, contents included. Under fairness `ParkedReturns`: no lost wakeup. |
| `workers` | 2 requests at a time with 2 workers each, lists of 2 allocations that coalesce or do not, 1 image, 1 failure or short write | 271k | `ImplementsTransfer`: what is answered ok has been moved, short writes apart. `ShortIsRefused`: no RESTORE answers ok for an image that was cut off. `BuffersAccounted`, `PoolBounded`, and under fairness `TransferEnds`. |
| `checkpoint` | 2 operations of 2 attempts, failure at every step and in removing the staging directory, GC, crash, a second checkpoint of a dumped process | 392k | `CompleteIsWhole`, `LastGoodKept`, `MetricsExact`, `DumpSurvives`, the refinement `ImplementsSlot`, and under fairness `OperationEnds`. |
| `promote` | any number of promotions, checkpoints, GC rounds, failures | 187k | `PinnedIsKept`: a promoted and pinned image stays whole. |
| `restore` | 2 processes, 5 settings of the secrets, 3 polls, 2 operations, 2 failures | 578k | `RestoreCounted`, `ReportedIsLoaded`, `BystandersUntouched`, `OwnSecretOnly`, and under fairness `RestoreEnds`, `RestoreCompletes`. |
| `manifest` | 3 addresses, 2 sizes, at most 2 entries, counter to 4 with 4-valued words | 5.6k | `GoReadsGo`, `ShimReadsShim`: each side reads what it wrote. |
| `images` | 3 paths, 3 checkpoints, layouts that grow, shrink and shift | 200k | `Restorable`: whatever has been checkpointed, compressed, dropped or materialized, an image whose chain is there materializes to what was checkpointed. `NoDriftIsSame`: two such images without drift materialize to the same memory. |

Runs that show a disagreement between a document and the code:

| Run | Document | Code |
|---|---|---|
| `manifest_shared` | README.md:174, one `manifest.bin` format | The shim writes a 24-byte header and 32-byte entries under version 2; `ReadManifest` expects 20 and 64. `GoReadsShim` fails. |
| `restore_shim` | OPERATIONS.md:58-59, GPU restore and resume via the shim | Three requests on one connection, and `handle_client` closes after one: the restore never succeeds. |

### Cases the properties leave out, and why

- `LastGoodKept` has two exceptions. From the first deletion of `Finalize` to its rename
  the path has no image or a part of one, although CLI.md:11 calls finalize atomic, and
  if the operation ends there, it has none until a later one succeeds (`gap`). What does
  hold there is `DumpSurvives`: the staging directory has everything. And an image that
  is put in place after the GC deleted from its staging directory is not complete
  (`dest.cut`, see below).
- `DumpSurvives` has three, all while the dump is in the staging directory only: an error
  after the dump, upon which the only copy of the process is deleted; the GC; and
  another checkpoint of the process, begun after the orchestrator was killed between
  dump and rename: `WriteStaging` removes the staging directory before FREEZE finds the
  process gone.
- `CompleteIsWhole`, `LastGoodKept` and `ImageSlot` excuse images whose staging directory
  the GC deleted from (ghost `cut`, mapped to `hurt`). `staging.cut` goes to `dest` with the
  rename: the GC removes the staging directory of a running checkpoint
  (`retention.go:79`), CRIU makes it again, and the marker goes into an image
  without GPU files, although OPERATIONS.md:9 lets the marker tell usable images.
- `Restorable` excuses images with an ancestor whose path was checkpointed to
  again: such an image changes its contents. A checkpoint whose parent is its own
  path is one of these, and its materialization in Go does not end. It also
  excuses chains in which a chunk with unchanged bytes has moved in `device.bin`
  (`Shifted`): `WriteDelta` (`delta.go:45`) leaves it out of the patch, and
  `ApplyDelta` takes it from its new place in the parent's file, where other bytes
  are. Without that conjunct TLC finds such a chain within the bounds of the run.
  `NoDriftIsSame` excuses the same images (`Intact`): two deltas with equal manifests may
  materialize to different memory if a chunk has moved in one, and diff, which reads
  manifests only, does not see it.
- `ImplementsTransfer` excepts SNAPSHOT's unchecked writes: on a full disk it answers ok
  for an image that is cut off. `ShortIsRefused` is what holds instead: every RESTORE of
  such an image is an error, wherever it was cut.
- `ResumesWhereItLeft` speaks of applications whose threads were all parked in
  `ckpt_app_resumed` when SNAPSHOT came. FREEZE does not stop any other.
- `PinnedIsKept` excuses a path that the GC had on its list when the promotion
  began to validate its copy: `ApplyGCPlan` does not look at the pin file
  again. A promotion that fails leaves a partial copy, the marker first, and the
  earlier image at the path is gone; `ValidateImage` refuses such a copy.
- `BuffersAccounted` and `PoolBounded` count the buffers of failed requests as lost:
  nothing releases them.
- `BystandersUntouched` and `RestoreCompletes` ask that CRIU names the process, that
  it has the orchestrator's secret and that nothing fails. The former also excepts the
  case that the process was dialled before it listened (`missed`): `shimSocketReady` waits
  for the socket file, which may be left from the process's earlier life, or be there
  already, between `bind` and `listen`. The dial is then refused, and every other shim in
  the run directory is a candidate. `RestoreCompletes` is about a process that listens.
- A `restored.pid` that names another process by now makes that one the first
  candidate; `ReportedIsLoaded` holds of it too, since it has been loaded.
- `SnapshotComplete` is for request mixes without RESTORE, which clears the
  tracker under a concurrent SNAPSHOT.
- After a RESTORE that fails half way, the addresses already mapped stay mapped,
  and no later RESTORE can have them; no property says that a retry succeeds.
- Streams are not created again by a restore: `ckpt_streams_restore` looks them up
  in a tracker that has just been cleared. `ResumesWhereItLeft` is about memory only.

### Bounds

Two threads and one address are enough for the reuse of an address to go wrong;
two shards and one application thread for an allocation to move behind the
listing; two connections for the two writes of the state to cross; two attempts
for a retry after each kind of failure, and two operations for an image to be
replaced; another process with a lower pid than the restored one for the order of
candidates to matter (one with a higher pid comes after it in any order), three polls for
a process that is missed in one, restored in the next and lost in between, two failures for an
answer that is lost and a process that ends; a chain of three images
for a parent to be itself a delta; two requests of two workers for a buffer to change
hands between requests and between workers, and lists of two allocations for a
block of two parts and for two blocks out of order; one thread, one address and
one work item for a kernel to end after its thread has parked. `Promote` has no bound: its state
space is finite. `MaxSpins` stands for the 100000 of
`ckpt_quiesce_gpu` and may be 1, since the counter is compared only with its
bound; the proofs hold for every value. Symmetry is used only in runs without
liveness and over sets no operator orders. Deadlock is not checked where the
number of operations is bounded and the system therefore stops; in `tracker`,
`shim_state`, `shim`, `lifecycle` and `promote` it is.

### Fairness

- `Shim!FairSpec`: weak fairness of each handler thread (the operating system
  schedules it), and of the completion of each work item the driver has accepted.
  None for the application: it may stop in the middle of a call, and a host
  function between its count and its launch may never be queued.
- `LifeSpec`: weak fairness of the handler threads and of threads inside
  `ckpt_app_resumed` that have been woken. None for the orchestrator, CRIU, the
  driver or the application outside the hook.
- `Workers!Spec`: as long as any thread of any request can go on, one does.
- `Checkpoint!FairSpec`, `Restore!FairSpec`: weak fairness of the orchestrator's
  next step. Its calls have no timeout of their own: that a shim answers is
  `RequestAnswered`; that CRIU ends, and that a process whose socket accepts a
  connection goes on running, is assumed. A stopped process among the candidates
  would hold up a restore beyond its deadline. None for the GC, the crash, the
  operator, or the other processes.

## 5. Proofs

All theorems are checked by tlapm from nothing. The assumptions are
`JobAssumption` (the work items are finitely many), `ShimAssumption` (types of
the constants; at least one shard; `ShardOf` maps each address to a shard),
`CheckpointAssumption` (types; at least one attempt), `PromoteAssumption`
(types), `RestoreAssumption` (types; the processes are finitely many and have numbers,
the restored one is among them), `WorkersAssumption` (types; at least one worker; an
allocation has at least one cell; what is in the `device.bin` of an image that is on disk
at first is what its entries say, and if it was cut off an entry shows it), `ImagesAssumption` (the paths are finitely many, the staging directory is not
one of them, `None` is nothing else, 0 is a byte, and an application's
allocations have different addresses, as the tracker's map keeps them), `LifeAssumption` (one connection: the requests of one orchestrator, which
sends each when the one before has been answered) and `ManifestAssumption` (types;
words have at least one value). The sets of threads, handles, processes, requests and
connections and the bounds are arbitrary. Every inductive invariant was an invariant of
its run before it was proved.

`ShimProofs`, the tracker

- `TrackerTypeCorrect`.
- `TrackerIsFaithful` (`TrackerFaithful`). Inductive only together with what each
  thread is in the middle of: the handle of a call under way is live, is not
  owned, and belongs to no other call; with it the untrack of one thread cannot
  erase the entry of another.
- `TrackerCounts` (`CallbacksCounted`). The counter is the cardinality of the
  pending host functions; each launch under way belongs to one work item, so that
  the step from "entering" to "callback" or "leaked" keeps the cardinality.

`ShimProofs`, the handlers

- `ShimTypeCorrect` and `StatesAgree` rest on `ShimInv`: types, `StateAgreement`,
  and `ControlInv`, which ties the position of a handler to the request it serves
  and its counters to their bounds.
- `QuiesceIsDrain` (`QuiesceDrains`) rests on `DrainInv`. Work pending since before
  the request is either what the synchronize call is waiting for or a host
  function; it cannot become a kernel; and when the counter is zero there is no
  host function, by `CallbacksCounted`. So the second half of the quiesce needs
  the exact counter, which is why the tracker's theorem is used here.
- `SnapshotIsComplete` (`SnapshotComplete`) assumes that RESTORE is not among the
  requests. `ListInv`: what the application has held since the request and whose
  shard has been visited is in the list; by `TrackerFaithful` what it holds in the
  next shard is in the tracker at the moment that shard is locked.

`CheckpointProofs`

- `WholeInv` carries four theorems: `CheckpointTypeCorrect`, `MetricsAreExact`,
  `MarkedIsWhole` (`CompleteIsWhole`) and `LastGoodIsKept`. None of the invariants
  is inductive alone. `CountInv` says what each position of the operation has
  counted; `FilesInv` says which files the staging directory has at each position
  unless the GC has been there, so that the rename puts a whole image in place;
  `KeptInv` and `MarkedInv` say the same of the image at the path, outside the gap of
  Finalize and unless the GC had been in its staging directory.
- `DumpIsKept` (`DumpSurvives`) needs `Dumped` in addition: from the dump to the rename, and
  after a crash in between, the dump is in the staging directory, which is there; then
  it is in the image, and an operation begun while the process is gone fails at FREEZE
  and does not come as far as Finalize, which would remove it.
- `CheckpointImplementsSlot` (`ImplementsSlot`). Initial states map to initial
  states; of every action `SlotStep` says which step of `ImageSlot` it is, or that it
  is none. The rename is the point: that it installs a whole image is `FilesInv`
  (in `WholeInv`), and that nothing is left at the path is `Cleared`, an invariant
  of its own: from the end of the RemoveAll to the rename there is no directory.

`PromoteProofs`

- `PinnedImageIsKept` (`PinnedIsKept`), for every interleaving with checkpoints and
  the GC. `PromoteInv` adds to the property: `GoodInv` (the ghost `good` is set only
  from the check of the copy on, and then the path is on no list of the GC until
  the promotion returns), `YoungInv` (a copy that is being made or checked is not old, so
  that a plan does not list it), `CheckedInv` (every file is in the copy or still
  to be looked for) and `PinnedInv` (a GC that read the pin file before the pin was
  written finds the pinned image young).

`RestoreProofs`

- `RestoreInv` carries five theorems. `RestoresAreCounted` (`RestoreCounted`) and
  `RestoreTypeCorrect` need only `CountInv`: what each position of the operation has
  counted. `ReportedProcessIsLoaded` (`ReportedIsLoaded`, an action property) needs `LoadInv`:
  a candidate that is about to be sent RESUME has been loaded by this operation and has
  not ended since, or the connection is broken, which is what keeps a new process with
  the same pid from being reported.
- `SecretsKeepOthersOut` (`OwnSecretOnly`), for every assignment of secrets. The secret is
  checked in two halves: the dial shows that the candidate takes the orchestrator's if
  there is one, and only the answer to PING that the candidate has none of its own if
  there is none. `SecretInv` says which half is known at which position.
- `BystandersAreUntouched` (`BystandersUntouched`). `NamedInv`: a process that CRIU has
  named is the first candidate from the moment its socket file is there, and as long as
  it has not been passed over it is the only one that is asked; it stays frozen until its
  RESTORE and its connection stays open. That holds where a connection serves many
  requests; where it serves one, `OneInv` says that no RESTORE arrives anywhere.

`WorkersProofs`

- `BuffersAreAccounted` and `PoolIsBounded` rest on `OwnInv` (a buffer is free, or lost, or
  that of one task of one request) and `CapInv` (of any one size there are no more
  buffers than were in use at a time, and lost). The second needs the first: a new
  buffer is made only when none that is large enough is free, so all of that size are
  in use or lost.
- `WorkersImplementTransfer` (`ImplementsTransfer`). `TaskInv` says of each request: how the
  blocks lie in `device.bin` and which allocations each covers (`LayoutInv`, kept by each
  turn of the coalescing loop); which tasks have a buffer, and what is in it (`HostInv`);
  that, as long as the flag is not set, every task below the index is done or with one
  worker, and that a set flag means an error (`WorkInv`); and that the entries written so
  far are stored where they say (`DrainInv`). So when the workers have ended without an
  error every task has been done, and when the last block has been written nothing is
  left to move. Steps of other requests keep
  `TaskInv`, since none has the same buffer (`Frame`).
- `ShortImagesAreRefused` (`ShortIsRefused`), from `MadeInv`: an image that is not whole has a
  manifest that is cut off or an entry that reaches beyond the end of `device.bin`
  (`Marked`). That a snapshot which ends short leaves such an image needs that the last
  byte given to the stream belongs to an entry, which follows from how blocks
  and parts lie; and a RESTORE that has come past its last entry has read each of them to
  its end.

`LifecycleProofs`

- `LifecycleResumes` (`ResumesWhereItLeft`), from `LifeInv` and `DrainInv` of `ShimProofs`. The
  memory is in one of three places, and the invariant follows it. While SNAPSHOT runs
  (`SaveInv`) what has been copied stays what the device holds: no thread runs, and since
  the quiesce nothing is queued, which is `DrainInv`; this is why the proof needs the
  quiesce and hence the exact callback counter. From the dump until a RESTORE has
  succeeded (`Away`, `AwayInv`) it is in the image, whatever the handler has mapped so
  far and however often RESTORE fails. Afterwards (`ViewInv`) it is on the device
  again. `PtrInv` is the tracker's faithfulness restricted to allocations: streams and
  events are taken by CRIU for good, so that `TrackerFaithful` itself fails after a dump.

`ManifestProofs`

- `OrchestratorReadsItsOwn` (`GoReadsGo`), for manifests of any length. `GoFileWords` finds
  word `j` of entry `i` of what was written where `EntryAt` looks for it; `FlagsRoundTrip`
  packs and unpacks version and flags; `GoRoundTrip` puts them together. The property is
  inductive only with what the ghosts stand for: version 1 has no hashes, and a manifest
  that the shim wrote can be read by the orchestrator only if it is empty
  (`GoReadsEmptyShimFile`), so that no stage of the pipeline carries anything else on.
- `ShimReadsItsOwn` (`ShimReadsShim`), for a counter of any width. `RankIsPlace` and
  `RankIsPermutation`: of two entries one comes before the other, and then has the lower
  rank; so ranks are different, and by counting every place is taken.
  `RestoreOrderIsSort` says that no entry is lost or repeated, and that entries in
  order are left alone.

`ImagesProofs`

- `ImagesRestorable` (`Restorable`), for any number of images, chains of any length and
  layouts of any size. `IInv` says of every image: `ImageOK` (what it is made from is there
  and agrees with the CRCs if it is not a delta; a delta is never compressed, because
  `WriteDelta` has materialized it; the records lie within the patch), `TruthOK` (its CRCs
  are those of what the device held), and of every image that is not stale: `LinksOK`,
  every delta in its chain fits the parent it names (`DeltaOK`: each byte of a chunk is in the
  patch, or the parent has the chunk with the same CRC). The property alone is not
  inductive: it says what an image materializes to now, and only the links say that it
  does so again once its `device.bin` or those of its ancestors have been rewritten or
  deleted. `Rebuild` goes down the chain: where no chunk has moved,
  `ApplyDelta` on a parent that agrees with its manifest makes an image that agrees with
  its own (`ApplyHolds`). `DeltaImageIs` shows that `WriteDelta` makes such a delta: the
  chunks in the patch lie one after the other (`ChunkUnique`, `ChunkExists`), so that each
  record finds its bytes. Materialization, compression and the deletion of `device.bin`
  change neither manifests nor links (`Kin`, `AlikeLinks`), and what is not made from
  a path does not depend on it (`ChainAgree`, `OthersLinks`); the GC breaks chains but
  makes none wrong.
- `ImagesNoDriftIsSame` (`NoDriftIsSame`), from the same invariant. What an intact image
  materializes to agrees, chunk by chunk, with the CRCs of its manifest (`ContentsIs`, from
  `RestorableOne`), so that it is enough to compare what the manifests list. That the left manifest's
  entries are all in the right one is what is compared; that the right one has no others
  follows by counting, since they are as many and a manifest has an address once
  (`SameMembers`).
- The recursive functions are unfolded by `Recursion` and reasoned about by `Induction`. The
  library's induction theorems take an operator, which the provers cannot instantiate;
  that a set of numbers which is not empty has a least element (`Least`, from the
  well-foundedness of `<`) needs none, and both follow from it with sets and functions.

## 6. Only model-checked

Liveness (`RequestAnswered`, `ParkedReturns`, `TransferEnds`, `OperationEnds`,
`RestoreEnds`, `RestoreCompletes`), which is out of the prover's reach. That `TotalBytes`,
the fold over the sizes, is a sum is not proved; no property depends on it.

## 7. Not modelled

- The encoding of RPC messages, STATUS and STATS, the HTTP server, gauges and GC
  counters of the agent, metrics text, logs, reports, benchmarks, health probes,
  command line and configuration: parsing, formatting and dispatch without state
  that other parts depend on.
- Storage tiers and the content store: path helpers and a write-once store no
  reader uses.
- Watch, status, inspect: they read and print. Of drift, the fields of `meta.bin`
  and the report.
- Two orchestrators on one path, and two promotions to one path: the code has
  nothing to keep them apart, so there is nothing to state but the damage.
- Contents of files in `Promote`: a copy that mixes files of two checkpoints is
  not told from one that does not.
- Signal delivery to a thread that holds a lock: `sig_handler` takes `g_mu` and the
  tracker's locks. The modules take a locked region as one step.
- The moment between the start of the server thread and the reading of the secret
  in `ckpt_ipc_init`.
- Stopped processes, which accept connections and never answer.
- Sparse and dedup side files, which nothing reads back; their flags and hashes
  are in `Manifest`.
- Page granularity of `map_at`, contexts, and symbols of modules.
