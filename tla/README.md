# TLA+ verification of blitzinfer

blitzinfer puts one HTTP gateway in front of several large models that share a
single GPU. Exactly one model is resident at a time; the others wait on disk.
When requests arrive for another model, the gateway drains the active engine,
shuts it down, and brings up the next one, overlapping the cold start of the new
engine's subprocess and the reading of its weights into pinned memory with the
drain of the old one.

This directory holds TLA+ models of that program, TLC configurations that check
them on small instances, and proofs for TLAPS. Paths such as `server.py:528`
are relative to `src/blitzinfer/api/` or `src/blitzinfer/loader/`; `docs/` and
`README.md:214` are the repository's own documents.

## 1. Inventory

| Component | State it keeps | Operations | Talks to |
|---|---|---|---|
| **ModelManager** (`server.py:303-796`) | `_queues`, `in_flight`, `engine`, `active_name`, `_swap_task`, `_lock`/`_cv` | `acquire`, `release`, `_dispatcher`, `_do_pipelined_swap`, `_spawn_engine`, `_load`, `_unload`, `_wait_for_gpu_baseline`, `start`, `stop` | routes (futures), swap task, spawn and pool tasks, executor threads, nvidia-smi, go-file |
| **HTTP routes** (`server.py:804-919`) | `app.state.openai_serving_chat` | chat completions (plain and streamed), admin load, unload, status | ModelManager |
| **Process entry** (`server.py:927-991`) | signal handling, pool, preload | `main`, `_shutdown_engine` | ModelManager, SharedPool |
| **GPU barrier** (`patches/0001`) | none; reads `BLITZ_GPU_GO_FILE` from the environment it inherited at its fork | wait for the go-file | go-file on disk |
| **SharedPool** (`shared_pool.py`) | the mapping, `_loaded_model`, `_loaded_layout` | `open`, `close`, `load_shards`, `write_layout_json` | thread pools, the shard files, the layout file |
| **Hand-over** (`server.py:273-291`, `578-614`) | the HF cache, the layout file of each model | `_resolve_shard_paths`, `_populate_pool` | SharedPool, PinnedLoader |
| **PinnedLoader** (`pinned_loader.py`, `patches/0002`) | its mapping, registration with CUDA | attach to the shared pool or fill a private one, yield tensors | layout file, pool file |
| **ProfileCache** (`profile_cache.py`) | a directory of JSON files | key, `get`, `put` | `_spawn_engine`, nvidia-smi |
| **Registry, CLI arguments, scripts** | constants | formatting | – |

### What is hard here

* *Interleaving without a lock.* All coroutines share one event loop and switch
  only at an `await`, but the swap, the spawn task, the pool task, the admin call,
  the requests and the dispatcher all do `await`, in between each other's steps.
  The spawn task installs its engine without the lock (`server.py:676`).
* *One condition variable for everybody.* The dispatcher, the swap's drain loop
  and the admin call sleep on `_cv`, some state changes do not notify it.
* *Partial failure.* A swap has two helpers, started together; one may fail
  while the other goes on. What goes on is an orphan: nobody awaits or cancels it,
  it forks its subprocess when it gets to it, and installs its engine beside the next swap's.
* *Distributed facts.* "The GPU is free" is inferred from `engine is None`, or
  from nvidia-smi with a timeout; the subprocess learns it from a file whose name it
  inherited from an environment variable at the moment of its fork.
* *A label that outlives its contents.* The pool is identified by the name of
  the model loaded last, written only on success.
* *Two opinions about the same files.* Parent and subprocess each look up the
  model's files, at different moments and by different rules, while the HF cache may
  be updated or half downloaded; they meet in the pool by base names alone.
* *Crashes.* Layout files, the pool and the profile cache outlive the gateway; the
  last also the host.
* *Arithmetic at the edges.* Chunks of a shard are rounded up, so the last one may
  be short, or empty.

The full list, with lines, is `hazards` in `PROJECT.json`.

### What makes each component correct

* ModelManager: no request is lost, served twice, or both served and refused;
  the slot count is exact; nobody leaves a queue without being served; nobody sleeps while there is work; a request is only
  served by a live engine of its own model; engines are drained before they
  are taken down; the oldest waiter chooses the next model; at most one load at a
  time; at most one model on the GPU; every request is answered or refused
  and every swap ends.
* GPU barrier: a subprocess touches the GPU only in its own swap, when the old
  engine is gone and the weights are in the pool.
* SharedPool: threads cover each byte of each shard once and stay inside it; a
  load that returned has filled the pool; the label tells what the pool holds;
  every load ends.
* Hand-over and PinnedLoader: an engine that comes up has all shards of its model, all
  from one revision; nobody writes to the pool while it is read; a load that
  cannot succeed fails instead of hanging.
* ProfileCache: a hit is only given for the inputs that were profiled; a
  crash leaves every entry either readable or as good as missing, and costs none
  that was readable.

## 2. Modules

| Module | What it is |
|---|---|
| `ServingContract` | Abstract: what clients are promised. One loaded model, requests that wait, are served, answered or refused. |
| `Gateway` | ModelManager, the routes, the GPU barrier and the subprocesses: the detailed specification, and its properties. |
| `MCGateway` | Constant values for TLC. |
| `GatewayProofs` | Theorems about `Gateway` that hold whatever fails. |
| `GatewaySwapProofs` | Theorems about its swaps, as long as no pool load raises. |
| `GatewayContractProofs` | `Gateway` implements `ServingContract`, if also no waiting caller is cancelled. |
| `GatewayMemoryProofs` | At most one model on the GPU, as long as pool, spawns and VRAM checks do not fail. |
| `GatewayWakeupProofs` | Nobody sleeps on work or waits in vain, and there are only so many swaps. |
| `ShardChunks` | The arithmetic that cuts a shard into chunks. |
| `SharedPool` | `SharedPool.load_shards`, `open`, `close`, byte by byte with its threads. |
| `MCSharedPool` | Constant values for TLC. |
| `NaturalSets` | Lemmas: induction over sets of numbers, and their largest members. |
| `SharedPoolProofs` | Theorems about `ShardChunks` and `SharedPool`, for every number and size of shards and chunks. |
| `WeightHandover` | From the HF cache through the pool and the layout file into an engine: `_populate_pool` and `pinned_loader`. |
| `ProfileCache` | The files of `profile_cache.py`, `get` and the steps of `put`. |
| `ColdStart` | `_spawn_engine` over a series of loads, crashes and reboots: composes the two modules above, and states their properties. |
| `MCColdStart` | Constant values for TLC. |
| `ColdStartProofs` | Theorems about `ColdStart`, whatever fails. |

`ColdStart` EXTENDS `WeightHandover` and INSTANCEs `ProfileCache` as `Cache`. It is a second
view of a swap: `Gateway` has the queues, the drain and the GPU and knows of a
pool load only whether it succeeds; `ColdStart` has what is loaded, and takes from
`Gateway` that one swap ends before the next one starts. In both, the spawn of a swap whose pool load
has raised goes on beside later swaps.

Operators tagged `\* mutant` are deliberately wrong variants, each next to the
definition it stands for. No specification uses them; they are what
`mutants` in `PROJECT.json` substitutes, to show that every property can fail.

### Gateway, variable by variable

| Variable | Code |
|---|---|
| `request`, `asked`, `handler` | a caller of `acquire()`: not called, its future pending (`waiting`), resolved with a handler (`granted`), `released`, `rejected`; `cancelled` while it waited; `leaked` if it was given a slot after that; `lost` if the dispatcher died on it; its model; the engine behind the handler it was given |
| `queues` | `_queues[name]`, a deque of (`enqueued_at`, future) |
| `in_flight`, `engine`, `active_name` | the attributes of the same name; `engine` is the number of the swap that made it |
| `serving_chat` | `app.state.openai_serving_chat`, set by `init_app_state`, deleted by `_unload` (0) |
| `lock`, `parked` | `_lock`; the set of coroutines inside `_cv.wait()` |
| `dispatcher` | `_dispatcher_task`, running, cancelled by `stop`, or dead of an exception |
| `swap`, `swaps`, `target` | `_swap_task` with the place it stands at; how many there have been; the model of each |
| `pool_task`, `spawn_task` | the two tasks of a swap. A spawn task is `launch` up to the fork, `handshake` inside `from_vllm_config`, `init` between `init_app_state` and the installation, `recover` while a failed initialisation waits for its memory |
| `proc` | the EngineCore subprocess: at the `barrier`, `loading` (owns VRAM), `up`, `dying` (still owns VRAM), `gone` |
| `env_go`, `inherited_go`, `go_files` | `os.environ["BLITZ_GPU_GO_FILE"]`, the copy each subprocess inherited, the files on disk; a file is named by its swap |
| `admin` | a call of `/v1/admin/unload` |

An action runs from one `await` to the next, as a coroutine does. What follows
from that:

* `_lock` is held across an `await` only by the admin call, during
  `_unload`. Every other critical section fits in one step, which needs
  `lock = "free"`. (`_cv.wait()` gives the lock up and takes it back: a parked
  coroutine is woken by leaving `parked`, and goes on when the lock is free.)
* One `Dispatch` is one pass of the dispatcher's loop: serve the whole queue of the
  active model, reap a finished swap, perhaps commit to the next one,
  wait. The loop re-enters it after each notification.
* `acquire()`'s second half, and the routes, read nothing that can change: the
  future carries the handler.
* A caller that is cancelled while it waits (`Cancel`, the fault `"cancel"`) leaves its entry in
  the queue. When its turn comes, the entry takes a slot (`server.py:447`), the test of
  `fut.done()` skips it, and nobody returns the slot: the request is `leaked`.
* The dispatcher tests `active_name` and `engine` but reads the handler
  from `app.state`. If it is not there (`DispatcherDies`), the first entry whose
  future is pending has left the queue and has its slot when the `AttributeError` ends the
  dispatcher's task; entries before it that were done have leaked. Nothing is dispatched
  afterwards. An engine without a handler takes two installations that overlap,
  hence the fault `"pool"`; see finding 6.
* `admin_load` and the preload of `main()` are an `acquire()` followed by a
  `release()`, that is, a request like any other.
* With the pool closed (`main()` goes on when `open()` fails) the swap has no
  environment variable, the barrier does nothing, and the spawn happens after the
  unload. `_load` is reached in this mode only, so its other branch has no action.
* nvidia-smi reports the set of processes in `OnGpu`. Its timeout, and its
  error returns, are the fault `"vram"`.
* Clocks: `loop.time()` never runs backwards and may stand still. A stamp is
  therefore that of the latest waiter, or the next number; when all queues are empty it
  starts from 1 again, as only the order is ever used.
* `Stop` comes after the HTTP server has stopped accepting, so nothing is
  submitted afterwards.

`Faults` says what may go wrong: `"pool"` (`_populate_pool` raises), `"spawn"`
(the subprocess dies, `from_vllm_config` or `init_app_state` raises), `"vram"`
(the baseline wait gives up), `"gofile"` (the go-file cannot be created, which the code
logs and ignores), `"cancel"` (a caller is cancelled while it waits).

### SharedPool

Each byte of the pool is named by model, shard and position, so reading the
wrong place, too little or too much is visible. `StartShard` is the outer executor,
`ReadChunk(t, n)` one `preadv` of a chunk thread which may come back short,
`ReadFails` its exception or unexpected end of file. `LoadDone` and `LoadFails` are the
two ways out of the `with` blocks: both wait for the running threads. The
fault `"reopen"` allows `close()` and `open()` between loads.

### WeightHandover, ProfileCache and ColdStart

| Variable | Code |
|---|---|
| `dirs`, `fetched` | `~/.cache/huggingface/hub`: the snapshot directories, and the shards that are in them by now |
| `pooled` | `main()` could open the pool, hence `BLITZ_SHARED_POOL` is set for every load |
| `pool`, `loaded_model`, `loaded_layout` | the mapping, slot by slot; `SharedPool._loaded_model`, `_loaded_layout` |
| `layouts` | the files `/tmp/blitz_shards_<pid>_<model>.json` that this process would find |
| `env`, `go_files` | `BLITZ_SHARDS_LAYOUT` and `BLITZ_GPU_GO_FILE` in the gateway's environment; the go-files on disk. A go-file is named by its load: its real name has the time in it |
| `swap`, `loading`, `pool_task` | the load whose swap is under way (0: none), its model, where its pool task stands |
| `revision`, `layout`, `pending` | what `load_shards` reads: snapshot, offsets, shards not read yet |
| `target`, `spawn_task` | per load: its model; where its spawn task stands, also when its swap has ended without it |
| `inherited`, `sub`, `listed`, `view`, `weights` | per load its subprocess: the environment as of its fork, where it stands, the revision whose files vLLM lists, the layout it has read, the shard it took for each file name |
| `driver`, `hit`, `reading` | what nvidia-smi would answer; per load the result of `profile_cache.get` and what nvidia-smi answered to `put` |
| `entries`, `tmp`, `unsynced` | `<sha16>.json` and `<sha16>.tmp`, each as what can be read from it; entries renamed since the host booted |
| `starts`, `crashes` | loads and restarts so far, bounded by `MaxLoads` and `MaxCrashes` |

What these modules abstract from, and why:

* A shard is one slot of the pool, so offsets are numbers of shards; `SharedPool` and
  `ShardChunks` have bytes, threads and unequal sizes. `load_shards` appears here
  shard by shard, in any order. A shard replaces what its slot held in one step; a failing
  read may leave any of the shards that were not finished `Torn`, neither the old one nor the new.
* Names of shards are shared by all models, as they are in practice
  (`model-00001-of-00002.safetensors`), and revisions of a model may have the same
  names: a wrong shard is then found without an error, the case that matters.
* `_resolve_shard_paths` takes the directory whose commit hash sorts last
  (`server.py:287`, "most recent revision"), and what is in it at that moment.
  vLLM takes the newest revision and downloads what is missing. `Hash` gives the
  order of the hashes, so the two may disagree, and do.
* When the pool task raises (`ReadFails`, or `TooBig`, which needs no fault), `LeaveOrphan` ends the
  swap and leaves its spawn task and subprocess where they are (`server.py:528`, `559-576`). The go-file of that
  load is never made, so an orphan that has forked waits at its barrier for good. One that has
  not forked yet inherits whatever the environment says when it does (`Fork`): the layout path and the
  go-file of a later swap, or no go-file at all after line 544. It then crosses the barrier with that
  swap, or at once, and may come up with another model's shards under the names of its own. `Own(k)` says that
  load `k` waits for its own go-file, and is the exception the properties name.
* What an orphan without its own go-file reads from a slot while a later load
  is filling it would be a mixture; here it is the old shard or the new one. Nothing is claimed of
  such an orphan, so this changes no verdict.
* `put` does not await, so two of them do not overlap (`OpenEntry`), also when two
  loads save their profiles.
* Everything nvidia-smi contributes to a key (driver, GPU name) is one value; the
  configuration, dtype and vLLM version change only with the registry or an installation, that
  is, they behave as part of the model. A number of blocks is told apart by the load
  that measured it, and collisions of the 64-bit key are ignored.
* mmap, `cudaHostRegister`, tensor views and dtypes are pure I/O. Their failures end
  the subprocess, as the fault `"spawn"` does. The threads of a private pool write to
  memory nobody else sees, so one step takes a shard.
* A gateway that ends takes its subprocess with it (`Restart`). Its
  pid may come back, and with it its layout files, or not.

`Faults` here: `"update"` (a newer revision appears in the HF cache), `"download"` (its
files come later, or never), `"read"` (a `preadv` fails), `"spawn"` (the
subprocess or its start fails), `"smi"` (nvidia-smi does not answer), `"disk"` (`put` raises
at any of its steps), `"restart"`, `"reboot"` (the gateway, or the host, ends at
any moment).

### ServingContract

`Gateway!KeepsContract` instantiates it with `loaded <- active_name` and
`closing <- (dispatcher = "cancelled")`. Every step of the gateway is a step of the
contract or leaves it unchanged: models are loaded only on demand, taken away
only when nobody is served, requests are refused only by a failed load
(all waiters of that model together) or a shutdown.

## 3. Runs

| Run | Instance | Checks |
|---|---|---|
| `load_faults` | 2 models, 3 requests, 1 admin call, spawn and vram faults | `NoLostWakeup`, `NoWaitInVain`, `NobodyForgotten`, `ServedByLiveEngine`, `NeverTwoLoads`, `DrainThenSwitch`, `CrossesInOwnSwap` |
| `any_fault` | 2 models, 2 requests, 1 admin call, all faults | `TypeOK`, `QueueIntegrity`, `SlotAccounting` |
| `fault_free` | 3 models, 3 requests, 1 admin call | `OneModelResident`, `GoFileAfterVramIdle`, `OldestWaiterWins` |
| `progress` | 2 models, 2 requests, 1 admin call, spawn and vram faults, fairness | `KeepsContract`, `Answered`, `SwapEnds` |
| `pool_loads` | 3 models, 5 bytes, read errors, reopening, fairness | `TypeOK`, `FreshLoadsAreComplete`, `WritesInsideLayout`, `LoadEnds` |
| `cold_starts` | 3 models, 2 revisions, pool of 2 shards, 2 loads and 1 restart, all faults, with and without a pool, fairness | `TypeOK`, `WeightsOfOneRevision`, `OverrideWasMeasured`, `PoolStableWhileRead`, `EntriesStayComplete`, `LoadEnds` |
| `pool_failure_two_loads`, `vram_timeout`, `load_failure_vram`, `pool_torn_label`, `pool_not_populated`, `request_lost` | see section 4 | a documented claim each, violated |

**Why the bounds are enough.** Two models are enough to swap, to swap back, and to
queue for the active model and another one at once; three are needed only where the
choice among waiting models is the question. Three requests give a swap,
arrivals during it, and a further swap. `MaxSwaps` is the number of
requests plus the number of admin calls; each swap either serves or rejects a request
of its model or is undone by an admin unload before it could, so the bound never
binds, which `SwapsNeverRunOut` proves for every instance. A request is one-shot, which bounds a run; because everything may therefore come
to rest, `CHECK_DEADLOCK` is off for the gateway, and `NoLostWakeup`, `NoWaitInVain`,
`Answered` and `SwapEnds` say what deadlock freedom would. (The pool has no such end:
deadlock is checked there.) Requests are interchangeable, and symmetry is used
in the runs without temporal operators other than `[][A]_vars`. The pool of 5
bytes is filled by shards of 2 and 3 bytes (uneven chunks), and by shards of
1, 0 and 3 bytes (an empty shard, a shard smaller than the number of chunks);
a third model does not fit.

In `cold_starts`, model `a` has two revisions of two shards with the same names, `b` shares a name
with both, and `c` does not fit into the pool. Two loads and a restart are what the
hazards need: a load, then an update or a crash, then a load of the same model (a stale label, layout or profile) or
of another one (a stale pool), the first of which may be an orphan by the time of the second: of a failed
read, or of model `c`, which is too large. The hashes sort in the order of publication in this
run; the theorems cover every order. `MaxLoads` and `MaxCrashes` bound loads and restarts and
do bind, and an orphan may wait at its barrier for ever, which is why `CHECK_DEADLOCK` is off; `LoadEnds` says of each swap what
deadlock freedom would.

**Fairness.** `Gateway!Fairness` is weak fairness of what runs by itself: the event
loop resumes coroutines that are ready (dispatcher, swap, pool task, spawn task),
subprocesses load, the driver reclaims the memory of a dead process, an
engine finishes its answers. Requests, admin calls, `Stop` and
all failures are not fair: nobody has to call, nothing has to fail. An admin
call that has begun goes on. The lock needs no strong fairness, as only one
coroutine at a time holds it across an `await` and gives it back in a bounded
time. In `SharedPool`, threads run and `preadv` returns. In
`ColdStart` one weak fairness condition covers all steps of a load together: the tasks, the
subprocess and a download that vLLM has begun do not all stop while one
of them can go on. This is weaker than fairness of each, and enough, because no step of a load
undoes another, and orphans have only so many. New loads, updates, crashes and failures need not happen.

**What `Answered` does not say.** The requests of a run are finitely many. With
an endless stream of requests for the active model, a committed swap would wait
for ever for an empty queue (`server.py:513`); `docs/DESIGN.md:110` accepts that.

## 4. Where code and documents disagree

1. **Two loads in parallel** (`pool_failure_two_loads`). `docs` and README
   (`README.md:214`) promise that two subprocesses never load in parallel. When
   `_populate_pool` raises, `await pool_task` (`server.py:528`) leaves the swap
   through its `except` branch, which rejects the queue but does not
   await or cancel the spawn task. The dispatcher starts the next swap, and
   with it a second `from_vllm_config`. Further consequences, seen with larger
   instances: the orphan, if its fork is late enough, inherits the go-file name
   of the next swap, and both load on the GPU (`OneModelResident` fails); and an
   orphan that installs its engine notifies nobody (`NoLostWakeup` fails, as a later swap
   sleeps in its drain although the queue is empty). This is why the safety runs that
   need it leave `"pool"` out; without it `OneLoadAtATime` proves the claim.
2. **Go-file after a timeout** (`vram_timeout`). `docs/DESIGN.md:156-157` says that
   the file is touched only after `_unload()` confirms idle VRAM.
   `_wait_for_gpu_baseline` returns its last reading when its time is over
   and the swap goes on.
   `GoFilesOnIdleGpu` proves the claim for checks and loads that do not fail.
3. **Go-file after a failed load** (`load_failure_vram`). The same claim, without any
   timeout: a load that died on the GPU installs no engine, so the next swap skips
   `_unload`, which is the only place that looks at nvidia-smi.
4. **Torn pool** (`pool_torn_label`). A load that fails half-way leaves the label
   of the previous model on a pool with bytes of both; the next load of that
   model is answered with the old layout (`shared_pool.py:154`) and its
   weights are wrong. `docs/ARCHITECTURE.md:244-248` describes the pool as holding one
   model at a time. As long as no read fails it does: `LabelTellsContentsUndisturbed`.
5. **Shared-pool mode with an empty pool** (`pool_not_populated`). When no shards are found,
   `_populate_pool` logs that the "subprocess will use private pool"
   (`server.py:596`) and returns, but the environment was set before (`:495-499`): the
   loader opens a layout file that does not exist. The first load of a model that is
   not downloaded yet fails after its download; the second one works. If the
   layout file of an earlier load is there, it is read over whatever the
   pool holds now. `PoolIsPopulated` proves the comment for models that are downloaded
   completely beforehand and fit the pool, if no read fails.
6. **A request lost, and the dispatcher with it** (`request_lost`). The class docstring (`server.py:308-309`)
   calls the queues "the source of truth for what's pending". A failed pool load leaves
   an orphan, so that two spawns install their engines; an admin unload of the first engine
   comes between `init_app_state` and `self.engine = engine` of the second, deletes its handler,
   and gives up waiting for VRAM after 30 s, as the second engine is on the GPU. The dispatcher then finds an engine, takes a
   request out of its queue, counts it, and raises `AttributeError` at `:450`. Its task ends, and
   nobody looks at it before `stop()`: this request is in no queue, and
   all others wait for ever. `NobodyIsForgotten` proves that, unless callers are
   cancelled, it takes a failed pool load.

Not counted as findings, because the run would show no more than reading does:

* *Stale profiles.* The docstring of `profile_cache.py` (lines 8-15) lists the resolved
  revision and the dtype in the key, "any change → cache miss". The key (`:82-91`) has neither, so a new
  revision is loaded with the number of blocks of the old one. `ProfilesFitRevision` proves that this
  takes an update.
* *The admin unload does not drain.* Its comment (`server.py:869-871`) says that it drains "whatever's
  pending" and goes through `acquire()`. The code takes the lock and waits only for
  `in_flight` (`:873-874`): requests that wait for the active model stay queued, and are
  served after another swap. `DrainThenSwitch` states what does hold: nobody is being
  served at an admin unload, but somebody may wait.
* *Reuse of the pool.* `_populate_pool`'s docstring promises "a fresh, complete file"
(`server.py:588`) also when the pool is reused, where it is the layout of the earlier
  load, perhaps of an older or half-downloaded snapshot; and "most recent revision"
  (`:287`) is the last hash in alphabetical order. In both cases the engine either
  has one complete revision (not always the newest) or fails to load, which is what
  `WeightsOfOneRevision` says.

With `"gofile"` in `Faults`, `SwapEnds` and `NoWaitInVain` fail: the subprocess stays at the
barrier. The code logs the error and no document makes a claim, so it is listed as a
hazard only, and the runs and theorems of these two leave the fault out. So it is with `"cancel"`,
under which `NobodyForgotten`, `NoWaitInVain` and the contract fail: no route cancels `acquire()`, and nothing
is written about it.

## 5. Proofs

`GatewayProofs`, for every set of models, requests and admin calls, every bound
`MaxSwaps` and **every set of faults**:

* `TypeCorrect`: `Spec => []TypeOK`.
* `QueuesKept`: `Spec => []QueueIntegrity`. A waiting request stands in its queue, once;
  at most one is ever lost, with the dispatcher.
* `SlotsCounted`: `Spec => []SlotAccounting`. Slots are those of the requests being
  served and of the requests that `leaked` or were `lost`.
* `OldestFirst`: `Spec => OldestWaiterWins`.

The first three come from one inductive invariant, the conjunction of `TypeOK`,
`TargetKnown`, `QueueIntegrity` and `SlotAccounting`. None of the last two is inductive
alone. A batch is granted as a set of requests but counted as the
length of a queue, so the count is right only because a queue holds each request
once (`QueueIntegrity`); and `release()`'s clamp is harmless only because
`in_flight` is at least one while somebody is granted. `TargetKnown` says that
a swap under way has a model, so that a failed load empties a queue that exists. The queue lemmas
(append, emptying some queues, granting a batch) are stated once, and the step proof has
one case per action of `Next`. `OldestFirst` adds the invariant that stamps
do not decrease along a queue, which `Acquire` keeps because its stamp is no
earlier than any queued one; the dispatcher looks only at heads, and this is what makes
heads enough.

The proofs use the named assumptions of `Gateway`, among them that `Requests` is
finite, needed to count.

`GatewaySwapProofs` and `GatewayContractProofs`, for the same constants and every
set of faults **without `"pool"`** (the last two also without `"cancel"`), the fault under which section 4 shows the
first and the fifth of them false:

* `OneLoadAtATime`: `Spec => []NeverTwoLoads`.
* `ServedByTheRightEngine`: `Spec => []ServedByLiveEngine`.
* `DrainedBeforeSwitched`: `Spec => DrainThenSwitch`.
* `BarrierHolds`: `Spec => CrossesInOwnSwap`.
* `NobodyIsForgotten`: `Spec => []NobodyForgotten`.
* `GatewayKeepsContract`: `Spec => KeepsContract`, the refinement.

All rest on `ServingInvariant`, which adds to the invariant above:

* `SpawnInSwap`: a spawn task under way is that of the current swap, and the swap
  stands where it has started it and not yet awaited it. This is the part that
  `"pool"` breaks, and it alone gives `NeverTwoLoads`.
* `SpawnStages`: how far a spawn task and its subprocess can be apart.
* `BarrierKept`: in pool mode the environment names the go-file of the
  current swap as long as its subprocess may still fork, so that the
  subprocess inherits its own; that file exists only from the end of the
  pool stage on.
* `EngineInstalled`: while a subprocess is on the GPU for a spawn task, its swap
  has reached the spawn and no engine is installed; what is installed fits together
  (`engine`, `active_name`, the handler, the process).
* `ServedNow`: whoever is served has the installed engine. A change of engine
  needs `in_flight = 0`, and `SlotAccounting` turns that into "nobody is
  served": the slot count is what makes the drain mean anything.

`NobodyIsForgotten` follows from `EngineInstalled`: an installed engine has its handler, as
nobody else can install or unload one between the two halves of its own installation.
`ServingInvariant` was checked by TLC, on the instance of `any_fault` without `"pool"`,
before it was proved. For the refinement, `Demand` adds that a swap which is going to
load its model still has somebody waiting for it, or the gateway is
closing; without it `InstallEngine` would not be a `Load` of the contract, which
only demand permits.

`GatewayWakeupProofs`:

* `CallersAwakeUnderAnyFault`, for **every set of faults**: no admin call sleeps that could go on
  (`AdminsIdle`), nor does the dispatcher while it may still commit to a swap (`DispatcherIdle`). This is
  about a dispatcher whose task lives; that it does is `NobodyIsForgotten`.
* `SwapsNeverRunOut`, without `"pool"`: the dispatcher never has a model to swap to and
  no swap left. It assumes of `MaxSwaps` only that it is at least the number of
  requests and admin calls, as every configuration has it.
* `NobodySleepsOnWork`, under the same conditions: `Spec => []NoLostWakeup`.

`NoLostWakeup` alone is false in a run that `MaxSwaps` cuts short, so its proof has to count. `Budget`
says that every swap but the latest has been paid for, by a request that has left its queue
or by an admin call that has unloaded; the latest one is paid as soon as it
installs its engine or fails. A swap starts only while somebody waits, who has paid for
nothing yet, hence there is one left. The rest of the invariant follows the steps that
change what a sleeper waits for: most of them notify, and those that do not are shown
to come when nobody can be asleep on them. The spawn task installs its engine, silently,
while its swap is awaiting it and not asleep in the drain (`SpawnAwaited`). This is also where `"pool"` is needed: an
orphan of a failed pool load installs its engine while a later swap sleeps in its drain.

* `NobodyWaitsInVain`, without `"pool"`, `"gofile"` and `"cancel"`: `Spec => []NoWaitInVain`.

`NoWaitInVain` is the safety part of `SwapEnds`, and of deadlock freedom. Each wait of the gateway (the
lock during an admin unload, the drain, the baseline, the pool task, the spawn) is
for a step of somebody else, and that step can be taken. It is not about one waiter: the drain
depends on the dispatcher not sleeping while the active queue is filled (`ActiveServed`), the
baseline on nobody coming up meanwhile, the lock on the swap not getting past its drain
(`LockHeld`), and the spawn on a go-file that is there and that the subprocess has inherited
(`GateOpen`, with `BarrierKept`). With `"pool"` it is
false: an orphan of a failed pool load installs its engine during the next swap, an admin call takes
it down and then waits, lock in hand, for a GPU on which that swap's subprocess is loading
(until its timeout, which is the fault `"vram"`).

`SharedPoolProofs`, for all models, any number and sizes of shards, any number of chunks and of
threads, and **every set of faults** but for the last theorem:

* `ChunksCover` and `ChunksDisjoint`: each byte of a shard is in some submitted chunk, in at most
  one, and chunks stay inside the shard.
* `OneThreadPerByte`: the same for all shards of a load together and for where
  the bytes go: no two threads write to the same place in the pool.
* `PoolTypeCorrect`: `Spec => []TypeOK`; no thread leaves its chunk.
* `FreshLayoutsAreComplete`: `Spec => []FreshLoadsAreComplete`.
* `LoadsWriteInsideLayout`: `Spec => WritesInsideLayout`.
* `LabelTellsContentsUndisturbed`, without `"read"` and `"reopen"`: `Spec => []LabelTellsContents`.

The offsets of the shards are a recursive function over the sizes, as in the code's loop. That they do not
decrease, and that a shard ends no later than the next one begins, is an induction over the shards
(`OffsetsAscend`). The library states its induction theorems about an
operator, which cannot be instantiated here; `NaturalSets` states the same about a **set** of numbers,
proved from the well-foundedness of `<`, and the property to be shown becomes the set of the numbers that have it. With the
offsets in order, threads of different shards are apart, and those of one shard
by `ChunksDisjoint`. `ReadSoFar`, the inductive invariant, says that everything between the start of a
chunk and its thread's position is in the pool, where it belongs: a
`preadv` of another thread cannot have touched it. When all threads
have come to their ends without an exception, the chunks that cover the shards are all there.

`GatewayMemoryProofs`, for every set of faults without `"pool"`, `"spawn"` and `"vram"`:

* `OneModelOnGpu`: `Spec => []OneModelResident`.
* `GoFilesOnIdleGpu`: `Spec => GoFileAfterVramIdle`.

`Resident` adds to `ServingInvariant` who may have memory: a dying process only while a
swap waits for the baseline or an admin call holds the lock, a process that is up only
as the installed engine, and nobody when the swap stands between the baseline and the
go-file. The step that needs it is the one that skips the check: a swap which finds no
engine goes straight on, and the GPU is idle then because the last engine left
under somebody's wait for the baseline (`IdleWithoutEngine`). `vram_timeout` and
`load_failure_vram` show that `"vram"` and `"spawn"` cannot be allowed.

`ColdStartProofs`, for all models, revisions, layouts of files, orders of hashes, pools, bounds and
**every set of faults**:

* `TypeCorrect`: `Spec => []TypeOK`. That a shard lands inside the pool needs
  `LayoutInPool`: the number of smaller shards is less than the number of
  all, a fact about cardinalities.
* `WeightsAreOfOneRevision`: `Spec => []WeightsOfOneRevision`. The invariant `Handed`
  has three parts: while the pool is filled, the shards read so far are where the
  layout puts them, and no two share a slot (`LayoutInjective`); unless reads fail the
  label is wrong only during a fill, and the layout file of a load that got `"ok"` is
  the label's; what the loader of a load with its own go-file took is what the pool holds at the places
  in its view. The last one survives because nobody fills while such a subprocess reads: its go-file is
  only made when the pool task has ended well, and then the swap awaits it. That go-files are not
  taken for each other is `EnvControl`: the go-file of a load is made by its own swap only, an orphan's
  never is, and an environment that names the go-file of `k` names the layout of `k`'s model.
* `PoolIsStableWhileRead`: `Spec => PoolStableWhileRead`, from the same.
* `OverridesWereMeasured`: `Spec => []OverrideWasMeasured`, from `Kept`: what is
  filed under a key, in the entry and in the temporary file, was measured under it.
* `SavedEntriesStay`: `Spec => EntriesStayComplete`; `Kept` says that the
  file which is renamed is complete, and that there is one `put` at a time although orphans save, too.

`WeightsOfOneRevision` has three exceptions: an orphan that forked late (`~Own(k)`, from finding 1), a
load that found no shards (finding 5), and a pool that a failed read has torn (finding 4; without the
fault `"read"` this exception is not needed). None of them is idle. Without the first, TLC finds an orphan
that comes up with another model's shards after two loads; and `PoolStableWhileRead` without its
`Own(k)` is violated after three loads with no fault at all, by the orphan of the model that is too large
for the pool. Three theorems say what holds where the exceptions cannot occur:

* `PoolIsPopulated`: without `"download"` and `"read"`, if every model has a
  snapshot at the start and every revision has shards (`AllDownloaded`) and fits the pool
  (`AllFit`), `Spec => []SharedPoolIsPopulated`,
  the claim of finding 5. `Found` is its invariant: the snapshot which the
  parent looks up exists and is complete, the last one by name as well as the newest
  (`PickedSnapshots`, which needs that a finite set has a largest member), so no pool
  load returns early or raises, and there are no orphans (`NoOrphan`).
* `EveryEngineIsWhole`, under the same conditions: every engine that comes up has all its shards
  from one revision of its own model. The three exceptions cannot occur, which is what is proved.
* `ProfilesFitRevision`: without `"update"`, `Spec => []HitsAreOfThisRevision`, the claim of
  the docstring of `profile_cache.py`, from the invariant that there is one revision (`OneRevision`).

Model-checked only: `Answered`, `SwapEnds` and the two `LoadEnds`, liveness under fairness and
`ENABLED`, which this prover does not treat. Every invariant and every action property of a passing run is
proved. No module uses `RECURSIVE`.

## 6. Not modelled

* **Abandoned requests.** If a client disconnects, whether the handler is cancelled
  at `server.py:897`, or a stream's generator is never iterated (`:919`), depends on
  Starlette, anyio and uvicorn, which are not in this repository. In both cases the slot would
  leak, and also if `_release_once` is cancelled while it waits for the lock, because
  `released` is already set (`:893`). Only a caller cancelled while it waits is modelled (`Cancel`).
* **Statistics, `/health`, `/v1/models`, `/v1/admin/status`, logging**: read-only or
  write-only.
* **An engine that dies while it is active**: the code does not react to it.
* **The end of the process.** `Stop` is in `Gateway`, a restart at any moment in
  `ColdStart`. What `_shutdown_engine` leaves behind in the middle of a swap is
  decided by `asyncio.run`, which joins the executor that waits for the subprocess, and by
  vLLM's finalizers.
* **Environment variables of a model that leak into later loads** (`server.py:621`):
  `docs/DESIGN.md:238-252` knows of it; the effect is inside vLLM's compile cache.
* **REGISTRY, `args_for`, installation scripts**:
  configuration and formatting.

## 7. Plan

Done: the gateway (`Gateway`, `ServingContract`), the pool (`SharedPool`, `ShardChunks`), and
the loads (`WeightHandover`, `ProfileCache`, `ColdStart`), with their runs and the
theorems above.

Left, in this order:

1. A common abstract specification of a pool load (the label, whether the pool still holds what
   the label says, and who may spoil it) that `SharedPool` and the fill of `WeightHandover`
   both implement. The one does not implement the other, as slots are equal and shards are not.
2. Abandoned requests that hold a slot, as a fault of `Gateway`, once the behaviour of the web server is
   pinned down.
