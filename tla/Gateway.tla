------------------------------- MODULE Gateway -------------------------------
(***************************************************************************)
(* ModelManager of blitzinfer/api/server.py and the routes on top of it:   *)
(* a FIFO of waiting requests per model, one dispatcher coroutine that     *)
(* hands them to the live engine and commits to the next model, one swap   *)
(* task at a time that drains, unloads and loads, the task that spawns the *)
(* engine's subprocess, the task that fills the weight pool, and the admin *)
(* call that unloads the engine by hand.                                   *)
(*                                                                         *)
(* Coroutines switch only where they await, so an action runs from one     *)
(* await to the next.  The one lock (manager._lock, under manager._cv) is  *)
(* held across an await only by the admin call; everybody else takes and   *)
(* returns it inside one step, which therefore needs it to be free.  The   *)
(* condition variable is the set of coroutines parked in cv.wait().        *)
(*                                                                         *)
(* The n-th swap is attempt n.  Its engine, its spawn task, its subprocess *)
(* and its GPU go-file are all named by n; 0 stands for "no attempt".      *)
(***************************************************************************)
EXTENDS Naturals, Sequences, FiniteSets

CONSTANTS
  Models,      \* the keys of REGISTRY
  Rank,        \* the order of the model names, used to break ties
  Requests,    \* one call of acquire() each
  Unloaders,   \* one call of /v1/admin/unload each
  None,        \* no model
  MaxSwaps,    \* bound on the number of swaps
  Faults       \* what may fail: "pool", "spawn", "vram", "gofile", "cancel"

ASSUME ModelsAssumption == /\ None \notin Models
                           /\ Rank \in [Models -> Nat]
                           /\ \A m, n \in Models : Rank[m] = Rank[n] => m = n
ASSUME RequestsAssumption == IsFiniteSet(Requests)
ASSUME UnloadersAssumption ==
         Unloaders \cap {"dispatcher", "swap", "free"} = {}
ASSUME BoundsAssumption == MaxSwaps \in Nat

Attempts == 1..MaxSwaps
Engines  == 0..MaxSwaps

VARIABLES
  \* the clients' view
  request,       \* idle, waiting, granted, released or rejected; or cancelled,
                 \* leaked when it had a slot by then, lost with the dispatcher
  asked,         \* the model a request names
  handler,       \* the engine whose serving handler acquire() returned
  \* the ModelManager
  queues,        \* _queues: per model the waiting requests with their stamps
  in_flight,
  engine,        \* the attempt whose engine is installed
  active_name,
  serving_chat,  \* app.state.openai_serving_chat, by the engine it talks to
  lock,          \* "free", or the admin call that holds it while it waits
  parked,        \* the coroutines inside cv.wait()
  dispatcher,    \* running, cancelled, or dead of an exception
  \* the swap task and the two tasks it starts
  swap,          \* none, or where the swap task stands, or done until reaped
  swaps,         \* attempts made so far; the last one is the current swap
  target,        \* the model of each attempt
  pool_task,     \* none, running, ok or err; closed when there is no pool
  spawn_task,    \* per attempt
  \* processes, files, environment
  proc,          \* the EngineCore subprocess of each attempt
  env_go,        \* os.environ["BLITZ_GPU_GO_FILE"], 0 when unset
  inherited_go,  \* the same in each subprocess, as of its fork
  go_files,      \* the go-files that exist on disk
  \* /v1/admin/unload
  admin

clients == <<request, asked, handler>>
serving == <<engine, active_name, serving_chat>>
tasks   == <<swap, swaps, target, pool_task, spawn_task>>
system  == <<proc, env_go, inherited_go, go_files>>
control == <<lock, parked, dispatcher, admin>>
vars    == <<clients, queues, in_flight, serving, tasks, system, control>>

Coroutines == {"dispatcher", "swap"} \cup Unloaders
-----------------------------------------------------------------------------
(* Queues.                                                                 *)

InQueue(m) == {queues[m][i].req : i \in 1..Len(queues[m])}
Stamps     == UNION {{queues[m][i].at : i \in 1..Len(queues[m])} : m \in Models}

\* loop.time() read by acquire(): no earlier than any stamp still queued, and
\* possibly the same as the latest one.
Clock(at) == IF Stamps = {} THEN at = 1
             ELSE \E latest \in Stamps : /\ \A s \in Stamps : s <= latest
                                         /\ at \in {latest, latest + 1}

\* The queues the dispatcher may commit to, and the order between their heads.
Candidates == {m \in Models \ {active_name} : queues[m] # <<>>}
OnlyByName(m, n) == Rank[m] < Rank[n]                          \* mutant
OlderHead(m, n) ==
  \/ Head(queues[m]).at < Head(queues[n]).at
  \/ Head(queues[m]).at = Head(queues[n]).at /\ Rank[m] < Rank[n]
PickAnyModel(m) == m \in Models \ {active_name}                \* mutant
PickNext(m) == /\ m \in Candidates
               /\ \A n \in Candidates \ {m} : OlderHead(m, n)

NotifyOne == \/ parked = {} /\ parked' = {}                    \* mutant
             \/ \E c \in parked : parked' = parked \ {c}
Notify == parked' = {}
Park(c) == parked' = parked \cup {c}
Awake(c) == lock = "free" /\ c \notin parked
-----------------------------------------------------------------------------
(* The GPU and the barrier in front of it.                                 *)

OnGpu    == {"loading", "up", "dying"}
Holders  == {k \in Attempts : proc[k] \in OnGpu}
VramIdle == Holders = {}

\* _wait_for_gpu_baseline() returns when nvidia-smi shows an idle GPU, and
\* also when its timeout expires.
NoBaseline == TRUE                                            \* mutant
BaselineReturns == VramIdle \/ "vram" \in Faults

\* The worker's loop on BLITZ_GPU_GO_FILE, a no-op without the variable.
ReleasedByAnyFile(k) == inherited_go[k] = 0 \/ go_files # {}   \* mutant
Released(k) == inherited_go[k] = 0 \/ inherited_go[k] \in go_files

Init ==
  /\ request = [r \in Requests |-> "idle"]
  /\ asked = [r \in Requests |-> None]
  /\ handler = [r \in Requests |-> 0]
  /\ queues = [m \in Models |-> <<>>]
  /\ in_flight = 0
  /\ engine = 0 /\ active_name = None /\ serving_chat = 0
  /\ lock = "free" /\ parked = {} /\ dispatcher = "running"
  /\ swap = "none" /\ swaps = 0 /\ target = [k \in Attempts |-> None]
  /\ pool_task \in {"none", "closed"}    \* main(): the pool may not open
  /\ spawn_task = [k \in Attempts |-> "none"]
  /\ proc = [k \in Attempts |-> "none"]
  /\ env_go = 0 /\ inherited_go = [k \in Attempts |-> 0] /\ go_files = {}
  /\ admin = [u \in Unloaders |-> "idle"]
-----------------------------------------------------------------------------
(* Requests.                                                               *)

\* acquire() up to its await: stamp, append, notify.  The stamp is taken before
\* the lock, which is granted in the order it is asked for.
Acquire(r, m, at) ==
  /\ lock = "free" /\ dispatcher # "cancelled"
  /\ request[r] = "idle"
  /\ Clock(at)
  /\ request' = [request EXCEPT ![r] = "waiting"]
  /\ asked' = [asked EXCEPT ![r] = m]
  /\ queues' = [queues EXCEPT ![m] = Append(@, [req |-> r, at |-> at])]
  /\ Notify
  /\ UNCHANGED <<handler, in_flight, serving, tasks, system,
                 lock, dispatcher, admin>>

\* The task that awaits acquire() is cancelled, and with it the future.  Its
\* entry stays in the queue.
Cancel(r) ==
  /\ "cancel" \in Faults
  /\ request[r] = "waiting"
  /\ request' = [request EXCEPT ![r] = "cancelled"]
  /\ UNCHANGED <<asked, handler, queues, in_flight, serving, tasks, system, control>>

\* release(): a clamped decrement.
ReleaseTwice == in_flight' = in_flight - 2 /\ Notify           \* mutant
ReleaseSilently == in_flight' = in_flight - 1 /\ UNCHANGED parked   \* mutant
ReleaseSlot == /\ in_flight' = IF in_flight > 0 THEN in_flight - 1 ELSE 0
               /\ Notify

\* A chat completion ends (answer, error, or end of stream), and with it the
\* slot; _release_once makes that happen once.
Finish(r) ==
  /\ lock = "free"
  /\ request[r] = "granted"
  /\ request' = [request EXCEPT ![r] = "released"]
  /\ ReleaseSlot
  /\ UNCHANGED <<asked, handler, queues, serving, tasks, system,
                 lock, dispatcher, admin>>

\* What becomes of a request whose future is set to s, unless it is done.
Resolved(r, s) == IF request[r] = "waiting" THEN s ELSE request[r]

\* Every request still in the queue of a model in M is refused.
RejectWithoutClear(M) ==                                      \* mutant
  /\ request' = [r \in Requests |-> IF \E m \in M : r \in InQueue(m)
                                      THEN Resolved(r, "rejected") ELSE request[r]]
  /\ UNCHANGED queues
RejectQueues(M) ==
  /\ request' = [r \in Requests |-> IF \E m \in M : r \in InQueue(m)
                                      THEN Resolved(r, "rejected") ELSE request[r]]
  /\ queues' = [m \in Models |-> IF m \in M THEN <<>> ELSE queues[m]]
-----------------------------------------------------------------------------
(* The dispatcher: one pass of its loop, up to cv.wait().                  *)

Live == active_name # None /\ engine # 0
Batch == IF Live THEN InQueue(active_name) ELSE {}
OneSlot == IF Batch = {} THEN 0 ELSE 1                        \* mutant
Slots == IF Live THEN Len(queues[active_name]) ELSE 0

Served == {r \in Batch : request[r] = "waiting"}

\* Each entry takes a slot, also one whose future is done: nobody is served in
\* that slot, and nobody gives it back.  Without an engine's handler this goes
\* on only as long as nobody asks for it.
ServeActive ==
  /\ serving_chat = 0 => Served = {}
  /\ request' = [r \in Requests |-> IF r \in Served THEN "granted"
                                     ELSE IF r \in Batch THEN "leaked" ELSE request[r]]
  /\ handler' = [r \in Requests |-> IF r \in Served THEN serving_chat ELSE handler[r]]
  /\ in_flight' = in_flight + Slots
  /\ queues' = IF Live THEN [queues EXCEPT ![active_name] = <<>>] ELSE queues

\* Reap a finished swap, then start the next one if somebody waits for another
\* model and no swap is running.
NoSwap == swap \in {"none", "done"}

Commit(m) ==
  /\ NoSwap /\ swaps < MaxSwaps /\ PickNext(m)
  /\ swaps' = swaps + 1
  /\ target' = [target EXCEPT ![swaps + 1] = m]
  /\ swap' = "start"

NoCommit ==
  /\ ~NoSwap \/ Candidates = {} \/ swaps = MaxSwaps
  /\ swap' = IF NoSwap THEN "none" ELSE swap
  /\ UNCHANGED <<swaps, target>>

Dispatch ==
  /\ Awake("dispatcher") /\ dispatcher = "running"
  /\ ServeActive
  /\ NoCommit \/ \E m \in Models : Commit(m)
  /\ Park("dispatcher")
  /\ UNCHANGED <<asked, serving, pool_task, spawn_task, system,
                 lock, dispatcher, admin>>

\* The first i entries of the active queue.
Taken(i) == {queues[active_name][j].req : j \in 1..i}

\* An engine without a handler: the lookup raises when the first of those who
\* still wait has left the queue and has its slot.  The dispatcher's task ends;
\* nobody looks at it before stop().
DispatcherDies ==
  /\ Awake("dispatcher") /\ dispatcher = "running"
  /\ Live /\ serving_chat = 0
  /\ \E i \in 1..Slots :
       LET r == queues[active_name][i].req IN
       /\ request[r] = "waiting"
       /\ \A x \in Taken(i - 1) : request[x] # "waiting"
       /\ request' = [x \in Requests |-> IF x = r THEN "lost"
                                          ELSE IF x \in Taken(i) THEN "leaked"
                                          ELSE request[x]]
       /\ queues' = [queues EXCEPT ![active_name] = SubSeq(@, i + 1, Len(@))]
       /\ in_flight' = in_flight + i
  /\ dispatcher' = "dead"
  /\ UNCHANGED <<asked, handler, serving, tasks, system, lock, parked, admin>>

\* stop(): refuse whatever is queued and cancel the dispatcher.  The server
\* has stopped accepting requests by then.
Stop ==
  /\ lock = "free" /\ dispatcher # "cancelled"
  /\ RejectQueues(Models)
  /\ dispatcher' = "cancelled"
  /\ Notify
  /\ UNCHANGED <<asked, handler, in_flight, serving, tasks, system, lock, admin>>
-----------------------------------------------------------------------------
(* Unloading, by a swap or by the admin call.                              *)

\* _unload() up to its first poll of nvidia-smi.
TakeDownTooLate ==                                            \* mutant
  /\ proc' = [proc EXCEPT ![engine] = "dying"]
  /\ serving_chat' = 0 /\ UNCHANGED <<engine, active_name>>
TakeDown ==
  /\ proc' = [proc EXCEPT ![engine] = "dying"]
  /\ engine' = 0 /\ active_name' = None /\ serving_chat' = 0

\* Nobody is served and nobody waits for the active model.
DrainedQueueOnly == active_name # None => queues[active_name] = <<>>   \* mutant
DrainedInFlightOnly == in_flight = 0                          \* mutant
Drained == /\ active_name # None => queues[active_name] = <<>>
           /\ in_flight = 0
-----------------------------------------------------------------------------
(* The swap task.                                                          *)

SwapStep(from, to) == swap = from /\ swap' = to

\* self.shared_pool is not None
UsePool == pool_task # "closed"

\* Point the environment at this swap's go-file and start the pool and spawn
\* tasks.  Without a pool there is nothing to do before the drain.
SwapStart ==
  /\ SwapStep("start", "drain")
  /\ IF UsePool
       THEN /\ env_go' = swaps
            /\ pool_task' = "running"
            /\ spawn_task' = [spawn_task EXCEPT ![swaps] = "launch"]
       ELSE UNCHANGED <<env_go, pool_task, spawn_task>>
  /\ UNCHANGED <<clients, queues, in_flight, serving, swaps, target,
                 proc, inherited_go, go_files, control>>

Unloaded == IF UsePool THEN "pool" ELSE "load"

\* The drain loop: wait, or leave it and unload without giving way.
SwapWait ==
  /\ swap = "drain" /\ Awake("swap")
  /\ ~Drained
  /\ Park("swap")
  /\ UNCHANGED <<clients, queues, in_flight, serving, tasks, system,
                 lock, dispatcher, admin>>

SwapUnload ==
  /\ swap = "drain" /\ Awake("swap")
  /\ Drained
  /\ IF engine # 0 THEN TakeDown /\ swap' = "vram"
                   ELSE UNCHANGED <<serving, proc>> /\ swap' = Unloaded
  /\ UNCHANGED <<clients, queues, in_flight, swaps, target, pool_task,
                 spawn_task, env_go, inherited_go, go_files, control>>

SwapBaseline ==
  /\ SwapStep("vram", Unloaded)
  /\ BaselineReturns
  /\ UNCHANGED <<clients, queues, in_flight, serving, swaps, target, pool_task,
                 spawn_task, system, control>>

\* The pool holds the weights: let the subprocess through the barrier.  A
\* failure to create the file is logged and ignored.
TouchNothing == UNCHANGED go_files                            \* mutant
TouchGoFile == \/ go_files' = go_files \cup {swaps}
               \/ "gofile" \in Faults /\ UNCHANGED go_files

SwapGo ==
  /\ SwapStep("pool", "spawn")
  /\ pool_task = "ok"
  /\ TouchGoFile
  /\ UNCHANGED <<clients, queues, in_flight, serving, swaps, target, pool_task,
                 spawn_task, proc, env_go, inherited_go, control>>

\* await pool_task raises: nobody awaits the spawn task any more.
SwapPoolFailed ==
  /\ SwapStep("pool", "except")
  /\ pool_task = "err"
  /\ UNCHANGED <<clients, queues, in_flight, serving, swaps, target, pool_task,
                 spawn_task, system, control>>

\* The sequential path spawns only now.
SwapLoad ==
  /\ SwapStep("load", "spawn")
  /\ spawn_task' = [spawn_task EXCEPT ![swaps] = "launch"]
  /\ UNCHANGED <<clients, queues, in_flight, serving, swaps, target, pool_task,
                 system, control>>

\* await spawn_task returns: the engine is installed.
SpawnStarted == spawn_task[swaps] \in {"handshake", "ok"}      \* mutant
SpawnReturned == spawn_task[swaps] = "ok"

SwapSpawned ==
  /\ SwapStep("spawn", "finally")
  /\ SpawnReturned
  /\ go_files' = go_files \ {swaps}
  /\ env_go' = 0
  /\ UNCHANGED <<clients, queues, in_flight, serving, swaps, target, pool_task,
                 spawn_task, proc, inherited_go, control>>

SwapSpawnFailed ==
  /\ SwapStep("spawn", "except")
  /\ spawn_task[swaps] = "err"
  /\ UNCHANGED <<clients, queues, in_flight, serving, swaps, target, pool_task,
                 spawn_task, system, control>>

\* except: everyone who waits for this model is refused.
SwapReject ==
  /\ SwapStep("except", "finally")
  /\ lock = "free"
  /\ RejectQueues({target[swaps]})
  /\ UNCHANGED <<asked, handler, in_flight, serving, swaps, target, pool_task,
                 spawn_task, system, control>>

\* finally: the task is done when it has notified.
SwapEnd ==
  /\ SwapStep("finally", "done")
  /\ lock = "free"
  /\ Notify
  /\ UNCHANGED <<clients, queues, in_flight, serving, swaps, target, pool_task,
                 spawn_task, system, lock, dispatcher, admin>>
-----------------------------------------------------------------------------
(* The pool task, the spawn tasks and their subprocesses.                  *)

\* _populate_pool() returns, or raises.
PoolDone ==
  /\ pool_task = "running"
  /\ pool_task' \in {"ok"} \cup (IF "pool" \in Faults THEN {"err"} ELSE {})
  /\ UNCHANGED <<clients, queues, in_flight, serving, swap, swaps, target,
                 spawn_task, system, control>>

Spawn(k, from, to) == /\ spawn_task[k] = from
                      /\ spawn_task' = [spawn_task EXCEPT ![k] = to]
Process(k, from, to) == /\ proc[k] \in from
                        /\ proc' = [proc EXCEPT ![k] = to]

\* The executor thread forks the subprocess, which inherits the environment
\* of this moment.
SpawnFork(k) ==
  /\ Spawn(k, "launch", "handshake")
  /\ Process(k, {"none"}, "barrier")
  /\ inherited_go' = [inherited_go EXCEPT ![k] = env_go]
  /\ UNCHANGED <<clients, queues, in_flight, serving, swap, swaps, target,
                 pool_task, env_go, go_files, control>>

\* from_vllm_config() or what precedes it raises: before the fork, or because
\* the subprocess died during the handshake.
SpawnFails(k) ==
  /\ "spawn" \in Faults
  /\ \/ Spawn(k, "launch", "err")
     \/ proc[k] \in {"dying", "gone"} /\ Spawn(k, "handshake", "err")
  /\ UNCHANGED <<clients, queues, in_flight, serving, swap, swaps, target,
                 pool_task, system, control>>

\* The engine is up: init_app_state() installs its handlers, and gives way
\* before engine and active_name follow.  The lock is not taken.
InstallHandler(k) ==
  /\ proc[k] = "up"
  /\ Spawn(k, "handshake", "init")
  /\ serving_chat' = k
  /\ UNCHANGED <<clients, queues, in_flight, engine, active_name, swap, swaps,
                 target, pool_task, system, control>>

InstallEngine(k) ==
  /\ Spawn(k, "init", "ok")
  /\ engine' = k /\ active_name' = target[k]
  /\ UNCHANGED <<clients, queues, in_flight, serving_chat, swap, swaps, target,
                 pool_task, system, control>>

\* reset_mm_cache() or init_app_state() raises, the latter perhaps after it
\* installed the handler: shut the engine down and wait for its memory.
InitFails(k) ==
  /\ "spawn" \in Faults
  /\ Process(k, {"up"}, "dying")
  /\ Spawn(k, "handshake", "recover") \/ Spawn(k, "init", "recover")
  /\ UNCHANGED <<clients, queues, in_flight, serving, swap, swaps, target,
                 pool_task, env_go, inherited_go, go_files, control>>

Recovered(k) ==
  /\ BaselineReturns
  /\ Spawn(k, "recover", "err")
  /\ UNCHANGED <<clients, queues, in_flight, serving, swap, swaps, target,
                 pool_task, system, control>>

SubprocessFrame ==
  UNCHANGED <<clients, queues, in_flight, serving, tasks,
              env_go, inherited_go, go_files, control>>

CrossBarrier(k) ==
  Released(k) /\ Process(k, {"barrier"}, "loading") /\ SubprocessFrame
LoadWeights(k) ==
  Process(k, {"loading"}, "up") /\ SubprocessFrame
\* The subprocess dies on its own before it has reported ready.
Dies(k) ==
  /\ "spawn" \in Faults
  /\ Process(k, {"barrier"}, "gone") \/ Process(k, {"loading"}, "dying")
  /\ SubprocessFrame
\* The driver takes back the memory of a process that is going away.
Reclaim(k) ==
  Process(k, {"dying"}, "gone") /\ SubprocessFrame
-----------------------------------------------------------------------------
(* /v1/admin/unload.                                                       *)

AdminStep(u, from, to) == admin[u] \in from /\ admin' = [admin EXCEPT ![u] = to]

\* Wait until nothing is in flight.
AdminWait(u) ==
  /\ Awake(u)
  /\ AdminStep(u, {"idle", "waiting"}, "waiting")
  /\ in_flight > 0
  /\ Park(u)
  /\ UNCHANGED <<clients, queues, in_flight, serving, tasks, system,
                 lock, dispatcher>>

\* Unload with the lock in hand.
AdminUnload(u) ==
  /\ Awake(u)
  /\ AdminStep(u, {"idle", "waiting"}, "unloading")
  /\ in_flight = 0 /\ engine # 0
  /\ TakeDown
  /\ lock' = u
  /\ UNCHANGED <<clients, queues, in_flight, tasks, env_go, inherited_go,
                 go_files, parked, dispatcher>>

AdminReturn(u) ==
  /\ \/ /\ Awake(u)
        /\ in_flight = 0 /\ engine = 0
        /\ AdminStep(u, {"idle", "waiting"}, "done")
     \/ BaselineReturns /\ AdminStep(u, {"unloading"}, "done")
  /\ lock' = "free"
  /\ Notify
  /\ UNCHANGED <<clients, queues, in_flight, serving, tasks, system, dispatcher>>
-----------------------------------------------------------------------------
SwapTask == \/ SwapStart \/ SwapWait \/ SwapUnload \/ SwapBaseline
            \/ SwapGo \/ SwapPoolFailed \/ SwapLoad
            \/ SwapSpawned \/ SwapSpawnFailed \/ SwapReject \/ SwapEnd

SpawnTask(k) == \/ SpawnFork(k) \/ SpawnFails(k) \/ InstallHandler(k)
                \/ InstallEngine(k) \/ InitFails(k) \/ Recovered(k)

Subprocess(k) == CrossBarrier(k) \/ LoadWeights(k) \/ Dies(k) \/ Reclaim(k)

Admin(u) == AdminWait(u) \/ AdminUnload(u) \/ AdminReturn(u)

Next == \/ \E r \in Requests : \/ \E m \in Models, at \in 1..Cardinality(Requests) :
                                    Acquire(r, m, at)
                               \/ Cancel(r) \/ Finish(r)
        \/ Dispatch \/ DispatcherDies \/ Stop \/ SwapTask \/ PoolDone
        \/ \E k \in Attempts : SpawnTask(k) \/ Subprocess(k)
        \/ \E u \in Unloaders : Admin(u)

Spec == Init /\ [][Next]_vars

\* The event loop runs what is ready, subprocesses run, engines finish their
\* answers, and the driver reclaims memory.  Clients and operators call when
\* they like; nothing has to fail.
Fairness ==
  /\ WF_vars(Dispatch \/ DispatcherDies) /\ WF_vars(SwapTask) /\ WF_vars(PoolDone)
  /\ \A r \in Requests : WF_vars(Finish(r))
  /\ \A k \in Attempts : /\ WF_vars(SpawnTask(k)) /\ WF_vars(Reclaim(k))
                         /\ WF_vars(CrossBarrier(k)) /\ WF_vars(LoadWeights(k))
  /\ \A u \in Unloaders : WF_vars(admin[u] # "idle" /\ Admin(u))

FairSpec == Spec /\ Fairness
-----------------------------------------------------------------------------
(* Every variable of the ModelManager, of its tasks and of the world around *)
(* them keeps to its range; in_flight in particular stays a natural number. *)
TypeOK ==
  /\ request \in [Requests -> {"idle", "waiting", "granted", "released", "rejected",
                          "cancelled", "leaked", "lost"}]
  /\ asked \in [Requests -> Models \cup {None}]
  /\ handler \in [Requests -> Engines]
  /\ queues \in [Models -> Seq([req : Requests, at : Nat])]
  /\ in_flight \in Nat
  /\ engine \in Engines /\ serving_chat \in Engines
  /\ active_name \in Models \cup {None}
  /\ lock \in Unloaders \cup {"free"}
  /\ parked \subseteq Coroutines
  /\ dispatcher \in {"running", "cancelled", "dead"}
  /\ swap \in {"none", "start", "drain", "vram", "pool", "load", "spawn",
               "except", "finally", "done"}
  /\ swaps \in Engines
  /\ target \in [Attempts -> Models \cup {None}]
  /\ pool_task \in {"closed", "none", "running", "ok", "err"}
  /\ spawn_task \in [Attempts -> {"none", "launch", "handshake", "init",
                               "recover", "ok", "err"}]
  /\ proc \in [Attempts -> {"none", "barrier", "loading", "up", "dying", "gone"}]
  /\ env_go \in Engines
  /\ inherited_go \in [Attempts -> Engines]
  /\ go_files \subseteq Engines
  /\ admin \in [Unloaders -> {"idle", "waiting", "unloading", "done"}]

OnceInQueue ==
  /\ \A m \in Models : \A i \in 1..Len(queues[m]) :
       LET r == queues[m][i].req IN
         /\ request[r] \in {"waiting", "cancelled"} /\ asked[r] = m
         /\ \A j \in 1..Len(queues[m]) : queues[m][j].req = r => i = j
  /\ \A r \in Requests : request[r] = "waiting" =>
       asked[r] \in Models /\ r \in InQueue(asked[r])
LostWithDispatcher ==
  \A r, x \in Requests : request[r] = "lost" =>
    dispatcher # "running" /\ (request[x] = "lost" => r = x)

(* A request is in one place at a time: while it waits it stands exactly    *)
(* once in the queue of the model it asked for; one that is served, refused *)
(* or has lost its slot stands in no queue.  So no request is served twice, *)
(* or served and refused, and at most one is lost: that on which the        *)
(* dispatcher died.                                                         *)
QueueIntegrity == OnceInQueue /\ LostWithDispatcher

Granted == {r \in Requests : request[r] = "granted"}
Forgotten == {r \in Requests : request[r] \in {"leaked", "lost"}}

(* in_flight counts the requests being served, no less (a swap would cut    *)
(* off an answer) and no more (a swap would wait for ever) but for the      *)
(* slots that nobody can give back; the clamp in release() never hides a    *)
(* miscount.                                                                *)
SlotAccounting == in_flight = Cardinality(Granted \cup Forgotten)

(* The queues are "the source of truth for what's pending" (class docstring *)
(* of ModelManager): nobody leaves a queue, and takes a slot, without being *)
(* served, so the dispatcher never comes upon an engine without a handler.  *)
NobodyForgotten == Forgotten = {}

\* Who may sleep on the condition variable, and when.
DispatcherIdle == dispatcher = "running" /\ "dispatcher" \in parked /\ NoSwap
                    => \A m \in Models : queues[m] = <<>>
SwapIdle   == "swap" \in parked => ~Drained \/ lock # "free"
AdminsIdle == \A u \in Unloaders \cap parked : in_flight > 0

(* Nobody sleeps on the condition variable while there is something for     *)
(* them to do: the dispatcher sleeps without a swap under way only when     *)
(* every queue is empty, the swap only when it is not drained (or an admin  *)
(* call is about to wake it), an admin call only while slots are taken.     *)
NoLostWakeup == DispatcherIdle /\ SwapIdle /\ AdminsIdle

\* What somebody who waits may wait for: memory on its way back, requests that
\* end, or a subprocess that comes up or is given up.
MemoryReturns == \A k \in Holders : proc[k] = "dying"
DrainGoesOn == \/ Drained /\ "swap" \notin parked
               \/ Granted # {}
               \/ Batch # {} /\ dispatcher = "running" /\ "dispatcher" \notin parked
SpawnGoesOn == \/ spawn_task[swaps] \in {"launch", "init", "ok", "err"}
               \/ spawn_task[swaps] = "recover" /\ MemoryReturns
               \/ /\ spawn_task[swaps] = "handshake" /\ proc[swaps] # "none"
                  /\ proc[swaps] = "barrier" => Released(swaps)

(* Nobody waits for what will not come.  The lock and the baseline wait     *)
(* only for processes that are going away, the drain only for requests that *)
(* are being served or handed out, the pool's mapping for a task under way, *)
(* and a spawn never for a barrier that nobody opens.                       *)
NoWaitInVain ==
  /\ lock # "free" => admin[lock] = "unloading" /\ MemoryReturns
  /\ swap = "drain" /\ lock = "free" => DrainGoesOn
  /\ swap = "vram" => MemoryReturns
  /\ swap = "pool" => pool_task # "none"
  /\ swap = "spawn" => SpawnGoesOn

(* A request being served talks to an engine of the model it asked for      *)
(* whose subprocess is alive: no swap, admin unload or failed load pulls an *)
(* engine away under a request or hands out a handler of another model.     *)
ServedByLiveEngine ==
  \A r \in Granted : /\ handler[r] \in Attempts
                     /\ proc[handler[r]] = "up"
                     /\ target[handler[r]] = asked[r]

(* A swap is committed to the model whose head has waited longest: nobody   *)
(* in the queue of any model but the active one came earlier, in whatever   *)
(* order arrivals, failures and unloads left the queues.                    *)
OldestWaiterWins ==
  [][swaps' # swaps =>
       \A n \in Models \ {active_name} : \A i \in 1..Len(queues[n]) :
         Head(queues[target'[swaps']]).at <= queues[n][i].at]_vars

(* An engine is given up only when no request is being served, and by a     *)
(* swap only when none waits for it either; it is never replaced in place.  *)
DrainThenSwitch ==
  [][engine # 0 /\ engine' # engine =>
       /\ engine' = 0
       /\ \A r \in Requests : request[r] # "granted"
       /\ UNCHANGED admin => \A r \in Requests :
            request[r] = "waiting" => asked[r] # active_name]_vars

(* Never two subprocess loads in parallel (README "Two invariants"): at     *)
(* most one call of from_vllm_config() is under way.                        *)
Loads == {k \in Attempts : spawn_task[k] \in {"launch", "handshake"}}
NeverTwoLoads == \A j, k \in Loads : j = k

(* At most one model is resident on the GPU, counting the one that is still *)
(* unwinding and the one that is still loading.                             *)
OneModelResident == \A j, k \in Holders : j = k

(* The go-file is created only while the GPU is idle.                       *)
GoFileAfterVramIdle == [][go_files' \subseteq go_files \/ VramIdle]_vars

(* With a pool, a subprocess passes the barrier only during its own swap,   *)
(* after that swap has taken the old engine down and filled the pool.       *)
CrossesInOwnSwap ==
  [][\A k \in Attempts : UsePool /\ proc[k] = "barrier" /\ proc'[k] = "loading" =>
       /\ swaps = k /\ swap = "spawn"
       /\ pool_task = "ok" /\ engine = 0]_vars

(* Whoever waits is served or refused in the end, and every swap comes to   *)
(* its end, so that the next one can start.                                 *)
Answered == \A r \in Requests : request[r] = "waiting" ~> request[r] # "waiting"
SwapEnds == swap \notin {"none", "done"} ~> swap = "done"

(* The gateway keeps the contract, with active_name as the loaded model.    *)
Contract == INSTANCE ServingContract
              WITH loaded <- active_name, closing <- (dispatcher = "cancelled")
KeepsContract == Contract!Spec
=============================================================================
