------------------------- MODULE GatewayMemoryProofs -------------------------
(***************************************************************************)
(* Proofs about Gateway's use of the GPU when no pool load raises, no      *)
(* spawn fails and nvidia-smi sees the GPU idle before its timeout: what   *)
(* the barrier and the baseline are there for.  The creation of go-files   *)
(* may still fail.                                                         *)
(***************************************************************************)
EXTENDS GatewaySwapProofs

\* Who has memory on the GPU, and who waits for it to be returned.
Resident ==
  /\ \A k \in Attempts : proc[k] = "dying" => swap = "vram" \/ lock # "free"
  /\ \A k \in Attempts : proc[k] = "up" /\ spawn_task[k] = "ok" => engine = k
  /\ \A u \in Unloaders : admin[u] = "unloading" => lock = u
  /\ lock # "free" =>
       /\ engine = 0
       /\ \/ swap \in {"none", "start", "drain", "finally", "done"}
          \/ swap = "spawn" /\ spawn_task[swaps] = "ok"
  /\ swap \in {"pool", "load"} => VramIdle
  /\ swap = "spawn" => Holders \subseteq {swaps}
  /\ OneModelResident

LEMMA ResidentInit == Init => Resident
BY DEF Init, Resident, VramIdle, Holders, OnGpu, OneModelResident

\* Outside of "vram" and of an admin call, with no engine and no spawn, the GPU
\* is idle.
LEMMA IdleWithoutEngine ==
  ASSUME TypeOK, TargetKnown, SpawnInSwap, SpawnStages, EngineInstalled, Resident,
         swap = "drain", lock = "free", engine = 0
  PROVE  VramIdle
<1> SUFFICES ASSUME NEW k \in Attempts, proc[k] \in OnGpu PROVE FALSE
  BY DEF VramIdle, Holders
<1>1. proc[k] # "dying"
  BY DEF Resident
<1>2. CASE spawn_task[k] \in Pending
  BY <1>1, <1>2 DEF OnGpu, EngineInstalled
<1>3. CASE spawn_task[k] \notin Pending
  <2>1. proc[k] = "up" /\ spawn_task[k] = "ok"
    BY <1>1, <1>3 DEF OnGpu, SpawnStages, Pending
  <2>2. k # 0
    BY DEF Attempts
  <2> QED BY <2>1, <2>2 DEF Resident
<1> QED BY <1>2, <1>3

\* Steps that touch neither the GPU nor what Resident says about it.
LEMMA ResidentFrame ==
  ASSUME Resident, UNCHANGED <<proc, spawn_task, swaps, engine, lock>>,
         \A u \in Unloaders : admin'[u] = "unloading" => admin[u] = "unloading",
         swap' = swap \/ swap' \in {"none", "start", "drain", "finally", "done", "except"},
         swap = "vram" => swap' = swap \/ VramIdle,
         lock # "free" => swap' \in {swap, "none", "start", "drain", "finally", "done"}
  PROVE  Resident'
<1>1. Holders' = Holders
  BY DEF Holders, OnGpu
<1>2. VramIdle => \A k \in Attempts : proc[k] # "dying"
  BY DEF VramIdle, Holders, OnGpu
<1> QED BY <1>1, <1>2 DEF Resident, VramIdle, OneModelResident

LEMMA ResidentTakeDown ==
  ASSUME TypeOK, TargetKnown, SpawnInSwap, SpawnStages, EngineInstalled, Resident,
         TakeDown, engine # 0, UNCHANGED <<swaps, spawn_task>>,
         lock = "free",
         \/ swap = "drain" /\ swap' = "vram" /\ UNCHANGED <<lock, admin>>
         \/ /\ swap' = swap /\ lock' \in Unloaders
            /\ \A u \in Unloaders \ {lock'} : admin'[u] = admin[u]
  PROVE  Resident'
<1>1. /\ engine \in Attempts /\ engine' = 0 /\ proc[engine] = "up"
      /\ proc' = [proc EXCEPT ![engine] = "dying"]
  BY BoundsAssumption DEF TakeDown, EngineInstalled, TypeOK, Engines, Attempts
<1>2. Holders' = Holders
  BY <1>1 DEF Holders, OnGpu, TypeOK
<1>3. \A k \in Attempts : proc'[k] = "up" => proc[k] = "up" /\ k # engine
  BY <1>1 DEF TypeOK
<1>4. \A k \in Attempts : ~(proc'[k] = "up" /\ spawn_task'[k] = "ok")
  BY <1>3 DEF Resident
<1>5. lock' # "free" \/ swap' = "vram"
  BY UnloadersAssumption
<1>6. swap \notin {"vram", "pool", "load", "except"}
  BY DEF EngineInstalled
<1>7. swap = "spawn" => spawn_task[swaps] = "ok"
  <2>1. SUFFICES ASSUME swap = "spawn" PROVE spawn_task[swaps] = "ok"
    OBVIOUS
  <2>2. engine \in Holders
    BY <1>1 DEF Holders, OnGpu
  <2>3. engine = swaps
    BY <2>1, <2>2 DEF Resident
  <2> QED BY <2>3, <1>1 DEF EngineInstalled
<1>8. swap \in {"none", "start", "drain", "finally", "done", "spawn"}
  BY <1>6 DEF TypeOK
<1>9. \A u \in Unloaders : admin'[u] = "unloading" /\ lock' # "free" => lock' = u
  BY UnloadersAssumption DEF Resident
<1>10. \A u \in Unloaders : admin[u] # "unloading"
  BY UnloadersAssumption DEF Resident
<1> QED
  BY <1>1, <1>2, <1>4, <1>5, <1>7, <1>8, <1>9, <1>10 DEF Resident, VramIdle, OneModelResident

LEMMA ResidentSwapStep ==
  ASSUME "vram" \notin Faults,
         TypeOK, TargetKnown, SpawnInSwap, SpawnStages, EngineInstalled, Resident, SwapTask
  PROVE  Resident'
<1>1. CASE SwapStart
  <2>1. /\ UNCHANGED <<proc, engine, swaps, lock, admin>> /\ swap' = "drain" /\ swap = "start"
        /\ \A k \in Attempts : spawn_task'[k] = "ok" => spawn_task[k] = "ok"
    BY <1>1 DEF SwapStart, SwapStep, serving, control, TypeOK
  <2>2. Holders' = Holders
    BY <2>1 DEF Holders, OnGpu
  <2> QED BY <2>1, <2>2 DEF Resident, VramIdle, OneModelResident
<1>2. CASE SwapWait
  BY <1>2, ResidentFrame DEF SwapWait, serving, tasks, system
<1>3. CASE SwapUnload
  <2>1. swap = "drain" /\ lock = "free" /\ UNCHANGED <<swaps, spawn_task, lock, admin>>
    BY <1>3 DEF SwapUnload, Awake, control
  <2>2. CASE engine # 0
    BY <1>3, <2>1, <2>2, ResidentTakeDown DEF SwapUnload
  <2>3. CASE engine = 0
    <3>1. VramIdle /\ UNCHANGED <<engine, proc>> /\ swap' \in {"pool", "load"}
      BY <1>3, <2>1, <2>3, IdleWithoutEngine DEF SwapUnload, Unloaded, serving
    <3>2. Holders' = Holders
      BY <3>1 DEF Holders, OnGpu
    <3> QED BY <2>1, <3>1, <3>2 DEF Resident, VramIdle, OneModelResident, Holders, OnGpu
  <2> QED BY <2>2, <2>3
<1>4. CASE SwapBaseline
  <2>1. /\ VramIdle /\ UNCHANGED <<swaps, spawn_task, lock, admin, engine, proc>>
        /\ swap = "vram" /\ swap' \in {"pool", "load"}
    BY <1>4 DEF SwapBaseline, SwapStep, BaselineReturns, Unloaded, serving, system, control
  <2>2. Holders' = Holders /\ Holders = {}
    BY <2>1 DEF Holders, OnGpu, VramIdle
  <2>3. \A k \in Attempts : proc[k] # "dying"
    BY <2>2 DEF Holders, OnGpu
  <2> QED BY <2>1, <2>2, <2>3 DEF Resident, VramIdle, OneModelResident
<1>5. CASE SwapGo \/ SwapLoad
  <2>1. /\ swap \in {"pool", "load"} /\ swap' = "spawn"
        /\ UNCHANGED <<swaps, lock, admin, engine, proc>>
        /\ \A k \in Attempts : spawn_task'[k] = "ok" => spawn_task[k] = "ok"
    BY <1>5 DEF SwapGo, SwapLoad, SwapStep, serving, system, control, TypeOK
  <2>2. Holders' = Holders /\ Holders = {} /\ lock = "free"
    BY <2>1 DEF Holders, OnGpu, Resident, VramIdle
  <2> QED BY <2>1, <2>2 DEF Resident, VramIdle, OneModelResident, Holders, OnGpu
<1>6. CASE SwapPoolFailed
  BY <1>6 DEF SwapPoolFailed, SpawnInSwap
<1>7. CASE SwapSpawned
  BY <1>7, ResidentFrame DEF SwapSpawned, SwapStep, serving, control
<1>8. CASE SwapSpawnFailed
  BY <1>8, ResidentFrame DEF SwapSpawnFailed, SwapStep, serving, system, control, Resident
<1>9. CASE SwapReject \/ SwapEnd
  <2>1. /\ UNCHANGED <<proc, spawn_task, swaps, engine, lock, admin>>
        /\ swap \in {"except", "finally"} /\ swap' \in {"finally", "done"}
    BY <1>9 DEF SwapReject, SwapEnd, SwapStep, serving, system, control
  <2> QED BY <2>1, ResidentFrame
<1> QED BY <1>1, <1>2, <1>3, <1>4, <1>5, <1>6, <1>7, <1>8, <1>9 DEF SwapTask

LEMMA ResidentSpawnStep ==
  ASSUME "spawn" \notin Faults,
         TypeOK, TargetKnown, SpawnInSwap, SpawnStages, EngineInstalled, Resident,
         NEW k \in Attempts, SpawnTask(k)
  PROVE  Resident'
<1> k # 0
  BY DEF Attempts
<1>1. CASE SpawnFork(k) \/ InstallHandler(k) \/ Recovered(k)
  <2>1. /\ UNCHANGED <<swap, swaps, lock, admin, engine>>
        /\ \A j \in Attempts \ {k} : spawn_task'[j] = spawn_task[j] /\ proc'[j] = proc[j]
        /\ spawn_task[k] \in Pending /\ spawn_task'[k] # "ok"
        /\ proc'[k] = proc[k] \/ (proc[k] = "none" /\ proc'[k] = "barrier")
    BY <1>1 DEF SpawnFork, InstallHandler, Recovered, Spawn, Process, Pending,
                control, serving, system, TypeOK
  <2>2. Holders' = Holders
    BY <2>1 DEF Holders, OnGpu
  <2>3. lock # "free" => swap # "spawn" \/ swaps # k
    BY <2>1 DEF Resident, Pending
  <2>4. swap = "spawn" => swaps \in Attempts
    BY DEF TargetKnown
  <2> QED BY <2>1, <2>2, <2>3, <2>4 DEF Resident, VramIdle, OneModelResident
<1>2. CASE InstallEngine(k)
  <2>1. /\ spawn_task[k] = "init" /\ proc[k] = "up" /\ engine' = k
        /\ spawn_task' = [spawn_task EXCEPT ![k] = "ok"]
        /\ UNCHANGED <<swap, swaps, lock, admin, proc>>
    BY <1>2 DEF InstallEngine, Spawn, SpawnStages, control, system
  <2>2. k = swaps /\ swap = "spawn" /\ engine = 0
    BY <2>1, NoEngineMeanwhile DEF Pending
  <2>3. lock = "free"
    BY <2>1, <2>2 DEF Resident
  <2>4. \A j \in Attempts : proc[j] = "up" /\ spawn_task[j] = "ok" => FALSE
    BY <2>2 DEF Resident, Attempts
  <2>5. \A j \in Attempts \ {k} : spawn_task'[j] = spawn_task[j]
    BY <2>1 DEF TypeOK
  <2>6. Holders' = Holders
    BY <2>1 DEF Holders, OnGpu
  <2> QED BY <2>1, <2>2, <2>3, <2>4, <2>5, <2>6 DEF Resident, VramIdle, OneModelResident
<1>3. CASE SpawnFails(k) \/ InitFails(k)
  BY <1>3 DEF SpawnFails, InitFails
<1> QED BY <1>1, <1>2, <1>3 DEF SpawnTask

LEMMA ResidentSubprocessStep ==
  ASSUME "spawn" \notin Faults,
         TypeOK, TargetKnown, SpawnInSwap, SpawnStages, BarrierKept, EngineInstalled, Resident,
         NEW k \in Attempts, Subprocess(k)
  PROVE  Resident'
<1>1. /\ UNCHANGED <<swap, swaps, spawn_task, lock, admin, engine>>
      /\ \A j \in Attempts \ {k} : proc'[j] = proc[j]
  BY DEF Subprocess, CrossBarrier, LoadWeights, Dies, Reclaim, SubprocessFrame, Process,
         control, serving, tasks, TypeOK
<1>2. CASE CrossBarrier(k)
  <2>1. proc[k] = "barrier" /\ proc'[k] = "loading"
    BY <1>2 DEF CrossBarrier, Process, TypeOK
  <2>2. k = swaps /\ swap = "spawn"
    BY <1>2, CrossingStep
  <2>3. Holders = {}
    BY <2>1, <2>2 DEF Resident, Holders, OnGpu
  <2>4. Holders' = {k}
    BY <1>1, <2>1, <2>3 DEF Holders, OnGpu
  <2> QED BY <1>1, <2>1, <2>2, <2>4 DEF Resident, OneModelResident
<1>3. CASE LoadWeights(k)
  <2>1. proc[k] = "loading" /\ proc'[k] = "up" /\ spawn_task[k] = "handshake"
    BY <1>3 DEF LoadWeights, Process, TypeOK, SpawnStages
  <2>2. Holders' = Holders
    BY <1>1, <2>1 DEF Holders, OnGpu
  <2> QED BY <1>1, <2>1, <2>2 DEF Resident, VramIdle, OneModelResident
<1>4. CASE Reclaim(k)
  <2>1. proc[k] = "dying" /\ proc'[k] = "gone"
    BY <1>4 DEF Reclaim, Process, TypeOK
  <2>2. Holders' \subseteq Holders
    BY <1>1, <2>1 DEF Holders, OnGpu
  <2> QED BY <1>1, <2>1, <2>2 DEF Resident, VramIdle, OneModelResident
<1>5. CASE Dies(k)
  BY <1>5 DEF Dies
<1> QED BY <1>2, <1>3, <1>4, <1>5 DEF Subprocess

LEMMA ResidentAdminStep ==
  ASSUME "vram" \notin Faults,
         TypeOK, TargetKnown, SpawnInSwap, SpawnStages, EngineInstalled, Resident,
         NEW u \in Unloaders, Admin(u)
  PROVE  Resident'
<1>1. CASE AdminWait(u)
  <2>1. /\ UNCHANGED <<proc, spawn_task, swap, swaps, engine, lock>>
        /\ \A v \in Unloaders : admin'[v] \in {admin[v], "waiting"}
    BY <1>1 DEF AdminWait, AdminStep, serving, tasks, system, TypeOK
  <2> QED BY <2>1, ResidentFrame
<1>2. CASE AdminUnload(u)
  <2>1. /\ TakeDown /\ engine # 0 /\ lock = "free" /\ lock' = u
        /\ UNCHANGED <<swap, swaps, spawn_task>>
        /\ \A v \in Unloaders \ {u} : admin'[v] = admin[v]
    BY <1>2 DEF AdminUnload, Awake, AdminStep, tasks, TypeOK
  <2> QED BY <2>1, ResidentTakeDown
<1>3. CASE AdminReturn(u)
  <2>1. /\ UNCHANGED <<swap, swaps, spawn_task, proc, engine>> /\ lock' = "free"
        /\ \A v \in Unloaders \ {u} : admin'[v] = admin[v]
        /\ admin'[u] = "done"
    BY <1>3 DEF AdminReturn, AdminStep, serving, tasks, system, TypeOK
  <2>2. \/ lock = "free"
        \/ lock = u /\ VramIdle
    BY <1>3 DEF AdminReturn, Awake, AdminStep, BaselineReturns, Resident
  <2>3. \A v \in Unloaders \ {u} : admin[v] # "unloading"
    BY <2>2, UnloadersAssumption DEF Resident
  <2>4. Holders' = Holders
    BY <2>1 DEF Holders, OnGpu
  <2>5. VramIdle => \A k \in Attempts : proc[k] # "dying"
    BY DEF VramIdle, Holders, OnGpu
  <2> QED BY <2>1, <2>2, <2>3, <2>4, <2>5 DEF Resident, VramIdle, OneModelResident
<1> QED BY <1>1, <1>2, <1>3 DEF Admin

LEMMA ResidentStep ==
  ASSUME {"spawn", "vram"} \cap Faults = {}, ServingInvariant, Resident, [Next]_vars
  PROVE  Resident'
<1> USE DEF ServingInvariant, QueueInvariant
<1>1. CASE Dispatch
  <2>1. lock = "free" /\ UNCHANGED <<proc, spawn_task, engine, lock, admin>>
    BY <1>1 DEF Dispatch, Awake, serving, system
  <2>2. CASE NoCommit
    BY <2>1, <2>2, ResidentFrame DEF NoCommit, NoSwap
  <2>3. ASSUME NEW m \in Models, Commit(m) PROVE Resident'
    <3>1. swap \in {"none", "done"} /\ swap' = "start"
      BY <2>3 DEF Commit, NoSwap
    <3>2. Holders' = Holders
      BY <2>1 DEF Holders, OnGpu
    <3> QED BY <2>1, <3>1, <3>2 DEF Resident, VramIdle, OneModelResident
  <2> QED BY <1>1, <2>2, <2>3 DEF Dispatch
<1>2. CASE SwapTask
  BY <1>2, ResidentSwapStep
<1>3. ASSUME NEW k \in Attempts, SpawnTask(k) \/ Subprocess(k) PROVE Resident'
  BY <1>3, ResidentSpawnStep, ResidentSubprocessStep
<1>4. ASSUME NEW u \in Unloaders, Admin(u) PROVE Resident'
  BY <1>4, ResidentAdminStep
<1>5. ASSUME UNCHANGED <<serving, swap, swaps, spawn_task, proc, lock, admin>> PROVE Resident'
  BY <1>5, ResidentFrame DEF serving
<1>6. CASE PoolDone
  BY <1>5, <1>6 DEF PoolDone, system, control
<1>7. CASE DispatcherDies \/ Stop \/ UNCHANGED vars
  BY <1>5, <1>7 DEF DispatcherDies, Stop, vars, tasks, system, control
<1>8. ASSUME NEW r \in Requests, NEW m \in Models, NEW at, Acquire(r, m, at) PROVE Resident'
  BY <1>5, <1>8 DEF Acquire, tasks, system
<1>9. ASSUME NEW r \in Requests, Cancel(r) \/ Finish(r) PROVE Resident'
  BY <1>5, <1>9 DEF Cancel, Finish, tasks, system, control
<1> QED BY <1>1, <1>2, <1>3, <1>4, <1>6, <1>7, <1>8, <1>9 DEF Next

LEMMA ResidentHolds ==
  ASSUME {"pool", "spawn", "vram"} \cap Faults = {}
  PROVE  Spec => [](ServingInvariant /\ Resident)
<1>1. Spec => []ServingInvariant
  BY ServingInvariantHolds
<1>2. ServingInvariant /\ Resident /\ [Next]_vars => Resident'
  BY ResidentStep
<1> QED BY <1>1, <1>2, ResidentInit, PTL DEF Spec

(* Where neither the pool nor a spawn nor nvidia-smi fails, at most one     *)
(* model is on the GPU at any moment, counting the one that unwinds and the *)
(* one that loads, with or without a pool, whatever is unloaded by hand.    *)
THEOREM OneModelOnGpu ==
  ASSUME {"pool", "spawn", "vram"} \cap Faults = {}
  PROVE  Spec => []OneModelResident
<1>1. Resident => OneModelResident
  BY DEF Resident
<1> QED BY <1>1, ResidentHolds, PTL

(* Under the same conditions a go-file is created only when the GPU is idle.*)
THEOREM GoFilesOnIdleGpu ==
  ASSUME {"pool", "spawn", "vram"} \cap Faults = {}
  PROVE  Spec => GoFileAfterVramIdle
<1>1. ServingInvariant /\ Resident /\ [Next]_vars => [go_files' \subseteq go_files \/ VramIdle]_vars
  <2> SUFFICES ASSUME Resident, Next PROVE go_files' \subseteq go_files \/ VramIdle
    OBVIOUS
  <2>1. CASE SwapGo
    BY <2>1 DEF SwapGo, SwapStep, Resident
  <2>2. CASE SwapTask /\ ~SwapGo
    BY <2>2 DEF SwapTask, SwapStart, SwapWait, SwapUnload, SwapBaseline, SwapPoolFailed,
                SwapLoad, SwapSpawned, SwapSpawnFailed, SwapReject, SwapEnd, system
  <2>3. CASE Dispatch \/ PoolDone \/ UNCHANGED <<serving, tasks, system>>
    BY <2>3 DEF Dispatch, PoolDone, system
  <2>4. ASSUME NEW k \in Attempts, SpawnTask(k) \/ Subprocess(k) PROVE UNCHANGED go_files
    BY <2>4 DEF SpawnTask, SpawnFork, SpawnFails, InstallHandler, InstallEngine, InitFails,
                Recovered, Subprocess, CrossBarrier, LoadWeights, Dies, Reclaim,
                SubprocessFrame, system
  <2>5. ASSUME NEW u \in Unloaders, AdminUnload(u) PROVE UNCHANGED go_files
    BY <2>5 DEF AdminUnload
  <2> QED BY <2>1, <2>2, <2>3, <2>4, <2>5, QuietSteps
<1> QED BY <1>1, ResidentHolds, PTL DEF Spec, GoFileAfterVramIdle
=============================================================================
