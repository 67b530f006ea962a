-------------------------- MODULE GatewaySwapProofs --------------------------
(***************************************************************************)
(* Proofs about the swaps of Gateway that hold as long as the pool task    *)
(* does not raise: `await pool_task` is the one way by which a swap leaves *)
(* its spawn task behind.                                                  *)
(***************************************************************************)
EXTENDS GatewayProofs

Pending == {"launch", "handshake", "init", "recover"}

\* Where a swap may stand while its spawn task is under way: with a pool the
\* task starts before the drain, without one after the unload.
SpawnWindow == {"spawn"} \cup (IF UsePool THEN {"drain", "vram", "pool"} ELSE {})

SpawnInSwap == /\ pool_task # "err"
               /\ \A k \in Attempts : spawn_task[k] \in Pending =>
                    k = swaps /\ swap \in SpawnWindow

LEMMA SpawnInit == Init => SpawnInSwap
BY DEF Init, SpawnInSwap, Pending

\* A step that starts no spawn task, keeps the pool task out of trouble, and
\* leaves the swap where it may stand.
LEMMA SpawnFrame ==
  ASSUME SpawnInSwap, UNCHANGED <<spawn_task, swaps, pool_task>>,
         swap \in SpawnWindow => swap' \in SpawnWindow
  PROVE  SpawnInSwap'
<1>1. SpawnWindow' = SpawnWindow
  BY DEF SpawnWindow, UsePool
<1>2. QED
  BY <1>1 DEF SpawnInSwap

\* The spawn task of the current swap is over when the swap gets past it.
LEMMA SpawnOver ==
  ASSUME SpawnInSwap, spawn_task[swaps] \in {"ok", "err"},
         UNCHANGED <<spawn_task, swaps, pool_task>>
  PROVE  SpawnInSwap'
BY DEF SpawnInSwap, Pending

LEMMA SpawnSwapStep ==
  ASSUME TypeOK, SpawnInSwap, SwapTask
  PROVE  SpawnInSwap'
<1>1. CASE SwapStart
  <2>1. \A k \in Attempts : spawn_task[k] \notin Pending
    BY <1>1 DEF SwapStart, SwapStep, SpawnInSwap, SpawnWindow
  <2>2. CASE UsePool
    <3>1. /\ pool_task' = "running" /\ swap' = "drain" /\ swaps' = swaps
          /\ \A k \in Attempts : k # swaps => spawn_task'[k] = spawn_task[k]
      BY <1>1, <2>2 DEF SwapStart, SwapStep, TypeOK
    <3>2. QED
      BY <2>1, <3>1 DEF SpawnInSwap, SpawnWindow, UsePool
  <2>3. CASE ~UsePool
    BY <1>1, <2>1, <2>3 DEF SwapStart, SpawnInSwap
  <2>4. QED
    BY <2>2, <2>3
<1>2. CASE SwapWait
  BY <1>2, SpawnFrame DEF SwapWait, tasks
<1>3. CASE SwapUnload
  <2>1. UNCHANGED <<spawn_task, swaps, pool_task>> /\ swap = "drain"
        /\ swap' \in {"vram", Unloaded}
    BY <1>3 DEF SwapUnload
  <2>2. QED
    BY <2>1, SpawnFrame DEF SpawnWindow, Unloaded
<1>4. CASE SwapBaseline
  BY <1>4, SpawnFrame DEF SwapBaseline, SwapStep, SpawnWindow, Unloaded
<1>5. CASE SwapGo
  BY <1>5, SpawnFrame DEF SwapGo, SwapStep, SpawnWindow
<1>6. CASE SwapPoolFailed
  BY <1>6 DEF SwapPoolFailed, SpawnInSwap
<1>7. CASE SwapLoad
  <2>1. \A k \in Attempts : spawn_task[k] \notin Pending
    BY <1>7 DEF SwapLoad, SwapStep, SpawnInSwap, SpawnWindow
  <2>2. /\ pool_task' = pool_task /\ swap' = "spawn" /\ swaps' = swaps
        /\ \A k \in Attempts : k # swaps => spawn_task'[k] = spawn_task[k]
    BY <1>7 DEF SwapLoad, SwapStep, TypeOK
  <2>3. QED
    BY <2>1, <2>2 DEF SpawnInSwap, SpawnWindow
<1>8. CASE SwapSpawned
  BY <1>8, SpawnOver DEF SwapSpawned, SpawnReturned
<1>9. CASE SwapSpawnFailed
  BY <1>9, SpawnOver DEF SwapSpawnFailed
<1>10. CASE SwapReject
  BY <1>10, SpawnFrame DEF SwapReject, SwapStep, SpawnWindow
<1>11. CASE SwapEnd
  BY <1>11, SpawnFrame DEF SwapEnd, SwapStep, SpawnWindow
<1>12. QED
  BY <1>1, <1>2, <1>3, <1>4, <1>5, <1>6, <1>7, <1>8, <1>9, <1>10, <1>11 DEF SwapTask

LEMMA SpawnStep ==
  ASSUME "pool" \notin Faults, TypeOK, SpawnInSwap, [Next]_vars
  PROVE  SpawnInSwap'
<1>1. CASE Dispatch
  <2>1. UNCHANGED <<spawn_task, pool_task>>
    BY <1>1 DEF Dispatch
  <2>2. CASE NoSwap
    <3>1. \A k \in Attempts : spawn_task[k] \notin Pending
      BY <2>2 DEF NoSwap, SpawnInSwap, SpawnWindow
    <3>2. QED
      BY <2>1, <3>1 DEF SpawnInSwap
  <2>3. CASE ~NoSwap
    BY <1>1, <2>1, <2>3, SpawnFrame DEF Dispatch, NoCommit, Commit
  <2>4. QED
    BY <2>2, <2>3
<1>2. CASE SwapTask
  BY <1>2, SpawnSwapStep
<1>3. CASE PoolDone
  <2>1. pool_task = "running" /\ pool_task' = "ok"
    BY <1>3 DEF PoolDone
  <2>2. UNCHANGED <<swap, swaps, spawn_task>>
    BY <1>3 DEF PoolDone
  <2>3. QED
    BY <2>1, <2>2 DEF SpawnInSwap, SpawnWindow, UsePool
<1>4. ASSUME NEW k \in Attempts, SpawnTask(k) PROVE SpawnInSwap'
  <2>1. UNCHANGED <<swap, swaps, pool_task>> /\ spawn_task[k] \in Pending
    BY <1>4 DEF SpawnTask, SpawnFork, SpawnFails, InstallHandler, InstallEngine,
                InitFails, Recovered, Spawn, Pending
  <2>2. \A j \in Attempts \ {k} : spawn_task'[j] = spawn_task[j]
    BY <1>4 DEF SpawnTask, SpawnFork, SpawnFails, InstallHandler, InstallEngine,
                InitFails, Recovered, Spawn, TypeOK
  <2>3. QED
    BY <2>1, <2>2 DEF SpawnInSwap, SpawnWindow, UsePool
<1>5. ASSUME UNCHANGED tasks PROVE SpawnInSwap'
  BY <1>5, SpawnFrame DEF tasks
<1>6. ASSUME NEW r \in Requests, NEW m \in Models, NEW at, Acquire(r, m, at)
      PROVE  SpawnInSwap'
  BY <1>5, <1>6 DEF Acquire
<1>7. ASSUME NEW r \in Requests, Cancel(r) \/ Finish(r) PROVE SpawnInSwap'
  BY <1>5, <1>7 DEF Cancel, Finish
<1>8. CASE DispatcherDies \/ Stop
  BY <1>5, <1>8 DEF DispatcherDies, Stop
<1>9. ASSUME NEW k \in Attempts, Subprocess(k) PROVE SpawnInSwap'
  BY <1>5, <1>9 DEF Subprocess, CrossBarrier, LoadWeights, Dies, Reclaim, SubprocessFrame
<1>10. ASSUME NEW u \in Unloaders, Admin(u) PROVE SpawnInSwap'
  BY <1>5, <1>10 DEF Admin, AdminWait, AdminUnload, AdminReturn
<1>11. CASE UNCHANGED vars
  BY <1>5, <1>11 DEF vars
<1>12. QED
  BY <1>1, <1>2, <1>3, <1>4, <1>6, <1>7, <1>8, <1>9, <1>10, <1>11 DEF Next

(* As long as no pool load raises, at most one call of from_vllm_config()   *)
(* is under way, whatever else fails, with or without a pool: the spawn     *)
(* task under way is that of the current swap, and no swap ends before it.  *)
THEOREM OneLoadAtATime ==
  ASSUME "pool" \notin Faults
  PROVE  Spec => []NeverTwoLoads
<1>1. Init => TypeOK /\ SpawnInSwap
  BY TypeInit, SpawnInit
<1>2. TypeOK /\ SpawnInSwap /\ [Next]_vars => TypeOK' /\ SpawnInSwap'
  BY TypeStep, SpawnStep
<1>3. SpawnInSwap => NeverTwoLoads
  BY DEF SpawnInSwap, NeverTwoLoads, Loads, Pending
<1>4. QED
  BY <1>1, <1>2, <1>3, PTL DEF Spec
-----------------------------------------------------------------------------
(* An engine is installed, served and taken down.                          *)

\* How far a spawn task and its subprocess may be apart.
SpawnStages ==
  /\ \A k \in Attempts : spawn_task[k] # "none" => k <= swaps
  /\ swap \in {"start", "load"} \cup (IF UsePool THEN {} ELSE {"drain", "vram"})
       => spawn_task[swaps] = "none"
  /\ \A k \in Attempts :
       /\ spawn_task[k] \in {"none", "launch"} => proc[k] = "none"
       /\ spawn_task[k] = "init" => proc[k] = "up"
       /\ proc[k] \in {"barrier", "loading"} => spawn_task[k] = "handshake"
       /\ proc[k] = "up" => spawn_task[k] \in {"handshake", "init", "ok"}

\* With a pool, the subprocess of a swap inherits the go-file of that swap,
\* which exists only once the old engine is gone and the pool is filled.
BarrierKept ==
  UsePool =>
    /\ swap # "load"
    /\ swap \in {"drain", "vram", "pool", "spawn"} => env_go = swaps
    /\ swap = "spawn" => pool_task = "ok"
    /\ \A k \in Attempts : spawn_task[k] = "handshake" => inherited_go[k] = k
    /\ \A k \in go_files : /\ k <= swaps
                           /\ k = swaps => swap \notin {"start", "drain", "vram", "pool"}

\* No engine is installed while another one loads, and what is installed
\* belongs together.
EngineInstalled ==
  /\ swap \in {"vram", "pool", "load", "except"} => engine = 0
  /\ swap = "spawn" /\ spawn_task[swaps] \in Pending \cup {"err"} => engine = 0
  /\ \A k \in Attempts :
       spawn_task[k] \in Pending /\ proc[k] \in {"loading", "up"} => swap = "spawn"
  /\ \A k \in Attempts : spawn_task[k] = "init" => serving_chat = k
  /\ engine = 0 => active_name = None
  /\ engine # 0 => /\ engine <= swaps
                   /\ proc[engine] = "up" /\ spawn_task[engine] = "ok"
                   /\ active_name = target[engine] /\ active_name \in Models
                   /\ serving_chat = engine

ServedNow ==
  \A r \in Granted : engine # 0 /\ handler[r] = engine /\ asked[r] = active_name

ServingInvariant ==
  QueueInvariant /\ SpawnInSwap /\ SpawnStages /\ BarrierKept /\ EngineInstalled /\ ServedNow

LEMMA ServingInit == Init => SpawnStages /\ BarrierKept /\ EngineInstalled /\ ServedNow
BY DEF Init, SpawnStages, BarrierKept, EngineInstalled, ServedNow, Granted, UsePool

\* Steps that leave the swap, its tasks, the subprocesses and the engine alone.
LEMMA QuietSteps ==
  ASSUME [Next]_vars
  PROVE  \/ UNCHANGED <<serving, tasks, system>>
         \/ Dispatch \/ SwapTask \/ PoolDone
         \/ \E k \in Attempts : SpawnTask(k) \/ Subprocess(k)
         \/ \E u \in Unloaders : AdminUnload(u)
<1>1. ASSUME NEW r \in Requests, NEW m \in Models, NEW at, Acquire(r, m, at)
      PROVE  UNCHANGED <<serving, tasks, system>>
  BY <1>1 DEF Acquire
<1>2. ASSUME NEW r \in Requests, Cancel(r) \/ Finish(r)
      PROVE  UNCHANGED <<serving, tasks, system>>
  BY <1>2 DEF Cancel, Finish
<1>3. CASE DispatcherDies \/ Stop
  BY <1>3 DEF DispatcherDies, Stop
<1>4. ASSUME NEW u \in Unloaders, AdminWait(u) \/ AdminReturn(u)
      PROVE  UNCHANGED <<serving, tasks, system>>
  BY <1>4 DEF AdminWait, AdminReturn
<1>5. CASE UNCHANGED vars
  BY <1>5 DEF vars
<1>6. QED
  BY <1>1, <1>2, <1>3, <1>4, <1>5 DEF Next, Admin

\* What SpawnInSwap says of a task under way, and what the swap then has.
LEMMA UnderWay ==
  ASSUME TypeOK, TargetKnown, SpawnInSwap, NEW k \in Attempts, spawn_task[k] \in Pending
  PROVE  /\ k = swaps /\ target[k] \in Models
         /\ \/ swap = "spawn"
            \/ UsePool /\ swap \in {"drain", "vram", "pool"}
BY DEF SpawnInSwap, SpawnWindow, TargetKnown

LEMMA StagesSwapStep ==
  ASSUME TypeOK, TargetKnown, SpawnStages, EngineInstalled, SwapTask
  PROVE  SpawnStages'
<1>1. swap # "none" => swaps \in Attempts
  BY DEF TargetKnown
<1>2. swaps \in Nat /\ swaps' = swaps
  <2>1. swaps \in Nat
    BY BoundsAssumption DEF TypeOK, Engines
  <2>2. swaps' = swaps
    BY DEF SwapTask, SwapStart, SwapWait, SwapUnload, SwapBaseline, SwapGo,
           SwapPoolFailed, SwapLoad, SwapSpawned, SwapSpawnFailed, SwapReject,
           SwapEnd, tasks
  <2>3. QED
    BY <2>1, <2>2
<1>3. CASE SwapStart
  <2>1. spawn_task[swaps] = "none" /\ swaps \in Attempts /\ swap' = "drain"
        /\ UNCHANGED proc
    BY <1>1, <1>3 DEF SwapStart, SwapStep, SpawnStages
  <2>2. CASE UsePool
    <3>1. spawn_task' = [spawn_task EXCEPT ![swaps] = "launch"] /\ UsePool'
      BY <1>3, <2>2 DEF SwapStart, UsePool
    <3>2. QED
      BY <1>2, <2>1, <3>1 DEF SpawnStages, TypeOK
  <2>3. CASE ~UsePool
    BY <1>2, <1>3, <2>1, <2>3 DEF SwapStart, SpawnStages
  <2>4. QED
    BY <2>2, <2>3
<1>4. CASE SwapLoad
  <2>1. /\ spawn_task[swaps] = "none" /\ swaps \in Attempts /\ swap' = "spawn"
        /\ UNCHANGED proc /\ spawn_task' = [spawn_task EXCEPT ![swaps] = "launch"]
    BY <1>1, <1>4 DEF SwapLoad, SwapStep, SpawnStages, system
  <2>2. QED
    BY <1>2, <2>1 DEF SpawnStages, TypeOK
<1>5. CASE SwapUnload
  <2>1. UNCHANGED <<spawn_task, pool_task>> /\ swap = "drain" /\ swap' \in {"vram", Unloaded}
    BY <1>5 DEF SwapUnload
  <2>2. swap' \in {"start", "load"} \cup (IF UsePool' THEN {} ELSE {"drain", "vram"})
          => spawn_task'[swaps'] = "none"
    BY <1>2, <2>1 DEF SpawnStages, Unloaded, UsePool
  <2>3. \/ UNCHANGED proc
        \/ /\ engine \in Attempts /\ spawn_task[engine] = "ok"
           /\ proc' = [proc EXCEPT ![engine] = "dying"]
    BY <1>5, BoundsAssumption
       DEF SwapUnload, TakeDown, EngineInstalled, TypeOK, Engines, Attempts
  <2>4. QED
    BY <1>2, <2>1, <2>2, <2>3 DEF SpawnStages, TypeOK
<1>6. ASSUME UNCHANGED <<spawn_task, proc, pool_task>>,
             swap' \in {"start", "load", "drain", "vram"}
               => \/ swap' = swap
                  \/ swap = "vram" /\ swap' = "load" /\ ~UsePool
      PROVE  SpawnStages'
  BY <1>2, <1>6 DEF SpawnStages, UsePool
<1>7. CASE SwapWait
  BY <1>6, <1>7 DEF SwapWait, tasks, system
<1>8. CASE SwapBaseline
  BY <1>6, <1>8 DEF SwapBaseline, SwapStep, Unloaded, system
<1>9. CASE SwapGo \/ SwapPoolFailed \/ SwapSpawned \/ SwapSpawnFailed
           \/ SwapReject \/ SwapEnd
  BY <1>6, <1>9 DEF SwapGo, SwapPoolFailed, SwapSpawned, SwapSpawnFailed,
                    SwapReject, SwapEnd, SwapStep, system
<1>10. QED
  BY <1>3, <1>4, <1>5, <1>7, <1>8, <1>9 DEF SwapTask

LEMMA StagesStep ==
  ASSUME "pool" \notin Faults, TypeOK, TargetKnown, SpawnInSwap, SpawnStages,
         EngineInstalled, [Next]_vars
  PROVE  SpawnStages'
<1>1. swaps \in Nat
  BY BoundsAssumption DEF TypeOK, Engines
<1>2. CASE UNCHANGED <<serving, tasks, system>>
  BY <1>2 DEF SpawnStages, UsePool, tasks, system
<1>3. CASE Dispatch
  <2>1. UNCHANGED <<spawn_task, proc, pool_task>>
    BY <1>3 DEF Dispatch, system
  <2>2. CASE NoCommit
    BY <2>1, <2>2 DEF NoCommit, NoSwap, SpawnStages, UsePool
  <2>3. ASSUME NEW m \in Models, Commit(m) PROVE SpawnStages'
    <3>1. swaps' = swaps + 1 /\ swaps' \in Attempts /\ swap' = "start"
      BY <2>3, EngineNumbers DEF Commit, TypeOK
    <3>2. spawn_task[swaps + 1] = "none"
      BY <1>1, <3>1 DEF SpawnStages, TypeOK
    <3>3. QED
      BY <1>1, <2>1, <3>1, <3>2 DEF SpawnStages, UsePool, TypeOK
  <2>4. QED
    BY <1>3, <2>2, <2>3 DEF Dispatch
<1>4. CASE SwapTask
  BY <1>4, StagesSwapStep
<1>5. CASE PoolDone
  BY <1>5 DEF PoolDone, SpawnStages, UsePool, system
<1>6. ASSUME NEW k \in Attempts, SpawnTask(k) PROVE SpawnStages'
  <2>1. UNCHANGED <<swap, swaps, pool_task>> /\ spawn_task[k] \in Pending
    BY <1>6 DEF SpawnTask, SpawnFork, SpawnFails, InstallHandler, InstallEngine,
                InitFails, Recovered, Spawn, Pending
  <2>2. k = swaps /\ (swap = "spawn" \/ (UsePool /\ swap \in {"drain", "vram", "pool"}))
    BY <2>1, UnderWay
  <2>3. ASSUME NEW to, spawn_task' = [spawn_task EXCEPT ![k] = to],
               \A j \in Attempts \ {k} : proc'[j] = proc[j],
               /\ to \in {"none", "launch"} => proc'[k] = "none"
               /\ to = "init" => proc'[k] = "up"
               /\ proc'[k] \in {"barrier", "loading"} => to = "handshake"
               /\ proc'[k] = "up" => to \in {"handshake", "init", "ok"}
        PROVE  SpawnStages'
    BY <1>1, <2>1, <2>2, <2>3 DEF SpawnStages, UsePool, TypeOK
  <2>4. CASE SpawnFork(k)
    BY <2>3, <2>4 DEF SpawnFork, Spawn, Process, TypeOK
  <2>5. CASE SpawnFails(k)
    BY <2>3, <2>5 DEF SpawnFails, Spawn, SpawnStages, system
  <2>6. CASE InstallHandler(k)
    BY <2>3, <2>6 DEF InstallHandler, Spawn, system
  <2>7. CASE InstallEngine(k)
    BY <2>3, <2>7 DEF InstallEngine, Spawn, SpawnStages, system
  <2>8. CASE InitFails(k)
    BY <2>3, <2>8 DEF InitFails, Spawn, Process, TypeOK
  <2>9. CASE Recovered(k)
    BY <2>3, <2>9 DEF Recovered, Spawn, SpawnStages, system
  <2>10. QED
    BY <1>6, <2>4, <2>5, <2>6, <2>7, <2>8, <2>9 DEF SpawnTask
<1>7. ASSUME NEW k \in Attempts, Subprocess(k) PROVE SpawnStages'
  <2>1. UNCHANGED tasks /\ \A j \in Attempts \ {k} : proc'[j] = proc[j]
    BY <1>7 DEF Subprocess, CrossBarrier, LoadWeights, Dies, Reclaim, Process,
                SubprocessFrame, TypeOK
  <2>2. \/ proc[k] = "barrier" /\ proc'[k] \in {"loading", "gone"}
        \/ proc[k] = "loading" /\ proc'[k] \in {"up", "dying"}
        \/ proc[k] = "dying" /\ proc'[k] = "gone"
    BY <1>7 DEF Subprocess, CrossBarrier, LoadWeights, Dies, Reclaim, Process, TypeOK
  <2>3. QED
    BY <2>1, <2>2 DEF SpawnStages, UsePool, tasks
<1>8. ASSUME NEW u \in Unloaders, AdminUnload(u) PROVE SpawnStages'
  <2>1. UNCHANGED tasks /\ engine \in Attempts /\ spawn_task[engine] = "ok"
        /\ proc' = [proc EXCEPT ![engine] = "dying"]
    BY <1>8, BoundsAssumption
       DEF AdminUnload, TakeDown, EngineInstalled, TypeOK, Engines, Attempts
  <2>2. QED
    BY <2>1 DEF SpawnStages, UsePool, tasks, TypeOK
<1>9. QED
  BY <1>2, <1>3, <1>4, <1>5, <1>6, <1>7, <1>8, QuietSteps

LEMMA BarrierSwapStep ==
  ASSUME TypeOK, TargetKnown, BarrierKept, SwapTask
  PROVE  BarrierKept'
<1>1. SUFFICES ASSUME UsePool' PROVE BarrierKept'
  BY DEF BarrierKept
<1>2. UsePool /\ swaps' = swaps
  BY <1>1 DEF UsePool, SwapTask, SwapStart, SwapWait, SwapUnload, SwapBaseline,
       SwapGo, SwapPoolFailed, SwapLoad, SwapSpawned, SwapSpawnFailed, SwapReject,
       SwapEnd, tasks
<1>3. CASE SwapStart
  <2>1. /\ swap = "start" /\ swap' = "drain" /\ env_go' = swaps /\ UNCHANGED go_files
        /\ swaps \in Attempts
        /\ spawn_task' = [spawn_task EXCEPT ![swaps] = "launch"] /\ UNCHANGED inherited_go
    BY <1>2, <1>3 DEF SwapStart, SwapStep, TargetKnown
  <2>2. QED
    BY <1>2, <2>1 DEF BarrierKept, TypeOK
<1>4. ASSUME UNCHANGED <<spawn_task, inherited_go, pool_task, env_go>>,
             go_files' \subseteq go_files,
             swap' \in {"start", "drain", "vram", "pool", "spawn", "load"}
               => \/ swap' = swap
                  \/ swap \in {"drain", "vram"} /\ swap' \in {"vram", "pool"}
      PROVE  BarrierKept'
  BY <1>2, <1>4 DEF BarrierKept
<1>5. CASE SwapWait
  <2>1. UNCHANGED <<swap, spawn_task, inherited_go, pool_task, env_go, go_files>>
    BY <1>5 DEF SwapWait, tasks, system
  <2>2. QED
    BY <1>4, <2>1
<1>6. CASE SwapUnload
  BY <1>2, <1>4, <1>6 DEF SwapUnload, Unloaded
<1>7. CASE SwapBaseline
  BY <1>2, <1>4, <1>7 DEF SwapBaseline, SwapStep, Unloaded, system
<1>8. CASE SwapGo
  <2>1. /\ swap = "pool" /\ swap' = "spawn" /\ pool_task = "ok"
        /\ go_files' \subseteq go_files \cup {swaps}
        /\ UNCHANGED <<spawn_task, inherited_go, pool_task, env_go>>
    BY <1>8 DEF SwapGo, SwapStep, TouchGoFile
  <2>2. swaps <= swaps
    BY BoundsAssumption DEF TypeOK, Engines
  <2>3. QED
    BY <1>2, <2>1, <2>2 DEF BarrierKept
<1>9. CASE SwapLoad
  BY <1>2, <1>9 DEF SwapLoad, SwapStep, BarrierKept
<1>10. CASE SwapSpawned
  <2>1. /\ swap' = "finally" /\ go_files' \subseteq go_files
        /\ UNCHANGED <<spawn_task, inherited_go, pool_task>>
    BY <1>10 DEF SwapSpawned, SwapStep
  <2>2. QED
    BY <1>2, <2>1 DEF BarrierKept
<1>11. CASE SwapPoolFailed \/ SwapSpawnFailed \/ SwapReject \/ SwapEnd
  BY <1>4, <1>11 DEF SwapPoolFailed, SwapSpawnFailed, SwapReject, SwapEnd, SwapStep, system
<1>12. QED
  BY <1>3, <1>5, <1>6, <1>7, <1>8, <1>9, <1>10, <1>11 DEF SwapTask

LEMMA BarrierStep ==
  ASSUME TypeOK, TargetKnown, SpawnInSwap, BarrierKept, [Next]_vars
  PROVE  BarrierKept'
<1>1. CASE UNCHANGED <<tasks, system>>
  BY <1>1 DEF BarrierKept, UsePool, tasks, system
<1>2. CASE Dispatch
  <2>1. UNCHANGED <<pool_task, spawn_task, env_go, inherited_go, go_files>>
    BY <1>2 DEF Dispatch, system
  <2>2. CASE NoCommit
    BY <2>1, <2>2 DEF NoCommit, NoSwap, BarrierKept, UsePool
  <2>3. ASSUME NEW m \in Models, Commit(m) PROVE BarrierKept'
    <3>1. swaps' = swaps + 1 /\ swap' = "start" /\ swaps \in Nat
      BY <2>3, BoundsAssumption DEF Commit, TypeOK, Engines
    <3>2. \A k \in go_files : k \in Nat
      BY BoundsAssumption DEF TypeOK, Engines
    <3>3. QED
      BY <2>1, <3>1, <3>2 DEF BarrierKept, UsePool
  <2>4. QED
    BY <1>2, <2>2, <2>3 DEF Dispatch
<1>3. CASE SwapTask
  BY <1>3, BarrierSwapStep
<1>4. CASE PoolDone
  BY <1>4 DEF PoolDone, BarrierKept, UsePool, system
<1>5. ASSUME NEW k \in Attempts, SpawnTask(k) PROVE BarrierKept'
  <2>1. /\ UNCHANGED <<swap, swaps, pool_task, env_go, go_files>>
        /\ spawn_task[k] \in Pending
        /\ \A j \in Attempts \ {k} : /\ spawn_task'[j] = spawn_task[j]
                                     /\ inherited_go'[j] = inherited_go[j]
    BY <1>5 DEF SpawnTask, SpawnFork, SpawnFails, InstallHandler, InstallEngine,
                InitFails, Recovered, Spawn, Pending, TypeOK, system
  <2>2. \/ spawn_task'[k] # "handshake"
        \/ inherited_go'[k] = env_go
    BY <1>5 DEF SpawnTask, SpawnFork, SpawnFails, InstallHandler, InstallEngine,
                InitFails, Recovered, Spawn, TypeOK
  <2>3. k = swaps /\ (swap = "spawn" \/ (UsePool /\ swap \in {"drain", "vram", "pool"}))
    BY <2>1, UnderWay
  <2>4. QED
    BY <2>1, <2>2, <2>3 DEF BarrierKept, UsePool
<1>6. ASSUME NEW k \in Attempts, Subprocess(k) PROVE BarrierKept'
  BY <1>6 DEF Subprocess, CrossBarrier, LoadWeights, Dies, Reclaim, SubprocessFrame,
              BarrierKept, UsePool, tasks
<1>7. ASSUME NEW u \in Unloaders, AdminUnload(u) PROVE BarrierKept'
  BY <1>7 DEF AdminUnload, BarrierKept, UsePool, tasks
<1>8. QED
  BY <1>1, <1>2, <1>3, <1>4, <1>5, <1>6, <1>7, QuietSteps

\* A subprocess passes the barrier when its swap has reached the spawn.
LEMMA CrossingStep ==
  ASSUME TypeOK, TargetKnown, SpawnInSwap, SpawnStages, BarrierKept, EngineInstalled,
         NEW k \in Attempts, CrossBarrier(k)
  PROVE  k = swaps /\ swap = "spawn" /\ engine = 0
<1>1. proc[k] = "barrier" /\ spawn_task[k] = "handshake" /\ Released(k)
  BY DEF CrossBarrier, Process, SpawnStages
<1>2. spawn_task[k] \in Pending
  BY <1>1 DEF Pending
<1>3. k = swaps /\ (swap = "spawn" \/ (UsePool /\ swap \in {"drain", "vram", "pool"}))
  BY <1>2, UnderWay
<1>4. CASE UsePool
  <2>1. inherited_go[k] = k /\ k # 0
    BY <1>1, <1>4 DEF BarrierKept, Attempts
  <2>2. k \in go_files
    BY <1>1, <2>1 DEF Released
  <2>3. QED
    BY <1>2, <1>3, <1>4, <2>2 DEF BarrierKept, EngineInstalled
<1>5. CASE ~UsePool
  BY <1>2, <1>3, <1>5 DEF EngineInstalled
<1>6. QED
  BY <1>4, <1>5

\* While a subprocess is on the GPU for a spawn task, no engine is installed.
LEMMA NoEngineMeanwhile ==
  ASSUME TypeOK, TargetKnown, SpawnInSwap, EngineInstalled,
         NEW k \in Attempts, spawn_task[k] \in Pending, proc[k] \in {"loading", "up"}
  PROVE  k = swaps /\ swap = "spawn" /\ engine = 0
<1>1. k = swaps /\ swap = "spawn"
  BY UnderWay DEF EngineInstalled
<1>2. QED
  BY <1>1 DEF EngineInstalled

\* Taking the engine down outside of "spawn" leaves nothing behind.
LEMMA TakeDownStep ==
  ASSUME TypeOK, TargetKnown, SpawnInSwap, SpawnStages, EngineInstalled, engine # 0,
         TakeDown, UNCHANGED <<swaps, spawn_task>>,
         swap' = swap \/ (swap = "drain" /\ swap' = "vram")
  PROVE  EngineInstalled'
<1>1. /\ engine \in Attempts /\ engine' = 0 /\ active_name' = None
      /\ proc' = [proc EXCEPT ![engine] = "dying"]
  BY BoundsAssumption DEF TakeDown, TypeOK, Engines, Attempts
<1>2. \A k \in Attempts : spawn_task[k] \in Pending /\ proc'[k] \in {"loading", "up"}
        => swap = "spawn" /\ swap' = "spawn"
  BY <1>1 DEF EngineInstalled, TypeOK
<1>3. \A k \in Attempts : spawn_task[k] # "init"
  <2>1. SUFFICES ASSUME NEW k \in Attempts, spawn_task[k] = "init" PROVE FALSE
    OBVIOUS
  <2>2. proc[k] = "up" /\ k # engine /\ spawn_task[k] \in Pending
    BY <2>1 DEF SpawnStages, EngineInstalled, Pending
  <2>3. QED
    BY <2>2, NoEngineMeanwhile
<1>4. QED
  BY <1>1, <1>2, <1>3 DEF EngineInstalled

LEMMA EngineSwapStep ==
  ASSUME TypeOK, TargetKnown, SpawnInSwap, SpawnStages, BarrierKept, EngineInstalled,
         SwapTask
  PROVE  EngineInstalled'
<1>1. swaps' = swaps /\ target' = target /\ (swap # "none" => swaps \in Attempts)
  BY DEF SwapTask, SwapStart, SwapWait, SwapUnload, SwapBaseline,
       SwapGo, SwapPoolFailed, SwapLoad, SwapSpawned, SwapSpawnFailed, SwapReject,
       SwapEnd, tasks, TargetKnown
<1>2. CASE SwapStart
  <2>1. /\ swap = "start" /\ swap' = "drain" /\ spawn_task[swaps] = "none"
        /\ proc[swaps] = "none" /\ UNCHANGED <<serving, proc>>
        /\ \A k \in Attempts : spawn_task'[k] # spawn_task[k]
                                 => k = swaps /\ spawn_task'[k] = "launch"
    BY <1>1, <1>2 DEF SwapStart, SwapStep, SpawnStages, TypeOK
  <2>2. engine # 0 => engine \in Attempts /\ engine # swaps
    BY <2>1, BoundsAssumption DEF EngineInstalled, TypeOK, Engines, Attempts
  <2>3. QED
    BY <1>1, <2>1, <2>2 DEF EngineInstalled, serving
<1>3. CASE SwapUnload
  <2>1. CASE engine # 0
    BY <1>1, <1>3, <2>1, TakeDownStep DEF SwapUnload
  <2>2. CASE engine = 0
    <3>1. /\ swap = "drain" /\ swap' \in {"pool", "load"}
          /\ UNCHANGED <<serving, proc, spawn_task>>
      BY <1>3, <2>2 DEF SwapUnload, Unloaded
    <3>2. QED
      BY <1>1, <2>2, <3>1 DEF EngineInstalled, serving
  <2>3. QED
    BY <2>1, <2>2
<1>4. CASE SwapLoad
  <2>1. /\ swap = "load" /\ swap' = "spawn" /\ spawn_task[swaps] = "none"
        /\ engine = 0 /\ UNCHANGED <<serving, proc>>
        /\ \A k \in Attempts : spawn_task'[k] # spawn_task[k]
                                 => k = swaps /\ spawn_task'[k] = "launch"
    BY <1>1, <1>4 DEF SwapLoad, SwapStep, SpawnStages, EngineInstalled, TypeOK, system
  <2>2. QED
    BY <1>1, <2>1 DEF EngineInstalled, serving
<1>5. ASSUME UNCHANGED <<serving, proc, spawn_task>>,
             swap' \in {"vram", "pool", "load", "spawn", "except"}
               => \/ swap' = swap \/ swap \in {"vram", "pool"}
                  \/ swap = "spawn" /\ spawn_task[swaps] = "err",
             swap = "spawn" => swap' = "spawn" \/ spawn_task[swaps] \in {"ok", "err"}
      PROVE  EngineInstalled'
  <2>1. \A k \in Attempts : spawn_task[k] \in Pending /\ proc[k] \in {"loading", "up"}
          => swap' = "spawn"
    BY <1>5, NoEngineMeanwhile DEF Pending
  <2>2. QED
    BY <1>1, <1>5, <2>1 DEF EngineInstalled, serving
<1>6. CASE SwapWait
  BY <1>5, <1>6 DEF SwapWait, tasks, system
<1>7. CASE SwapBaseline \/ SwapGo
  BY <1>5, <1>7 DEF SwapBaseline, SwapGo, SwapStep, Unloaded, system
<1>8. CASE SwapPoolFailed
  BY <1>8 DEF SwapPoolFailed, SpawnInSwap
<1>9. CASE SwapSpawned \/ SwapSpawnFailed
  BY <1>5, <1>9 DEF SwapSpawned, SwapSpawnFailed, SpawnReturned, SwapStep, system
<1>10. CASE SwapReject \/ SwapEnd
  BY <1>5, <1>10 DEF SwapReject, SwapEnd, SwapStep, system
<1>11. QED
  BY <1>2, <1>3, <1>4, <1>6, <1>7, <1>8, <1>9, <1>10 DEF SwapTask

LEMMA EngineSpawnStep ==
  ASSUME TypeOK, TargetKnown, SpawnInSwap, SpawnStages, EngineInstalled,
         NEW k \in Attempts, SpawnTask(k)
  PROVE  EngineInstalled'
<1>1. UNCHANGED <<swap, swaps, target>> /\ spawn_task[k] \in Pending
  BY DEF SpawnTask, SpawnFork, SpawnFails, InstallHandler, InstallEngine,
         InitFails, Recovered, Spawn, Pending
<1>2. /\ k = swaps /\ target[k] \in Models /\ k # engine /\ k # 0
      /\ engine # 0 => engine \in Attempts
  <2>1. k = swaps /\ target[k] \in Models
    BY <1>1, UnderWay
  <2>2. k # 0 /\ (engine # 0 => engine \in Attempts)
    BY BoundsAssumption DEF TypeOK, Engines, Attempts
  <2>3. k # engine
    BY <1>1, <2>2 DEF EngineInstalled, Pending
  <2>4. QED
    BY <2>1, <2>2, <2>3
<1>3. \A j \in Attempts \ {k} : spawn_task'[j] = spawn_task[j] /\ proc'[j] = proc[j]
  BY DEF SpawnTask, SpawnFork, SpawnFails, InstallHandler, InstallEngine,
         InitFails, Recovered, Spawn, Process, TypeOK, system
<1>4. ASSUME UNCHANGED serving, spawn_task'[k] # "init",
             \/ proc'[k] \notin {"loading", "up"}
             \/ spawn_task'[k] \notin Pending
      PROVE  EngineInstalled'
  BY <1>1, <1>2, <1>3, <1>4 DEF EngineInstalled, serving
<1>5. CASE SpawnFork(k)
  BY <1>4, <1>5 DEF SpawnFork, Spawn, Process, TypeOK
<1>6. CASE SpawnFails(k) \/ Recovered(k)
  BY <1>4, <1>6 DEF SpawnFails, Recovered, Spawn, Pending, TypeOK
<1>7. CASE InitFails(k)
  BY <1>4, <1>7 DEF InitFails, Spawn, Process, TypeOK
<1>8. CASE InstallHandler(k)
  <2>1. /\ proc[k] = "up" /\ spawn_task'[k] = "init"
        /\ UNCHANGED <<engine, active_name, proc>> /\ serving_chat' = k
    BY <1>8 DEF InstallHandler, Spawn, TypeOK, system
  <2>2. swap = "spawn" /\ engine = 0
    BY <1>1, <2>1, NoEngineMeanwhile
  <2>3. \A j \in Attempts \ {k} : spawn_task[j] \notin Pending
    BY <1>2, UnderWay
  <2>4. QED
    BY <1>1, <1>2, <1>3, <2>1, <2>2, <2>3 DEF EngineInstalled, Pending
<1>9. CASE InstallEngine(k)
  <2>1. /\ spawn_task[k] = "init" /\ spawn_task'[k] = "ok" /\ proc[k] = "up"
        /\ engine' = k /\ active_name' = target[k] /\ UNCHANGED <<serving_chat, proc>>
    BY <1>9 DEF InstallEngine, Spawn, SpawnStages, TypeOK, system
  <2>2. swap = "spawn" /\ k <= swaps /\ serving_chat = k
    BY <1>1, <1>2, <2>1, NoEngineMeanwhile DEF EngineInstalled, Attempts
  <2>3. \A j \in Attempts \ {k} : spawn_task[j] \notin Pending
    BY <1>2, UnderWay
  <2>4. QED
    BY <1>1, <1>2, <1>3, <2>1, <2>2, <2>3 DEF EngineInstalled, Pending
<1>10. QED
  BY <1>5, <1>6, <1>7, <1>8, <1>9 DEF SpawnTask

LEMMA EngineStep ==
  ASSUME TypeOK, TargetKnown, SpawnInSwap, SpawnStages, BarrierKept, EngineInstalled,
         [Next]_vars
  PROVE  EngineInstalled'
<1>1. CASE UNCHANGED <<serving, tasks, system>>
  BY <1>1 DEF EngineInstalled, serving, tasks, system
<1>2. CASE Dispatch
  <2>1. UNCHANGED <<serving, spawn_task, proc>>
    BY <1>2 DEF Dispatch, system
  <2>2. CASE NoCommit
    <3>1. UNCHANGED <<swaps, target>>
      BY <2>2 DEF NoCommit
    <3>2. CASE swap' = swap
      BY <2>1, <3>1, <3>2 DEF EngineInstalled, serving
    <3>3. CASE swap' = "none" /\ swap # "spawn"
      BY <2>1, <3>1, <3>3 DEF EngineInstalled, serving
    <3>4. QED
      BY <2>2, <3>2, <3>3 DEF NoCommit, NoSwap
  <2>3. ASSUME NEW m \in Models, Commit(m) PROVE EngineInstalled'
    <3>1. /\ swaps' = swaps + 1 /\ swap' = "start" /\ swaps \in Nat /\ swap # "spawn"
          /\ target' = [target EXCEPT ![swaps + 1] = m]
      BY <2>3, BoundsAssumption DEF Commit, NoSwap, TypeOK, Engines
    <3>2. engine # 0 => engine \in Attempts /\ engine <= swaps /\ engine # swaps + 1
      BY <3>1, BoundsAssumption DEF EngineInstalled, TypeOK, Engines, Attempts
    <3>3. engine # 0 => target'[engine] = target[engine] /\ engine <= swaps'
      BY <3>1, <3>2 DEF TypeOK, Attempts
    <3>4. QED
      BY <2>1, <3>1, <3>3 DEF EngineInstalled, serving
  <2>4. QED
    BY <1>2, <2>2, <2>3 DEF Dispatch
<1>3. CASE SwapTask
  BY <1>3, EngineSwapStep
<1>4. CASE PoolDone
  BY <1>4 DEF PoolDone, EngineInstalled, serving, system
<1>5. ASSUME NEW k \in Attempts, SpawnTask(k) PROVE EngineInstalled'
  BY <1>5, EngineSpawnStep
<1>6. ASSUME NEW k \in Attempts, Subprocess(k) PROVE EngineInstalled'
  <2>1. UNCHANGED <<serving, tasks>> /\ \A j \in Attempts \ {k} : proc'[j] = proc[j]
    BY <1>6 DEF Subprocess, CrossBarrier, LoadWeights, Dies, Reclaim, Process,
                SubprocessFrame, TypeOK
  <2>2. k # engine /\ (engine # 0 => engine \in Attempts)
    BY <1>6, BoundsAssumption
       DEF Subprocess, CrossBarrier, LoadWeights, Dies, Reclaim, Process,
           EngineInstalled, TypeOK, Engines, Attempts
  <2>3. \/ proc[k] = "loading" /\ proc'[k] \in {"up", "dying"}
        \/ proc'[k] \notin {"loading", "up"}
        \/ CrossBarrier(k)
    BY <1>6 DEF Subprocess, LoadWeights, Dies, Reclaim, Process, TypeOK
  <2>4. CASE CrossBarrier(k)
    BY <2>1, <2>2, <2>4, CrossingStep DEF EngineInstalled, serving, tasks
  <2>5. QED
    BY <2>1, <2>2, <2>3, <2>4 DEF EngineInstalled, serving, tasks
<1>7. ASSUME NEW u \in Unloaders, AdminUnload(u) PROVE EngineInstalled'
  BY <1>7, TakeDownStep DEF AdminUnload, tasks
<1>8. QED
  BY <1>1, <1>2, <1>3, <1>4, <1>5, <1>6, <1>7, QuietSteps

-----------------------------------------------------------------------------
(* Who is being served, and by what.                                       *)

LEMMA NobodyServed ==
  ASSUME SlotAccounting, in_flight = 0
  PROVE  Granted = {}
<1>1. Granted \cup Forgotten \in SUBSET Requests
  BY DEF Granted, Forgotten
<1>2. IsFiniteSet(Granted \cup Forgotten)
  BY <1>1, RequestsAssumption, FS_Subset
<1>3. QED
  BY <1>2, FS_EmptySet DEF SlotAccounting

\* The engine changes only while nobody is served: it is taken down by a
\* drained swap or an admin call, or installed by the current swap.
LEMMA EngineChanges ==
  ASSUME QueueInvariant, SpawnInSwap, SpawnStages, EngineInstalled, [Next]_vars
  PROVE  \/ UNCHANGED <<engine, active_name>>
         \/ Granted = {} /\ engine' = 0 /\ SwapUnload
         \/ Granted = {} /\ engine' = 0 /\ \E u \in Unloaders : AdminUnload(u)
         \/ engine = 0 /\ \E k \in Attempts : InstallEngine(k)
<1> USE DEF QueueInvariant
<1>1. CASE UNCHANGED serving
  BY <1>1 DEF serving
<1>2. CASE Dispatch \/ PoolDone
  BY <1>2 DEF Dispatch, PoolDone, serving
<1>3. CASE SwapTask
  <2>1. CASE SwapUnload
    <3>1. CASE engine # 0
      BY <2>1, <3>1, NobodyServed DEF SwapUnload, Drained, TakeDown
    <3>2. CASE engine = 0
      BY <2>1, <3>2 DEF SwapUnload, serving
    <3>3. QED
      BY <3>1, <3>2
  <2>2. CASE ~SwapUnload
    BY <1>3, <2>2 DEF SwapTask, SwapStart, SwapWait, SwapBaseline, SwapGo,
                      SwapPoolFailed, SwapLoad, SwapSpawned, SwapSpawnFailed,
                      SwapReject, SwapEnd, serving
  <2>3. QED
    BY <2>1, <2>2
<1>4. ASSUME NEW k \in Attempts, SpawnTask(k)
      PROVE  \/ UNCHANGED <<engine, active_name>>
             \/ engine = 0 /\ InstallEngine(k)
  <2>1. CASE InstallEngine(k)
    <3>1. spawn_task[k] \in Pending /\ proc[k] = "up"
      BY <2>1 DEF InstallEngine, Spawn, SpawnStages, Pending
    <3>2. QED
      BY <2>1, <3>1, NoEngineMeanwhile
  <2>2. CASE ~InstallEngine(k)
    BY <1>4, <2>2 DEF SpawnTask, SpawnFork, SpawnFails, InstallHandler, InitFails,
                      Recovered, serving
  <2>3. QED
    BY <2>1, <2>2
<1>5. ASSUME NEW k \in Attempts, Subprocess(k) PROVE UNCHANGED serving
  BY <1>5 DEF Subprocess, CrossBarrier, LoadWeights, Dies, Reclaim, SubprocessFrame
<1>6. ASSUME NEW u \in Unloaders, AdminUnload(u) PROVE Granted = {} /\ engine' = 0
  BY <1>6, NobodyServed DEF AdminUnload, TakeDown
<1>7. QED
  BY <1>1, <1>2, <1>3, <1>4, <1>5, <1>6, QuietSteps

LEMMA ServedStep ==
  ASSUME QueueInvariant, SpawnInSwap, SpawnStages, EngineInstalled, ServedNow, [Next]_vars
  PROVE  ServedNow'
<1> USE DEF QueueInvariant
<1>1. ASSUME UNCHANGED <<engine, active_name>>, Granted' \subseteq Granted,
             \A r \in Granted : handler'[r] = handler[r] /\ asked'[r] = asked[r]
      PROVE  ServedNow'
  BY <1>1 DEF ServedNow
<1>2. CASE Dispatch
  <2>1. UNCHANGED <<engine, active_name, asked>> /\ ServeActive
    BY <1>2 DEF Dispatch, serving
  <2>2. CASE Live
    <3>1. \A r \in Served : asked[r] = active_name
      BY <2>2 DEF Live, Served, Batch, InQueue, QueueIntegrity, OnceInQueue, EngineInstalled
    <3>2. serving_chat = engine /\ engine # 0
      BY <2>2 DEF Live, EngineInstalled
    <3>3. ASSUME NEW r \in Granted'
          PROVE  engine' # 0 /\ handler'[r] = engine' /\ asked'[r] = active_name'
      <4>1. r \in Requests /\ (r \in Served \/ r \in Granted)
        BY <2>1, <3>3 DEF ServeActive, Granted
      <4>2. handler'[r] = IF r \in Served THEN serving_chat ELSE handler[r]
        BY <2>1, <4>1 DEF ServeActive
      <4>3. CASE r \in Served
        BY <2>1, <3>1, <3>2, <4>2, <4>3
      <4>4. CASE r \notin Served
        BY <2>1, <4>1, <4>2, <4>4 DEF ServedNow
      <4>5. QED
        BY <4>3, <4>4
    <3>4. QED
      BY <3>3 DEF ServedNow
  <2>3. CASE ~Live
    <3>1. Served = {} /\ Batch = {}
      BY <2>3 DEF Served, Batch
    <3>2. UNCHANGED <<request, handler>>
      BY <2>1, <3>1 DEF ServeActive, TypeOK
    <3>3. QED
      BY <1>1, <2>1, <3>2 DEF Granted
  <2>4. QED
    BY <2>2, <2>3
<1>3. ASSUME NEW r \in Requests, NEW m \in Models, NEW at, Acquire(r, m, at)
      PROVE  ServedNow'
  BY <1>1, <1>3 DEF Acquire, Granted, TypeOK, serving
<1>4. ASSUME NEW r \in Requests, Finish(r) PROVE ServedNow'
  BY <1>1, <1>4 DEF Finish, Granted, TypeOK, serving
<1>a. ASSUME NEW r \in Requests, Cancel(r) PROVE ServedNow'
  BY <1>1, <1>a DEF Cancel, Granted, TypeOK, serving
<1>b. CASE DispatcherDies
  <2>1. UNCHANGED <<asked, handler, engine, active_name>>
    BY <1>b DEF DispatcherDies, serving
  <2>2. PICK i : request' = [x \in Requests |->
                               IF x = queues[active_name][i].req THEN "lost"
                               ELSE IF x \in Taken(i) THEN "leaked" ELSE request[x]]
    BY <1>b, DispatcherTakes
  <2>3. Granted' \subseteq Granted
    BY <2>2 DEF Granted
  <2>4. QED
    BY <1>1, <2>1, <2>3
<1>5. ASSUME NEW M, RejectQueues(M), UNCHANGED <<asked, handler, engine, active_name>>
      PROVE  ServedNow'
  BY <1>1, <1>5 DEF RejectQueues, Resolved, Granted, TypeOK
<1>6. CASE Stop
  BY <1>5, <1>6 DEF Stop, serving
<1>7. CASE SwapReject
  BY <1>5, <1>7 DEF SwapReject, serving
<1>8. ASSUME UNCHANGED clients PROVE ServedNow'
  <2>1. CASE UNCHANGED <<engine, active_name>>
    BY <1>1, <1>8, <2>1 DEF clients, Granted
  <2>2. CASE Granted = {}
    BY <1>8, <2>2 DEF clients, Granted, ServedNow
  <2>3. CASE engine = 0
    BY <1>8, <2>3 DEF clients, Granted, ServedNow
  <2>4. QED
    BY <2>1, <2>2, <2>3, EngineChanges
<1>9. CASE SwapTask /\ ~SwapReject
  BY <1>8, <1>9 DEF SwapTask, SwapStart, SwapWait, SwapUnload, SwapBaseline, SwapGo,
                    SwapPoolFailed, SwapLoad, SwapSpawned, SwapSpawnFailed, SwapEnd
<1>10. CASE PoolDone \/ UNCHANGED vars
  BY <1>8, <1>10 DEF PoolDone, vars
<1>11. ASSUME NEW k \in Attempts, SpawnTask(k) \/ Subprocess(k) PROVE ServedNow'
  BY <1>8, <1>11 DEF SpawnTask, SpawnFork, SpawnFails, InstallHandler, InstallEngine,
                     InitFails, Recovered, Subprocess, CrossBarrier, LoadWeights,
                     Dies, Reclaim, SubprocessFrame
<1>12. ASSUME NEW u \in Unloaders, Admin(u) PROVE ServedNow'
  BY <1>8, <1>12 DEF Admin, AdminWait, AdminUnload, AdminReturn
<1>13. QED
  BY <1>2, <1>3, <1>4, <1>6, <1>7, <1>9, <1>10, <1>11, <1>12, <1>a, <1>b DEF Next

LEMMA ServingInvariantHolds ==
  ASSUME "pool" \notin Faults
  PROVE  Spec => []ServingInvariant
<1>1. Init => ServingInvariant
  BY TypeInit, TargetInit, QueueInit, SlotInit, SpawnInit, ServingInit
     DEF ServingInvariant, QueueInvariant
<1>2. ServingInvariant /\ [Next]_vars => ServingInvariant'
  <2>1. SUFFICES ASSUME ServingInvariant, [Next]_vars PROVE ServingInvariant'
    OBVIOUS
  <2>2. QueueInvariant'
    BY <2>1, TypeStep, TargetStep, QueueStep, LostStep, SlotStep
       DEF ServingInvariant, QueueInvariant, QueueIntegrity
  <2>3. SpawnInSwap' /\ SpawnStages'
    BY <2>1, SpawnStep, StagesStep DEF ServingInvariant, QueueInvariant
  <2>4. BarrierKept' /\ EngineInstalled'
    BY <2>1, BarrierStep, EngineStep DEF ServingInvariant, QueueInvariant
  <2>5. ServedNow'
    BY <2>1, ServedStep DEF ServingInvariant
  <2>6. QED
    BY <2>2, <2>3, <2>4, <2>5 DEF ServingInvariant
<1>3. QED
  BY <1>1, <1>2, PTL DEF Spec

(* As long as no pool load raises, whoever is being served talks to the     *)
(* live engine of the model asked for.                                      *)
THEOREM ServedByTheRightEngine ==
  ASSUME "pool" \notin Faults
  PROVE  Spec => []ServedByLiveEngine
<1>1. ServingInvariant => ServedByLiveEngine
  BY BoundsAssumption DEF ServingInvariant, QueueInvariant, ServedNow, EngineInstalled,
     ServedByLiveEngine, TypeOK, Engines, Attempts
<1>2. QED
  BY <1>1, ServingInvariantHolds, PTL

(* As long as no pool load raises, an engine is given up only when nobody   *)
(* is served, by a swap only when nobody waits for it, and never replaced   *)
(* in place.                                                                *)
THEOREM DrainedBeforeSwitched ==
  ASSUME "pool" \notin Faults
  PROVE  Spec => DrainThenSwitch
<1>1. ServingInvariant /\ [Next]_vars =>
        [engine # 0 /\ engine' # engine =>
           /\ engine' = 0
           /\ \A r \in Requests : request[r] # "granted"
           /\ UNCHANGED admin => \A r \in Requests :
                request[r] = "waiting" => asked[r] # active_name]_vars
  <2>1. SUFFICES ASSUME ServingInvariant, [Next]_vars, engine # 0, engine' # engine
                 PROVE  /\ engine' = 0
                        /\ \A r \in Requests : request[r] # "granted"
                        /\ UNCHANGED admin => \A r \in Requests :
                             request[r] = "waiting" => asked[r] # active_name
    OBVIOUS
  <2>2. /\ engine' = 0 /\ Granted = {}
        /\ SwapUnload \/ \E u \in Unloaders : AdminUnload(u)
    BY <2>1, EngineChanges DEF ServingInvariant
  <2>3. CASE SwapUnload
    <3>1. active_name \in Models /\ queues[active_name] = <<>>
      BY <2>1, <2>3, ModelsAssumption
         DEF SwapUnload, Drained, ServingInvariant, EngineInstalled
    <3>2. InQueue(active_name) = {}
      BY <3>1 DEF InQueue
    <3>3. QED
      BY <2>1, <2>2, <3>2
         DEF Granted, ServingInvariant, QueueInvariant, QueueIntegrity, OnceInQueue
  <2>4. ASSUME NEW u \in Unloaders, AdminUnload(u), UNCHANGED admin PROVE FALSE
    BY <2>1, <2>4 DEF AdminUnload, AdminStep, ServingInvariant, QueueInvariant, TypeOK
  <2>5. QED
    BY <2>2, <2>3, <2>4 DEF Granted
<1>2. QED
  BY <1>1, ServingInvariantHolds, PTL DEF Spec, DrainThenSwitch

(* As long as no pool load raises, a subprocess passes the barrier only in  *)
(* its own swap, when the old engine is gone and the pool is filled.        *)
THEOREM BarrierHolds ==
  ASSUME "pool" \notin Faults
  PROVE  Spec => CrossesInOwnSwap
<1>1. ServingInvariant /\ [Next]_vars =>
        [\A k \in Attempts : UsePool /\ proc[k] = "barrier" /\ proc'[k] = "loading" =>
           /\ swaps = k /\ swap = "spawn"
           /\ pool_task = "ok" /\ engine = 0]_vars
  <2>1. SUFFICES ASSUME ServingInvariant, [Next]_vars, NEW k \in Attempts, UsePool,
                        proc[k] = "barrier", proc'[k] = "loading"
                 PROVE  swaps = k /\ swap = "spawn" /\ pool_task = "ok" /\ engine = 0
    OBVIOUS
  <2>2. CrossBarrier(k)
    <3>1. ASSUME UNCHANGED proc PROVE FALSE
      BY <2>1, <3>1
    <3>2. ASSUME TakeDown PROVE FALSE
      BY <2>1, <3>2 DEF TakeDown, ServingInvariant, QueueInvariant, TypeOK
    <3>3. ASSUME NEW j \in Attempts, SpawnTask(j) PROVE FALSE
      BY <2>1, <3>1, <3>3 DEF SpawnTask, SpawnFork, SpawnFails, InstallHandler,
         InstallEngine, InitFails, Recovered, Process, ServingInvariant,
         QueueInvariant, TypeOK, system
    <3>4. ASSUME NEW j \in Attempts, Subprocess(j) PROVE CrossBarrier(k)
      <4>1. j = k
        BY <2>1, <3>4 DEF Subprocess, CrossBarrier, LoadWeights, Dies, Reclaim, Process,
                          ServingInvariant, QueueInvariant, TypeOK
      <4>2. QED
        BY <2>1, <3>4, <4>1 DEF Subprocess, LoadWeights, Dies, Reclaim, Process,
                                ServingInvariant, QueueInvariant, TypeOK
    <3>5. CASE SwapTask
      BY <3>1, <3>2, <3>5 DEF SwapTask, SwapStart, SwapWait, SwapUnload, SwapBaseline,
         SwapGo, SwapPoolFailed, SwapLoad, SwapSpawned, SwapSpawnFailed, SwapReject,
         SwapEnd, system
    <3>6. CASE Dispatch \/ PoolDone \/ UNCHANGED <<serving, tasks, system>>
      BY <3>1, <3>6 DEF Dispatch, PoolDone, system
    <3>7. ASSUME NEW u \in Unloaders, AdminUnload(u) PROVE FALSE
      BY <3>2, <3>7 DEF AdminUnload
    <3>8. QED
      BY <2>1, <3>3, <3>4, <3>5, <3>6, <3>7, QuietSteps
  <2>3. k = swaps /\ swap = "spawn" /\ engine = 0
    BY <2>1, <2>2, CrossingStep DEF ServingInvariant, QueueInvariant
  <2>4. QED
    BY <2>1, <2>3 DEF ServingInvariant, BarrierKept
<1>2. QED
  BY <1>1, ServingInvariantHolds, PTL DEF Spec, CrossesInOwnSwap
-----------------------------------------------------------------------------
(* Who asks is answered, as long as nobody gives up waiting.               *)

\* An installed engine has its handler, so the dispatcher lives.
LEMMA DispatcherLives ==
  ASSUME EngineInstalled, DispatcherDies
  PROVE  FALSE
BY DEF DispatcherDies, Live, EngineInstalled

\* The dispatcher lives, nobody gives up waiting, and nobody is forgotten.
Attended ==
  /\ dispatcher # "dead"
  /\ \A r \in Requests : request[r] \notin {"cancelled", "leaked", "lost"}

LEMMA AttendedInit == Init => Attended
BY DEF Init, Attended

\* Then everybody in a queue still waits, so the whole batch is served and
\* whoever is in a queue that is refused is refused.
LEMMA AllWait ==
  ASSUME TypeOK, OnceInQueue, Attended, NEW m \in Models
  PROVE  InQueue(m) = {r \in Requests : request[r] = "waiting" /\ asked[r] = m}
<1>1. \A r \in InQueue(m) : r \in Requests /\ request[r] = "waiting" /\ asked[r] = m
  BY QueueType DEF InQueue, OnceInQueue, Attended
<1>2. QED
  BY <1>1 DEF OnceInQueue

LEMMA BatchServed ==
  ASSUME TypeOK, OnceInQueue, Attended
  PROVE  Served = Batch
<1>1. CASE Live
  BY <1>1, AllWait DEF Live, Served, Batch, TypeOK
<1>2. CASE ~Live
  BY <1>2 DEF Served, Batch
<1>3. QED
  BY <1>1, <1>2

LEMMA AttendedStep ==
  ASSUME "cancel" \notin Faults, QueueInvariant, EngineInstalled, Attended, [Next]_vars
  PROVE  Attended'
<1> USE DEF QueueInvariant
<1>0. dispatcher' # "dead"
  BY DispatcherEnds, DispatcherLives DEF Attended
<1>1. ASSUME NEW r \in Requests,
             \/ Cancel(r) \/ Finish(r)
             \/ \E m \in Models, at \in 1..Cardinality(Requests) : Acquire(r, m, at)
      PROVE  Attended'
  BY <1>0, <1>1 DEF Cancel, Finish, Acquire, Attended, TypeOK
<1>2. CASE ServeActive
  <2>1. Served = Batch
    BY BatchServed DEF QueueIntegrity
  <2>2. QED
    BY <1>0, <1>2, <2>1 DEF ServeActive, Attended, TypeOK
<1>3. CASE DispatcherDies
  BY <1>3, DispatcherLives
<1>4. ASSUME NEW M \in SUBSET Models, RejectQueues(M) PROVE Attended'
  BY <1>0, <1>4 DEF RejectQueues, Resolved, Attended, TypeOK
<1>5. CASE UNCHANGED <<request, asked, queues, in_flight>>
  BY <1>0, <1>5 DEF Attended
<1>6. QED
  BY <1>1, <1>2, <1>3, <1>4, <1>5, RequestSteps

LEMMA AttendedHolds ==
  ASSUME "pool" \notin Faults, "cancel" \notin Faults
  PROVE  Spec => []Attended
<1>1. ServingInvariant /\ Attended /\ [Next]_vars => Attended'
  BY AttendedStep DEF ServingInvariant
<1>2. QED
  BY <1>1, AttendedInit, ServingInvariantHolds, PTL DEF Spec

(* As long as no pool load raises and no caller gives up waiting, nobody    *)
(* leaves a queue with a slot and no handler: every engine that requests    *)
(* are handed to has one, and the dispatcher lives.                         *)
THEOREM NobodyIsForgotten ==
  ASSUME "pool" \notin Faults, "cancel" \notin Faults
  PROVE  Spec => []NobodyForgotten
<1>1. Attended => NobodyForgotten
  BY DEF Attended, NobodyForgotten, Forgotten
<1>2. QED
  BY <1>1, AttendedHolds, PTL
=============================================================================
