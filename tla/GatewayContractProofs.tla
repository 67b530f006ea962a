------------------------ MODULE GatewayContractProofs ------------------------
(***************************************************************************)
(* Gateway implements ServingContract as long as no pool load raises and   *)
(* nobody gives up waiting: the queues, the swap and its tasks, the        *)
(* subprocesses, the barrier and the lock are all invisible to the clients. *)
(***************************************************************************)
EXTENDS GatewaySwapProofs

\* A swap that is to load its model does so because somebody waits for that
\* model, which is not the active one.
Loading == \/ swap \in {"start", "drain", "vram", "pool", "load"}
           \/ swap = "spawn" /\ spawn_task[swaps] \in Pending
Demand == Loading => /\ dispatcher = "running" => queues[target[swaps]] # <<>>
                     /\ active_name # target[swaps]

LEMMA DemandInit == Init => Demand
BY DEF Init, Demand, Loading

\* Loading is over when the swap is, and never starts again without a commit.
LEMMA LoadingEnds ==
  ASSUME TypeOK, TargetKnown, SpawnInSwap, [Next]_vars, Loading', swaps' = swaps
  PROVE  Loading /\ swaps \in Attempts /\ target'[swaps] = target[swaps]
<1>1. CASE SwapTask
  BY <1>1 DEF SwapTask, SwapStart, SwapWait, SwapUnload, SwapBaseline, SwapGo,
     SwapPoolFailed, SwapLoad, SwapSpawned, SwapSpawnFailed, SpawnReturned, SwapReject,
     SwapEnd, SwapStep, Unloaded, Loading, TargetKnown, Pending, tasks
<1>2. CASE Dispatch
  <2>1. swaps' # swaps + 1 /\ NoCommit
    <3>1. swaps \in Nat
      BY BoundsAssumption DEF TypeOK, Engines
    <3>2. QED
      BY <1>2, <3>1 DEF Dispatch, Commit
  <2>2. QED
    BY <1>2, <2>1 DEF Dispatch, NoCommit, Loading, TargetKnown
<1>3. CASE PoolDone \/ UNCHANGED <<serving, tasks, system>>
  BY <1>3 DEF PoolDone, Loading, TargetKnown, tasks
<1>4. ASSUME NEW k \in Attempts, SpawnTask(k)
      PROVE  Loading /\ swaps \in Attempts /\ target'[swaps] = target[swaps]
  <2>1. UNCHANGED <<swap, swaps, target>> /\ spawn_task[k] \in Pending
    BY <1>4 DEF SpawnTask, SpawnFork, SpawnFails, InstallHandler, InstallEngine,
                InitFails, Recovered, Spawn, Pending
  <2>2. k = swaps
    BY <2>1, UnderWay
  <2>3. QED
    BY <2>1, <2>2 DEF Loading
<1>5. ASSUME NEW k \in Attempts, Subprocess(k)
      PROVE  Loading /\ swaps \in Attempts /\ target'[swaps] = target[swaps]
  BY <1>5 DEF Subprocess, CrossBarrier, LoadWeights, Dies, Reclaim, SubprocessFrame,
              Loading, TargetKnown, tasks
<1>6. ASSUME NEW u \in Unloaders, AdminUnload(u)
      PROVE  Loading /\ swaps \in Attempts /\ target'[swaps] = target[swaps]
  BY <1>6 DEF AdminUnload, Loading, TargetKnown, tasks
<1>7. QED
  BY <1>1, <1>2, <1>3, <1>4, <1>5, <1>6, QuietSteps

LEMMA DemandStep ==
  ASSUME ServingInvariant, Demand, [Next]_vars
  PROVE  Demand'
<1> USE DEF ServingInvariant, QueueInvariant
<1>1. SUFFICES ASSUME Loading' PROVE Demand'
  BY DEF Demand
<1>2. ASSUME NEW m \in Models, Dispatch, Commit(m) PROVE Demand'
  <2>1. /\ swaps' = swaps + 1 /\ swaps' \in Attempts /\ target'[swaps'] = m
        /\ m # active_name /\ queues[m] # <<>>
    BY <1>2, EngineNumbers DEF Commit, PickNext, Candidates, TypeOK
  <2>2. queues'[m] = queues[m] /\ active_name' = active_name
    BY <1>2, <2>1 DEF Dispatch, ServeActive, serving, TypeOK
  <2>3. QED
    BY <2>1, <2>2 DEF Demand
<1>3. ASSUME swaps' = swaps PROVE Demand'
  <2>1. /\ Loading /\ target'[swaps'] = target[swaps]
        /\ target[swaps] \in Models /\ target[swaps] # None
    BY <1>1, <1>3, LoadingEnds, ModelsAssumption DEF Loading, TargetKnown
  <2>2. active_name' # target[swaps]
    <3>1. CASE UNCHANGED active_name
      BY <2>1, <3>1 DEF Demand
    <3>2. CASE SwapUnload \/ \E u \in Unloaders : AdminUnload(u)
      BY <2>1, <3>1, <3>2 DEF SwapUnload, AdminUnload, TakeDown, serving
    <3>3. ASSUME NEW k \in Attempts, InstallEngine(k) PROVE FALSE
      <4>1. spawn_task[k] = "init" /\ proc[k] = "up" /\ spawn_task'[k] = "ok"
            /\ swap' = swap
        BY <3>3 DEF InstallEngine, Spawn, SpawnStages, TypeOK
      <4>2. k = swaps /\ swap = "spawn"
        BY <4>1, NoEngineMeanwhile DEF Pending
      <4>3. QED
        BY <1>1, <1>3, <4>1, <4>2 DEF Loading, Pending
    <3>4. QED
      BY <3>1, <3>2, <3>3, EngineChanges
  <2>3. ASSUME dispatcher' = "running" PROVE queues'[target[swaps]] # <<>>
    <3>1. dispatcher = "running"
      BY <2>3, DispatcherEnds
    <3>2. queues[target[swaps]] # <<>> /\ active_name # target[swaps]
      BY <2>1, <3>1 DEF Demand
    <3>3. ASSUME NEW r \in Requests, NEW m \in Models, NEW at \in 1..Cardinality(Requests),
                 Acquire(r, m, at)
          PROVE  queues'[target[swaps]] # <<>>
      <4>1. queues[m] \in Seq([req : Requests, at : Nat])
        BY QueueType
      <4>2. at \in Nat
        OBVIOUS
      <4>3. Append(queues[m], [req |-> r, at |-> at]) # <<>>
        BY <4>1, <4>2
      <4>4. QED
        BY <2>1, <3>2, <3>3, <4>3 DEF Acquire, TypeOK
    <3>4. CASE ServeActive
      BY <2>1, <3>2, <3>4 DEF ServeActive, TypeOK
    <3>5. CASE UNCHANGED queues
      BY <3>2, <3>5
    <3>6. CASE Stop
      BY <2>3, <3>6 DEF Stop
    <3>7. CASE SwapReject
      BY <2>1, <3>7 DEF SwapReject, SwapStep, Loading
    <3>8. QED
      BY <3>3, <3>4, <3>5, <3>6, <3>7, DispatcherLives
         DEF Next, Cancel, Finish, Dispatch, SwapTask, SwapStart, SwapWait,
         SwapUnload, SwapBaseline, SwapGo, SwapPoolFailed, SwapLoad, SwapSpawned,
         SwapSpawnFailed, SwapEnd, PoolDone, SpawnTask, SpawnFork, SpawnFails,
         InstallHandler, InstallEngine, InitFails, Recovered, Subprocess, CrossBarrier,
         LoadWeights, Dies, Reclaim, SubprocessFrame, Admin, AdminWait, AdminUnload,
         AdminReturn, vars
  <2>4. QED
    BY <1>3, <2>1, <2>2, <2>3 DEF Demand
<1>4. CASE swaps' # swaps
  <2>1. Dispatch
    BY <1>4, QuietSteps
       DEF SwapTask, SwapStart, SwapWait, SwapUnload, SwapBaseline, SwapGo, SwapPoolFailed,
       SwapLoad, SwapSpawned, SwapSpawnFailed, SwapReject, SwapEnd, PoolDone, SpawnTask,
       SpawnFork, SpawnFails, InstallHandler, InstallEngine, InitFails, Recovered,
       Subprocess, CrossBarrier, LoadWeights, Dies, Reclaim, SubprocessFrame, AdminUnload,
       tasks
  <2>2. QED
    BY <1>2, <1>4, <2>1, SwapsGrow
<1>5. QED
  BY <1>3, <1>4
-----------------------------------------------------------------------------
(* Every step of the gateway is a step of the contract, or none.           *)

LEMMA ContractInit == Init => Contract!Init
BY DEF Init, Contract!Init

LEMMA ContractSubmit ==
  ASSUME TypeOK, NEW r \in Requests, NEW m \in Models, NEW at, Acquire(r, m, at)
  PROVE  Contract!Submit(r, m)
BY DEF Acquire, serving, TypeOK, Contract!Submit, Contract!Move

LEMMA ContractAnswer ==
  ASSUME TypeOK, NEW r \in Requests, Finish(r)
  PROVE  Contract!Answer(r)
BY DEF Finish, serving, TypeOK, Contract!Answer, Contract!Move

LEMMA ContractShutdown ==
  ASSUME TypeOK, OnceInQueue, Attended, Stop
  PROVE  Contract!Shutdown
<1>1. \A r \in Requests : (\E m \in Models : r \in InQueue(m)) <=> request[r] = "waiting"
  BY AllWait DEF OnceInQueue
<1>2. QED
  BY <1>1 DEF Stop, RejectQueues, Resolved, serving, Contract!Shutdown, Contract!Move

LEMMA ContractServe ==
  ASSUME TypeOK, OnceInQueue, Attended, EngineInstalled, Dispatch
  PROVE  Contract!Serve \/ UNCHANGED <<active_name, request, asked, dispatcher>>
<1>1. /\ UNCHANGED <<active_name, asked, dispatcher>>
      /\ request' = [r \in Requests |-> IF r \in Batch THEN "granted" ELSE request[r]]
  BY BatchServed DEF Dispatch, ServeActive, serving
<1>2. CASE Batch = {}
  BY <1>1, <1>2 DEF TypeOK
<1>3. CASE Batch # {}
  <2>1. active_name \in Models /\ active_name # None /\ Batch = InQueue(active_name)
    BY <1>3 DEF Batch, Live, EngineInstalled
  <2>2. Batch = Contract!Waiting(active_name)
    BY <2>1, AllWait DEF Contract!Waiting
  <2>3. QED
    BY <1>1, <1>3, <2>1, <2>2 DEF Contract!Serve, Contract!Move
<1>4. QED
  BY <1>2, <1>3

LEMMA ContractReject ==
  ASSUME TypeOK, TargetKnown, OnceInQueue, Attended, EngineInstalled, SwapReject
  PROVE  \/ \E m \in Models : Contract!Reject(m)
         \/ UNCHANGED <<active_name, request, asked, dispatcher>>
<1> DEFINE m == target[swaps]
<1>1. m \in Models /\ active_name = None
  BY DEF SwapReject, SwapStep, TargetKnown, EngineInstalled
<1>2. /\ UNCHANGED <<active_name, asked, dispatcher>>
      /\ request' = [r \in Requests |-> IF r \in InQueue(m) THEN "rejected" ELSE request[r]]
  BY <1>1, AllWait DEF SwapReject, RejectQueues, Resolved, serving, control
<1>3. InQueue(m) = Contract!Waiting(m)
  BY <1>1, AllWait DEF Contract!Waiting
<1> HIDE DEF m
<1>4. CASE InQueue(m) = {}
  BY <1>2, <1>4 DEF TypeOK
<1>5. CASE InQueue(m) # {}
  BY <1>1, <1>2, <1>3, <1>5 DEF Contract!Reject, Contract!Move
<1>6. QED
  BY <1>4, <1>5

LEMMA ContractUnload ==
  ASSUME EngineInstalled, engine # 0, Granted = {}, TakeDown,
         UNCHANGED <<request, asked, dispatcher>>
  PROVE  Contract!Unload
BY ModelsAssumption
   DEF EngineInstalled, Granted, TakeDown, Contract!Unload, Contract!Granted

LEMMA ContractLoad ==
  ASSUME ServingInvariant, Attended, Demand, NEW k \in Attempts, InstallEngine(k)
  PROVE  Contract!Load(target[k])
<1> USE DEF ServingInvariant, QueueInvariant, QueueIntegrity
<1>1. spawn_task[k] = "init" /\ proc[k] = "up" /\ spawn_task[k] \in Pending
  BY DEF InstallEngine, Spawn, SpawnStages, Pending
<1>2. k = swaps /\ swap = "spawn" /\ engine = 0 /\ active_name = None
      /\ target[k] \in Models
  BY <1>1, NoEngineMeanwhile, UnderWay DEF EngineInstalled
<1>3. dispatcher = "running" => queues[target[k]] # <<>>
  BY <1>1, <1>2 DEF Demand, Loading
<1>4. dispatcher = "running" => InQueue(target[k]) # {}
  <2>1. SUFFICES ASSUME queues[target[k]] # <<>> PROVE InQueue(target[k]) # {}
    BY <1>3
  <2>2. 1 \in 1..Len(queues[target[k]])
    BY <1>2, <2>1, QueueType
  <2>3. QED
    BY <2>2 DEF InQueue
<1>5. Contract!Waiting(target[k]) # {} \/ dispatcher = "cancelled"
  BY <1>2, <1>4, AllWait DEF Contract!Waiting, Attended, TypeOK
<1>6. QED
  BY <1>2, <1>5 DEF InstallEngine, clients, control, Contract!Load

LEMMA ContractStep ==
  ASSUME "cancel" \notin Faults, ServingInvariant, Attended, Demand, [Next]_vars
  PROVE  [Contract!Next]_(Contract!vars)
<1> USE DEF ServingInvariant, QueueInvariant, QueueIntegrity
<1>1. ASSUME UNCHANGED <<active_name, request, asked, dispatcher>>
      PROVE  [Contract!Next]_(Contract!vars)
  BY <1>1 DEF Contract!vars
<1>2. ASSUME NEW r \in Requests, NEW m \in Models, NEW at \in 1..Cardinality(Requests),
             Acquire(r, m, at)
      PROVE  Contract!Next
  BY <1>2, ContractSubmit DEF Contract!Next
<1>3. ASSUME NEW r \in Requests, Finish(r) PROVE Contract!Next
  BY <1>3, ContractAnswer DEF Contract!Next
<1>a. ASSUME NEW r \in Requests, Cancel(r) PROVE FALSE
  BY <1>a DEF Cancel
<1>b. CASE DispatcherDies
  BY <1>b, DispatcherLives
<1>4. CASE Stop
  BY <1>4, ContractShutdown DEF Contract!Next
<1>5. CASE Dispatch
  BY <1>1, <1>5, ContractServe DEF Contract!Next
<1>6. CASE SwapTask
  <2>1. CASE SwapReject
    BY <1>1, <2>1, ContractReject DEF Contract!Next
  <2>2. CASE SwapUnload
    <3>1. CASE engine # 0
      <4>1. Granted = {}
        BY <2>2, NobodyServed DEF SwapUnload, Drained
      <4>2. QED
        BY <2>2, <3>1, <4>1, ContractUnload
           DEF SwapUnload, clients, control, Contract!Next
    <3>2. CASE engine = 0
      BY <1>1, <2>2, <3>2 DEF SwapUnload, clients, serving, control
    <3>3. QED
      BY <3>1, <3>2
  <2>3. CASE ~SwapReject /\ ~SwapUnload
    BY <1>1, <1>6, <2>3 DEF SwapTask, SwapStart, SwapWait, SwapBaseline, SwapGo,
       SwapPoolFailed, SwapLoad, SwapSpawned, SwapSpawnFailed, SwapEnd,
       clients, serving, control
  <2>4. QED
    BY <2>1, <2>2, <2>3
<1>7. CASE PoolDone \/ UNCHANGED vars
  BY <1>1, <1>7 DEF PoolDone, clients, serving, control, vars
<1>8. ASSUME NEW k \in Attempts, SpawnTask(k) PROVE [Contract!Next]_(Contract!vars)
  <2>1. CASE InstallEngine(k)
    <3>1. target[k] \in Models
      BY <2>1, UnderWay DEF InstallEngine, Spawn, Pending
    <3>2. QED
      BY <2>1, <3>1, ContractLoad DEF Contract!Next
  <2>2. CASE ~InstallEngine(k)
    BY <1>1, <1>8, <2>2 DEF SpawnTask, SpawnFork, SpawnFails, InstallHandler, InitFails,
       Recovered, clients, serving, control
  <2>3. QED
    BY <2>1, <2>2
<1>9. ASSUME NEW k \in Attempts, Subprocess(k) PROVE [Contract!Next]_(Contract!vars)
  BY <1>1, <1>9 DEF Subprocess, CrossBarrier, LoadWeights, Dies, Reclaim, SubprocessFrame,
     clients, serving, control
<1>10. ASSUME NEW u \in Unloaders, AdminUnload(u) PROVE Contract!Next
  BY <1>10, NobodyServed, ContractUnload
     DEF AdminUnload, clients, Contract!Next
<1>11. ASSUME NEW u \in Unloaders, AdminWait(u) \/ AdminReturn(u)
       PROVE  [Contract!Next]_(Contract!vars)
  BY <1>1, <1>11 DEF AdminWait, AdminReturn, clients, serving
<1>12. QED
  BY <1>2, <1>3, <1>4, <1>5, <1>6, <1>7, <1>8, <1>9, <1>10, <1>11,
     <1>a, <1>b DEF Next, Admin

(* As long as no pool load raises and nobody gives up waiting, the gateway  *)
(* implements the contract with its clients, with active_name as the loaded *)
(* model.                                                                   *)
THEOREM GatewayKeepsContract ==
  ASSUME "pool" \notin Faults, "cancel" \notin Faults
  PROVE  Spec => KeepsContract
<1>1. Spec => []Demand
  <2>1. ServingInvariant /\ Demand /\ [Next]_vars => Demand'
    BY DemandStep
  <2>2. QED
    BY <2>1, DemandInit, ServingInvariantHolds, PTL DEF Spec
<1>2. ServingInvariant /\ Attended /\ Demand /\ [Next]_vars
        => [Contract!Next]_(Contract!vars)
  BY ContractStep
<1>3. QED
  BY <1>1, <1>2, ContractInit, ServingInvariantHolds, AttendedHolds, PTL
     DEF Spec, KeepsContract, Contract!Spec
=============================================================================
