------------------------- MODULE GatewayWakeupProofs -------------------------
(***************************************************************************)
(* Nobody sleeps on the condition variable of Gateway while there is work  *)
(* to do, as long as no pool load raises.                                  *)
(*                                                                         *)
(* The dispatcher commits to a swap only below the model's bound MaxSwaps, *)
(* so this needs a count: every swap but the last one is paid for by a     *)
(* request that has left its queue, or by an admin call that took the      *)
(* swap's engine away before anyone was served.                            *)
(***************************************************************************)
EXTENDS GatewaySwapProofs

\* The requests and the admin calls that pay for swaps; neither come back.
Spent   == {r \in Requests : request[r] # "idle" /\ \A m \in Models : r \notin InQueue(m)}
Closed  == {u \in Unloaders : admin[u] \in {"unloading", "done"}}
Charges == Cardinality(Spent) + Cardinality(Closed)

\* The last swap has yet to pay: somebody waits for its model, which it is
\* still to load, still to give up, or has loaded.
Unanswered == \/ swap \in {"start", "drain", "vram", "pool", "load", "except"}
              \/ swap = "spawn" /\ spawn_task[swaps] # "ok"
              \/ engine = swaps
Owing  == swaps # 0 /\ queues[target[swaps]] # <<>> /\ Unanswered
Owed   == IF Owing THEN 1 ELSE 0
Budget == dispatcher = "running" => swaps <= Charges + Owed

\* Before it awaits its spawn task, a swap has not got its engine.
SpawnAwaited == swap \in {"start", "drain", "vram", "pool", "load"}
                  => spawn_task[swaps] # "ok"

WakeupInvariant == ServingInvariant /\ SpawnAwaited /\ Budget

LEMMA SubsetCount ==
  ASSUME NEW S, NEW T, IsFiniteSet(T), S \subseteq T
  PROVE  /\ Cardinality(S) \in Nat /\ Cardinality(T) \in Nat
         /\ Cardinality(S) <= Cardinality(T)
         /\ S # T => Cardinality(S) + 1 <= Cardinality(T)
<1>1. /\ IsFiniteSet(S) /\ Cardinality(S) <= Cardinality(T)
      /\ Cardinality(S) = Cardinality(T) => S = T
  BY FS_Subset
<1>2. Cardinality(S) \in Nat /\ Cardinality(T) \in Nat
  BY <1>1, FS_CardinalityType
<1>3. QED
  BY <1>1, <1>2

\* A request that has left its queue stays out.
LEMMA SpentGrows ==
  ASSUME TypeOK, TargetKnown, QueueIntegrity, [Next]_vars
  PROVE  /\ Spent \subseteq Spent'
         /\ \A r \in Requests : request[r] # "idle" =>
              request'[r] # "idle" /\ asked'[r] = asked[r]
<1>0. SUFFICES ASSUME NEW r \in Requests, request[r] # "idle"
      PROVE  /\ request'[r] # "idle" /\ asked'[r] = asked[r]
             /\ \A n \in Models : r \in InQueue(n)' => r \in InQueue(n)
  BY DEF Spent
<1>1. ASSUME NEW x \in Requests, NEW m \in Models, NEW at \in 1..Cardinality(Requests),
             Acquire(x, m, at)
      PROVE  /\ request'[r] # "idle" /\ asked'[r] = asked[r]
             /\ \A n \in Models : r \in InQueue(n)' => r \in InQueue(n)
  <2> DEFINE e == [req |-> x, at |-> at]
  <2>1. r # x /\ request'[r] # "idle" /\ asked'[r] = asked[r]
    BY <1>0, <1>1 DEF Acquire, TypeOK
  <2>2. /\ queues'[m] = Append(queues[m], e)
        /\ \A n \in Models \ {m} : queues'[n] = queues[n]
    BY <1>1 DEF Acquire, TypeOK
  <2>3. queues[m] \in Seq([req : Requests, at : Nat]) /\ e \in [req : Requests, at : Nat]
    <3>1. at \in Nat
      OBVIOUS
    <3>2. QED
      BY <3>1, QueueType
  <2>4. \A i \in 1..Len(queues'[m]) :
          \/ i \in 1..Len(queues[m]) /\ queues'[m][i] = queues[m][i]
          \/ queues'[m][i].req = x
    BY <2>2, <2>3
  <2>5. ASSUME NEW n \in Models, r \in InQueue(n)' PROVE r \in InQueue(n)
    <3>1. PICK i \in 1..Len(queues'[n]) : queues'[n][i].req = r
      BY <2>5 DEF InQueue
    <3>2. CASE n = m
      BY <2>1, <2>4, <3>1, <3>2 DEF InQueue
    <3>3. CASE n # m
      BY <2>2, <3>1, <3>3 DEF InQueue
    <3>4. QED
      BY <3>2, <3>3
  <2>6. QED
    BY <2>1, <2>5
<1>2. ASSUME NEW x \in Requests, Cancel(x) \/ Finish(x)
      PROVE  /\ request'[r] # "idle" /\ asked'[r] = asked[r] /\ queues' = queues
  BY <1>0, <1>2 DEF Cancel, Finish, TypeOK
<1>3. CASE ServeActive /\ UNCHANGED asked
  <2>1. request'[r] # "idle"
    BY <1>0, <1>3 DEF ServeActive
  <2>2. \A n \in Models : queues'[n] \in {queues[n], <<>>}
    BY <1>3 DEF ServeActive, TypeOK
  <2>3. QED
    BY <1>3, <2>1, <2>2 DEF InQueue
<1>4. ASSUME NEW M \in SUBSET Models, RejectQueues(M), UNCHANGED asked
      PROVE  /\ request'[r] # "idle" /\ asked'[r] = asked[r]
             /\ \A n \in Models : r \in InQueue(n)' => r \in InQueue(n)
  <2>1. request'[r] # "idle"
    BY <1>0, <1>4 DEF RejectQueues, Resolved
  <2>2. \A n \in Models : queues'[n] \in {queues[n], <<>>}
    BY <1>4 DEF RejectQueues
  <2>3. QED
    BY <1>4, <2>1, <2>2 DEF InQueue
<1>5. CASE DispatcherDies
  <2> DEFINE q == queues[active_name]
  <2>1. PICK i \in 1..Len(q) :
          /\ \A n \in Models \ {active_name} : queues'[n] = queues[n]
          /\ \A j \in 1..(Len(q) - i) : queues'[active_name][j] = q[i + j]
          /\ Len(queues'[active_name]) = Len(q) - i
          /\ request' = [x \in Requests |-> IF x = q[i].req THEN "lost"
                                             ELSE IF x \in Taken(i) THEN "leaked"
                                             ELSE request[x]]
    BY <1>5, DispatcherTakes
  <2>2. request'[r] # "idle" /\ asked' = asked /\ Len(q) \in Nat
    BY <1>0, <1>5, <2>1, DispatcherTakes, QueueType DEF DispatcherDies
  <2>3. \A j \in 1..(Len(q) - i) : i + j \in 1..Len(q)
    BY <2>2
  <2>4. ASSUME NEW n \in Models, r \in InQueue(n)' PROVE r \in InQueue(n)
    <3>1. CASE n = active_name
      <4>1. PICK j \in 1..Len(queues'[active_name]) : queues'[active_name][j].req = r
        BY <2>4, <3>1 DEF InQueue
      <4>2. j \in 1..(Len(q) - i)
        BY <2>1, <4>1
      <4>3. i + j \in 1..Len(q) /\ q[i + j].req = r
        BY <2>1, <2>3, <4>1, <4>2
      <4>4. QED
        BY <3>1, <4>3 DEF InQueue
    <3>2. CASE n # active_name
      BY <2>1, <2>4, <3>2 DEF InQueue
    <3>3. QED
      BY <3>1, <3>2
  <2>5. QED
    BY <2>2, <2>4
<1>6. QED
  BY <1>0, <1>1, <1>2, <1>3, <1>4, <1>5, RequestSteps DEF InQueue

\* An admin call that has taken the engine down is not made again.
LEMMA ClosedGrows ==
  ASSUME TypeOK, [Next]_vars
  PROVE  Closed \subseteq Closed'
<1>1. CASE UNCHANGED admin
  BY <1>1 DEF Closed
<1>2. ASSUME NEW u \in Unloaders, Admin(u) PROVE Closed \subseteq Closed'
  BY <1>2 DEF Admin, AdminWait, AdminUnload, AdminReturn, AdminStep, Closed, TypeOK
<1>3. CASE \/ Dispatch \/ DispatcherDies \/ Stop \/ SwapTask \/ PoolDone
           \/ \E r \in Requests : \/ \E m \in Models, at \in 1..Cardinality(Requests) :
                                       Acquire(r, m, at)
                                  \/ Cancel(r) \/ Finish(r)
  BY <1>1, <1>3 DEF Dispatch, DispatcherDies, Stop, PoolDone, Acquire, Cancel, Finish, control, SwapTask, SwapStart,
     SwapWait, SwapUnload, SwapBaseline, SwapGo, SwapPoolFailed, SwapLoad,
     SwapSpawned, SwapSpawnFailed, SwapReject, SwapEnd
<1>4. ASSUME NEW k \in Attempts, SpawnTask(k) \/ Subprocess(k) PROVE UNCHANGED admin
  BY <1>4 DEF SpawnTask, SpawnFork, SpawnFails, InstallHandler, InstallEngine, InitFails,
     Recovered, Subprocess, CrossBarrier, LoadWeights, Dies, Reclaim, SubprocessFrame, control
<1>5. CASE UNCHANGED vars
  BY <1>1, <1>5 DEF vars, control
<1>6. QED
  BY <1>1, <1>2, <1>3, <1>4, <1>5 DEF Next

LEMMA ChargesGrow ==
  ASSUME IsFiniteSet(Unloaders), Spent \subseteq Spent', Closed \subseteq Closed'
  PROVE  /\ Charges \in Nat /\ Charges' \in Nat /\ Charges <= Charges'
         /\ Spent # Spent' \/ Closed # Closed' => Charges + 1 <= Charges'
<1>1. Spent' \subseteq Requests /\ Closed' \subseteq Unloaders
  BY DEF Spent, Closed
<1>2. IsFiniteSet(Spent') /\ IsFiniteSet(Closed')
  BY <1>1, RequestsAssumption, FS_Subset
<1>3. QED
  BY <1>2, SubsetCount DEF Charges
-----------------------------------------------------------------------------
(* The count of swaps.                                                     *)

LEMMA AwaitedStep ==
  ASSUME ServingInvariant, SpawnAwaited, [Next]_vars
  PROVE  SpawnAwaited'
<1> USE DEF ServingInvariant, QueueInvariant
<1>1. CASE UNCHANGED tasks
  BY <1>1 DEF SpawnAwaited, tasks
<1>2. CASE Dispatch
  <2>1. UNCHANGED spawn_task
    BY <1>2 DEF Dispatch
  <2>2. CASE NoCommit
    BY <2>1, <2>2 DEF NoCommit, SpawnAwaited
  <2>3. ASSUME NEW m \in Models, Commit(m) PROVE SpawnAwaited'
    <3>1. /\ swaps' = swaps + 1 /\ swaps' \in Attempts /\ swaps \in Nat
      BY <2>3, EngineNumbers, BoundsAssumption DEF Commit, TypeOK, Engines
    <3>2. spawn_task[swaps'] = "none"
      BY <3>1 DEF SpawnStages
    <3>3. QED
      BY <2>1, <3>2 DEF SpawnAwaited
  <2>4. QED
    BY <1>2, <2>2, <2>3 DEF Dispatch
<1>3. CASE SwapTask
  <2>1. CASE SwapStart
    <3>1. swaps \in Attempts /\ swaps' = swaps /\ spawn_task[swaps] # "ok"
      BY <2>1 DEF SwapStart, SwapStep, SpawnAwaited, TargetKnown
    <3>2. QED
      BY <2>1, <3>1 DEF SwapStart, SpawnAwaited, TypeOK
  <2>2. CASE SwapLoad
    BY <2>2 DEF SwapLoad, SwapStep, SpawnAwaited
  <2>3. CASE SwapUnload \/ SwapBaseline
    BY <2>3 DEF SwapUnload, SwapBaseline, SwapStep, SpawnAwaited
  <2>4. CASE SwapWait \/ SwapGo \/ SwapPoolFailed \/ SwapSpawned \/ SwapSpawnFailed
             \/ SwapReject \/ SwapEnd
    BY <1>1, <2>4 DEF SwapWait, SwapGo, SwapPoolFailed, SwapSpawned, SwapSpawnFailed,
       SwapReject, SwapEnd, SwapStep, SpawnAwaited
  <2>5. QED
    BY <1>3, <2>1, <2>2, <2>3, <2>4 DEF SwapTask
<1>4. CASE PoolDone
  BY <1>4 DEF PoolDone, SpawnAwaited
<1>5. ASSUME NEW k \in Attempts, SpawnTask(k) PROVE SpawnAwaited'
  <2>1. CASE InstallEngine(k)
    <3>1. spawn_task[k] \in Pending /\ proc[k] = "up"
      BY <2>1 DEF InstallEngine, Spawn, Pending, SpawnStages
    <3>2. swap = "spawn" /\ swap' = swap
      BY <2>1, <3>1, NoEngineMeanwhile DEF InstallEngine
    <3>3. QED
      BY <3>2 DEF SpawnAwaited
  <2>2. CASE ~InstallEngine(k)
    <3>1. UNCHANGED <<swap, swaps>>
          /\ \A j \in Attempts : spawn_task'[j] = "ok" => spawn_task[j] = "ok"
      BY <1>5, <2>2 DEF SpawnTask, SpawnFork, SpawnFails, InstallHandler, InitFails,
         Recovered, Spawn, TypeOK
    <3>2. swap # "none" => swaps \in Attempts
      BY DEF TargetKnown
    <3>3. QED
      BY <3>1, <3>2 DEF SpawnAwaited
  <2>3. QED
    BY <2>1, <2>2
<1>6. ASSUME NEW k \in Attempts, Subprocess(k) PROVE SpawnAwaited'
  BY <1>1, <1>6 DEF Subprocess, CrossBarrier, LoadWeights, Dies, Reclaim, SubprocessFrame
<1>7. ASSUME NEW u \in Unloaders, AdminUnload(u) PROVE SpawnAwaited'
  BY <1>1, <1>7 DEF AdminUnload
<1>8. QED
  BY <1>1, <1>2, <1>3, <1>4, <1>5, <1>6, <1>7, QuietSteps

\* A swap stays unanswered until everyone who waits for its model is refused
\* or an admin call takes its engine away.
LEMMA UnansweredStep ==
  ASSUME ServingInvariant, SpawnAwaited, [Next]_vars, swaps' = swaps, swaps # 0, Unanswered
  PROVE  Unanswered' \/ SwapReject \/ \E u \in Unloaders : AdminUnload(u)
<1> USE DEF ServingInvariant, QueueInvariant
<1>1. CASE UNCHANGED <<serving, tasks, system>>
  BY <1>1 DEF Unanswered, serving, tasks
<1>2. CASE Dispatch
  <2>1. NoCommit
    <3>1. swaps \in Nat
      BY BoundsAssumption DEF TypeOK, Engines
    <3>2. QED
      BY <1>2, <3>1 DEF Dispatch, Commit
  <2>2. QED
    BY <1>2, <2>1 DEF Dispatch, NoCommit, NoSwap, Unanswered, serving
<1>3. CASE SwapTask
  <2>1. CASE SwapGo \/ SwapLoad
    <3>1. swaps \in Attempts /\ swap' = "spawn" /\ spawn_task'[swaps] # "ok"
      BY <2>1 DEF SwapGo, SwapLoad, SwapStep, SpawnAwaited, TargetKnown, TypeOK
    <3>2. QED
      BY <3>1 DEF Unanswered
  <2>2. CASE SwapSpawned \/ SwapEnd
    BY <2>2 DEF SwapSpawned, SpawnReturned, SwapEnd, SwapStep, Unanswered, serving, tasks
  <2>3. CASE SwapUnload \/ SwapBaseline
    BY <2>3 DEF SwapUnload, SwapBaseline, SwapStep, Unloaded, Unanswered
  <2>4. CASE SwapStart \/ SwapWait \/ SwapPoolFailed \/ SwapSpawnFailed
    BY <2>4 DEF SwapStart, SwapWait, SwapPoolFailed, SwapSpawnFailed, SwapStep,
       Unanswered, tasks
  <2>5. QED
    BY <1>3, <2>1, <2>2, <2>3, <2>4 DEF SwapTask
<1>4. CASE PoolDone
  BY <1>4 DEF PoolDone, Unanswered, serving
<1>5. ASSUME NEW k \in Attempts, SpawnTask(k) PROVE Unanswered'
  <2>1. CASE InstallEngine(k)
    <3>1. spawn_task[k] \in Pending
      BY <2>1 DEF InstallEngine, Spawn, Pending
    <3>2. k = swaps
      BY <3>1, UnderWay
    <3>3. QED
      BY <2>1, <3>2 DEF InstallEngine, Unanswered
  <2>2. CASE ~InstallEngine(k)
    <3>1. UNCHANGED <<swap, swaps, engine>>
          /\ \A j \in Attempts : spawn_task'[j] = "ok" => spawn_task[j] = "ok"
      BY <1>5, <2>2 DEF SpawnTask, SpawnFork, SpawnFails, InstallHandler, InitFails,
         Recovered, Spawn, TypeOK, serving
    <3>2. swap # "none" => swaps \in Attempts
      BY DEF TargetKnown
    <3>3. QED
      BY <3>1, <3>2 DEF Unanswered
  <2>3. QED
    BY <2>1, <2>2
<1>6. ASSUME NEW k \in Attempts, Subprocess(k) PROVE Unanswered'
  BY <1>6 DEF Subprocess, CrossBarrier, LoadWeights, Dies, Reclaim, SubprocessFrame,
     Unanswered, serving, tasks
<1>7. QED
  BY <1>1, <1>2, <1>3, <1>4, <1>5, <1>6, QuietSteps

\* Somebody stands at the head of a queue that is not empty.
LEMMA SomebodyStands ==
  ASSUME QueueInvariant, NEW m \in Models, queues[m] # <<>>
  PROVE  \E r \in Requests : request[r] # "idle" /\ asked[r] = m /\ r \in InQueue(m)
<1>1. 1 \in 1..Len(queues[m])
  BY QueueType DEF QueueInvariant
<1>2. QED
  BY <1>1, QueueType DEF QueueInvariant, QueueIntegrity, OnceInQueue, InQueue

\* Whoever leaves a queue has paid.
LEMMA QueueAnswered ==
  ASSUME QueueInvariant, QueueIntegrity', [Next]_vars,
         NEW m \in Models, queues[m] # <<>>, queues'[m] = <<>>
  PROVE  Spent # Spent'
<1>1. PICK r \in Requests : request[r] # "idle" /\ asked[r] = m /\ r \in InQueue(m)
  BY SomebodyStands
<1>2. request'[r] # "idle" /\ asked'[r] = m
  BY <1>1, SpentGrows DEF QueueInvariant
<1>3. r \notin InQueue(m)'
  BY DEF InQueue
<1>4. ASSUME NEW n \in Models, r \in InQueue(n)' PROVE FALSE
  <2>1. asked'[r] = n
    BY <1>4 DEF InQueue, QueueIntegrity, OnceInQueue
  <2>2. QED
    BY <1>2, <1>3, <1>4, <2>1
<1>5. QED
  BY <1>1, <1>2, <1>4 DEF Spent

\* A swap that no longer owes its waiters an answer has been paid for.
LEMMA OwingPaid ==
  ASSUME ServingInvariant, ServingInvariant', SpawnAwaited, [Next]_vars, swaps' = swaps,
         Owing, ~Owing'
  PROVE  Spent # Spent' \/ Closed # Closed'
<1> USE DEF ServingInvariant, QueueInvariant
<1> DEFINE m == target[swaps]
<1>1. m \in Models /\ swaps \in Attempts
  <2>1. CASE swap # "none"
    BY <2>1 DEF TargetKnown
  <2>2. CASE swap = "none"
    BY <2>2, BoundsAssumption
       DEF Owing, Unanswered, EngineInstalled, TypeOK, Engines, Attempts
  <2>3. QED
    BY <2>1, <2>2
<1>2. target'[swaps] = m
  <2>1. CASE Dispatch
    BY <1>1, <2>1 DEF Dispatch, NoCommit, Commit, Attempts
  <2>2. CASE SwapTask
    BY <2>2 DEF SwapTask, SwapStart, SwapWait, SwapUnload, SwapBaseline, SwapGo,
       SwapPoolFailed, SwapLoad, SwapSpawned, SwapSpawnFailed, SwapReject, SwapEnd, tasks
  <2>3. CASE PoolDone \/ UNCHANGED <<serving, tasks, system>>
    BY <2>3 DEF PoolDone, tasks
  <2>4. ASSUME NEW k \in Attempts, SpawnTask(k) \/ Subprocess(k) PROVE UNCHANGED target
    BY <2>4 DEF SpawnTask, SpawnFork, SpawnFails, InstallHandler, InstallEngine,
       InitFails, Recovered, Subprocess, CrossBarrier, LoadWeights, Dies, Reclaim,
       SubprocessFrame, tasks
  <2>5. ASSUME NEW u \in Unloaders, AdminUnload(u) PROVE UNCHANGED target
    BY <2>5 DEF AdminUnload, tasks
  <2>6. QED
    BY <2>1, <2>2, <2>3, <2>4, <2>5, QuietSteps
<1>3. ASSUME NEW u \in Unloaders, AdminUnload(u) PROVE Closed # Closed'
  BY <1>3 DEF AdminUnload, AdminStep, Closed, TypeOK
<1>4. CASE SwapReject
  <2>1. queues'[m] = <<>>
    BY <1>1, <1>4 DEF SwapReject, RejectQueues
  <2>2. QED
    BY <1>1, <2>1, QueueAnswered DEF Owing
<1>5. CASE Unanswered'
  <2>1. queues'[m] = <<>>
    BY <1>2, <1>5 DEF Owing
  <2>2. QED
    BY <1>1, <2>1, QueueAnswered DEF Owing
<1>6. QED
  BY <1>3, <1>4, <1>5, UnansweredStep DEF Owing

\* A debt is carried over or paid.
LEMMA Payment ==
  \A s, c, d \in Nat, o, p \in 0..1 :
    s <= c + o /\ c <= d =>
      /\ (o = 1 /\ p = 0 => c + 1 <= d) => s <= d + p
      /\ (o = 1 => c + 1 <= d) => s <= d
OBVIOUS

LEMMA BudgetStep ==
  ASSUME IsFiniteSet(Unloaders), WakeupInvariant, ServingInvariant', [Next]_vars
  PROVE  Budget'
<1> USE DEF WakeupInvariant, ServingInvariant, QueueInvariant
<1>1. /\ Charges \in Nat /\ Charges' \in Nat /\ Charges <= Charges'
      /\ Spent # Spent' \/ Closed # Closed' => Charges + 1 <= Charges'
      /\ swaps \in Nat
  <2>1. Spent \subseteq Spent' /\ Closed \subseteq Closed'
    BY SpentGrows, ClosedGrows
  <2>2. swaps \in Nat
    BY BoundsAssumption DEF TypeOK, Engines
  <2>3. QED
    BY <2>1, <2>2, ChargesGrow
<1>2. SUFFICES ASSUME dispatcher' = "running"
               PROVE  swaps' <= Charges' + Owed'
  BY DEF Budget
<1>3. dispatcher = "running"
  BY <1>2, DispatcherEnds
<1>4. /\ swaps <= Charges + Owed
      /\ Owed \in 0..1 /\ (Owed = 1 => Owing)
      /\ Owed' \in 0..1 /\ (Owed' = 0 => ~Owing')
  BY <1>3 DEF Budget, Owed
<1>5. CASE swaps' = swaps
  <2>1. Owed = 1 /\ Owed' = 0 => Charges + 1 <= Charges'
    BY <1>1, <1>4, <1>5, OwingPaid
  <2>2. QED
    BY <1>1, <1>4, <1>5, <2>1, Payment
<1>6. CASE swaps' # swaps
  <2>1. Dispatch /\ \E m \in Models : Commit(m)
    <3>1. Dispatch
      BY <1>6 DEF Next, vars, tasks, Acquire, Cancel, Finish, DispatcherDies, Stop, SwapTask, SwapStart,
         SwapWait, SwapUnload, SwapBaseline, SwapGo, SwapPoolFailed, SwapLoad, SwapSpawned,
         SwapSpawnFailed, SwapReject, SwapEnd, PoolDone, SpawnTask, SpawnFork, SpawnFails,
         InstallHandler, InstallEngine, InitFails, Recovered, Subprocess, CrossBarrier,
         LoadWeights, Dies, Reclaim, SubprocessFrame, Admin, AdminWait, AdminUnload,
         AdminReturn
    <3>2. QED
      BY <1>6, <3>1, SwapsGrow
  <2>2. PICK m \in Models : Commit(m)
    BY <2>1
  <2>3. /\ swaps' = swaps + 1 /\ swaps' \in Attempts /\ target'[swaps'] = m
        /\ NoSwap /\ swap' = "start" /\ m # active_name /\ queues[m] # <<>>
    BY <2>2, EngineNumbers DEF Commit, PickNext, Candidates, TypeOK
  <2>4. queues'[m] # <<>>
    BY <2>1, <2>3 DEF Dispatch, ServeActive
  <2>5. Owed' = 1
    BY <1>1, <2>3, <2>4 DEF Owed, Owing, Unanswered
  <2>6. Owed = 1 => Charges + 1 <= Charges'
    <3>1. SUFFICES ASSUME Owing PROVE Charges + 1 <= Charges'
      BY <1>4
    <3>2. engine = swaps /\ engine # 0
      BY <2>3, <3>1 DEF Owing, Unanswered, NoSwap
    <3>3. /\ active_name \in Models /\ Live /\ active_name = target[swaps]
          /\ queues[active_name] # <<>>
      BY <3>1, <3>2, ModelsAssumption DEF EngineInstalled, Live, Owing
    <3>4. queues'[active_name] = <<>>
      BY <2>1, <3>3 DEF Dispatch, ServeActive, TypeOK
    <3>5. QED
      BY <1>1, <3>3, <3>4, QueueAnswered
  <2>7. swaps <= Charges'
    BY <1>1, <1>4, <2>6, Payment
  <2>8. QED
    BY <1>1, <2>3, <2>5, <2>7
<1>7. QED
  BY <1>5, <1>6

LEMMA BudgetInit ==
  ASSUME IsFiniteSet(Unloaders), Init
  PROVE  SpawnAwaited /\ Budget
<1>1. SpawnAwaited /\ swaps = 0
  BY DEF Init, SpawnAwaited
<1>2. Charges \in Nat
  <2>1. Spent \subseteq Requests /\ Closed \subseteq Unloaders
    BY DEF Spent, Closed
  <2>2. QED
    BY <2>1, RequestsAssumption, SubsetCount DEF Charges
<1>3. Owed \in Nat
  BY DEF Owed
<1>4. QED
  BY <1>1, <1>2, <1>3 DEF Budget

\* Enough swaps for every request and every admin call.
SwapsForAll == /\ IsFiniteSet(Unloaders)
               /\ Cardinality(Requests) + Cardinality(Unloaders) <= MaxSwaps

LEMMA FewerThanAll ==
  \A s, r, u, a, b, n \in Nat, o \in 0..1 :
    /\ s <= a + b + o /\ b <= u /\ r + u <= n
    /\ a + 1 <= r /\ (o = 1 => a + 2 <= r)
    => s < n
OBVIOUS

\* Whoever waits for another model is not spent; if the last swap owes an
\* answer too, then neither is one who waits for the active one.
LEMMA SwapsLeft ==
  ASSUME SwapsForAll, WakeupInvariant,
         dispatcher = "running", NoSwap, Candidates # {}
  PROVE  swaps < MaxSwaps
<1> USE DEF WakeupInvariant, ServingInvariant
<1>1. PICK c \in Models : c # active_name /\ queues[c] # <<>>
  BY DEF Candidates
<1>2. PICK r \in Requests : asked[r] = c /\ r \in InQueue(c)
  BY <1>1, SomebodyStands
<1> DEFINE Others == Requests \ {r}
<1>3. /\ IsFiniteSet(Others) /\ Cardinality(Others) = Cardinality(Requests) - 1
      /\ Cardinality(Requests) \in Nat
  BY RequestsAssumption, FS_RemoveElement, FS_CardinalityType
<1>4. Spent \subseteq Others
  BY <1>2 DEF Spent
<1>5. /\ Cardinality(Spent) \in Nat /\ Cardinality(Spent) <= Cardinality(Others)
      /\ Spent # Others => Cardinality(Spent) + 1 <= Cardinality(Others)
  BY <1>3, <1>4, SubsetCount
<1>6. ASSUME Owed = 1 PROVE Spent # Others
  <2>1. Owing
    BY <1>6 DEF Owed
  <2>2. engine = swaps /\ engine # 0 /\ queues[target[swaps]] # <<>>
    BY <2>1 DEF Owing, Unanswered, NoSwap
  <2>3. active_name \in Models /\ queues[active_name] # <<>>
    BY <2>2 DEF EngineInstalled
  <2>4. PICK s \in Requests : asked[s] = active_name /\ s \in InQueue(active_name)
    BY <2>3, SomebodyStands
  <2>5. QED
    BY <1>1, <1>2, <2>3, <2>4 DEF Spent
<1>7. /\ Cardinality(Closed) \in Nat /\ Cardinality(Unloaders) \in Nat
      /\ Cardinality(Closed) <= Cardinality(Unloaders)
  BY SubsetCount DEF Closed, SwapsForAll
<1>8. swaps \in Nat /\ MaxSwaps \in Nat
  BY BoundsAssumption DEF QueueInvariant, TypeOK, Engines
<1>9. Owed \in 0..1 /\ swaps <= Cardinality(Spent) + Cardinality(Closed) + Owed
  BY DEF Owed, Budget, Charges
<1>10. /\ Cardinality(Spent) + 1 <= Cardinality(Requests)
       /\ Owed = 1 => Cardinality(Spent) + 2 <= Cardinality(Requests)
  BY <1>3, <1>5, <1>6
<1>11. QED
  BY <1>3, <1>5, <1>7, <1>8, <1>9, <1>10, FewerThanAll DEF SwapsForAll
-----------------------------------------------------------------------------
(* Sleeping and waking.                                                    *)

\* What a step does to the coroutines asleep: it wakes them all, or it puts
\* one of them to sleep, or it refuses the waiters of a failed swap, or the
\* dispatcher dies in it, or it changes nothing that a sleeping dispatcher or
\* admin call waits for.
LEMMA SleepSteps ==
  ASSUME TypeOK, [Next]_vars
  PROVE  \/ parked' = {}
         \/ Dispatch \/ SwapWait \/ SwapReject
         \/ \E u \in Unloaders : AdminWait(u)
         \/ DispatcherDies
         \/ /\ UNCHANGED <<parked, queues, in_flight, dispatcher>>
            /\ NoSwap' => NoSwap
<1>1. ASSUME NEW r \in Requests, NEW m \in Models, NEW at, Acquire(r, m, at)
      PROVE  parked' = {}
  BY <1>1 DEF Acquire, Notify
<1>2. ASSUME NEW r \in Requests, Finish(r) PROVE parked' = {}
  BY <1>2 DEF Finish, ReleaseSlot, Notify
<1>a. ASSUME NEW r \in Requests, Cancel(r)
      PROVE  UNCHANGED <<parked, queues, in_flight, dispatcher, swap>>
  BY <1>a DEF Cancel, control, tasks
<1>3. CASE Stop
  BY <1>3 DEF Stop, Notify
<1>4. CASE SwapTask
  BY <1>4 DEF SwapTask, SwapStart, SwapUnload, SwapBaseline, SwapGo, SwapPoolFailed,
     SwapLoad, SwapSpawned, SwapSpawnFailed, SwapEnd, SwapStep, Unloaded, Notify, NoSwap,
     control
<1>5. CASE PoolDone \/ UNCHANGED vars
  BY <1>5 DEF PoolDone, NoSwap, vars, control, tasks
<1>6. ASSUME NEW k \in Attempts, SpawnTask(k) \/ Subprocess(k)
      PROVE  UNCHANGED <<parked, queues, in_flight, dispatcher, swap>>
  BY <1>6 DEF SpawnTask, SpawnFork, SpawnFails, InstallHandler, InstallEngine, InitFails,
     Recovered, Subprocess, CrossBarrier, LoadWeights, Dies, Reclaim, SubprocessFrame,
     control, tasks
<1>7. ASSUME NEW u \in Unloaders, AdminUnload(u) \/ AdminReturn(u)
      PROVE  \/ parked' = {}
             \/ UNCHANGED <<parked, queues, in_flight, dispatcher, swap>>
  BY <1>7 DEF AdminUnload, AdminReturn, Notify, tasks
<1>8. QED
  BY <1>1, <1>2, <1>3, <1>4, <1>5, <1>6, <1>7, <1>a DEF Next, Admin, NoSwap

\* The dispatcher gives way only when it has emptied the queue of the active
\* model and has nobody else to swap for, or cannot swap.
LEMMA DispatcherStep ==
  ASSUME TypeOK, engine = 0 => active_name = None, DispatcherIdle, [Next]_vars,
         dispatcher = "running" /\ NoSwap /\ Candidates # {} => swaps < MaxSwaps
  PROVE  DispatcherIdle'
<1>1. CASE parked' = {}
  BY <1>1 DEF DispatcherIdle
<1>2. CASE Dispatch
  <2>1. SUFFICES ASSUME dispatcher' = "running", NoSwap', NEW m \in Models
                 PROVE  queues'[m] = <<>>
    BY DEF DispatcherIdle
  <2>2. /\ dispatcher = "running" /\ ServeActive
        /\ \A n \in Models : Commit(n) => swap' = "start"
    BY <1>2 DEF Dispatch, Commit
  <2>3. NoCommit /\ NoSwap
    BY <1>2, <2>1, <2>2 DEF Dispatch, NoCommit, NoSwap
  <2>4. Candidates = {}
    BY <2>2, <2>3, BoundsAssumption DEF NoCommit, TypeOK, Engines
  <2>5. m # active_name => queues[m] = <<>>
    BY <2>4 DEF Candidates
  <2>6. m = active_name => Live
    BY ModelsAssumption DEF Live
  <2>7. QED
    BY <2>2, <2>5, <2>6 DEF ServeActive, TypeOK
<1>3. CASE SwapWait \/ SwapReject
  BY <1>3 DEF SwapWait, SwapReject, SwapStep, DispatcherIdle, NoSwap, tasks
<1>4. ASSUME NEW u \in Unloaders, AdminWait(u) PROVE DispatcherIdle'
  BY <1>4, UnloadersAssumption DEF AdminWait, Park, DispatcherIdle, NoSwap, tasks
<1>5. CASE UNCHANGED <<parked, queues, in_flight, dispatcher>> /\ (NoSwap' => NoSwap)
  BY <1>5 DEF DispatcherIdle
<1>d. CASE DispatcherDies
  BY <1>d DEF DispatcherDies, DispatcherIdle
<1>6. QED
  BY <1>1, <1>2, <1>3, <1>4, <1>5, <1>d, SleepSteps

\* A slot is given back only together with a wake-up call.
LEMMA AdminsStep ==
  ASSUME TypeOK, AdminsIdle, [Next]_vars
  PROVE  AdminsIdle'
<1>1. CASE parked' = {}
  BY <1>1 DEF AdminsIdle
<1>2. CASE Dispatch
  <2>1. Slots \in Nat
    BY QueueType DEF Slots, Live, TypeOK
  <2>2. in_flight \in Nat /\ in_flight' = in_flight + Slots
    BY <1>2 DEF Dispatch, ServeActive, TypeOK
  <2>3. Unloaders \cap parked' = Unloaders \cap parked
    BY <1>2, UnloadersAssumption DEF Dispatch, Park
  <2>4. QED
    BY <2>1, <2>2, <2>3 DEF AdminsIdle
<1>3. CASE SwapWait \/ SwapReject
  BY <1>3, UnloadersAssumption DEF SwapWait, SwapReject, Park, AdminsIdle, control
<1>4. ASSUME NEW u \in Unloaders, AdminWait(u) PROVE AdminsIdle'
  BY <1>4 DEF AdminWait, Park, AdminsIdle
<1>5. CASE UNCHANGED <<parked, queues, in_flight, dispatcher>>
  BY <1>5 DEF AdminsIdle
<1>d. CASE DispatcherDies
  <2>1. in_flight \in Nat /\ \E i \in Nat : in_flight' = in_flight + i
    <3>1. PICK i \in 1..Slots : in_flight' = in_flight + i
      BY <1>d DEF DispatcherDies
    <3>2. i \in Nat /\ in_flight \in Nat
      BY DEF TypeOK
    <3>3. QED
      BY <3>1, <3>2
  <2>2. UNCHANGED parked
    BY <1>d DEF DispatcherDies
  <2>3. QED
    BY <2>1, <2>2 DEF AdminsIdle
<1>6. QED
  BY <1>1, <1>2, <1>3, <1>4, <1>5, <1>d, SleepSteps

\* A sleeping swap drains.
SwapAsleep == "swap" \in parked => swap = "drain"

\* While the swap sleeps, no step drains the gateway without waking it: what
\* the dispatcher takes from the active queue is then in flight, and no engine
\* is installed before the drain is over.
LEMMA SwapIdleStep ==
  ASSUME ServingInvariant, SwapAsleep, SwapIdle, [Next]_vars
  PROVE  SwapAsleep' /\ SwapIdle'
<1> USE DEF ServingInvariant, QueueInvariant
<1>1. CASE parked' = {}
  BY <1>1 DEF SwapAsleep, SwapIdle
<1>2. CASE SwapWait
  BY <1>2 DEF SwapWait, Awake, SwapAsleep, SwapIdle, Drained, serving, tasks
<1>3. SUFFICES ASSUME "swap" \in parked', parked' # {}, ~SwapWait
               PROVE  swap' = "drain" /\ (~Drained' \/ lock' # "free")
  BY <1>1, <1>2 DEF SwapAsleep, SwapIdle
<1>4. "swap" \in parked /\ swap = "drain" /\ (~Drained \/ lock # "free")
  <2>1. ASSUME NEW c, Park(c), c # "swap" PROVE "swap" \in parked
    BY <1>3, <2>1 DEF Park
  <2>2. "swap" \in parked
    BY <1>3, <2>1, SleepSteps, DispatcherLives, UnloadersAssumption
       DEF Dispatch, SwapReject, AdminWait, control
  <2>3. QED
    BY <2>2 DEF SwapAsleep, SwapIdle
<1>5. CASE Dispatch
  <2>1. lock = "free" /\ UNCHANGED <<lock, active_name>> /\ ServeActive /\ ~Drained
    BY <1>4, <1>5 DEF Dispatch, Awake, serving
  <2>2. swap' = "drain"
    BY <1>4, <1>5 DEF Dispatch, NoCommit, Commit, NoSwap
  <2>3. Slots \in Nat /\ in_flight \in Nat /\ in_flight' = in_flight + Slots
    BY <2>1, QueueType DEF ServeActive, Slots, Live, TypeOK
  <2>4. SUFFICES ASSUME in_flight = 0, Slots = 0 PROVE ~Drained'
    BY <2>2, <2>3 DEF Drained
  <2>5. active_name \in Models /\ Live /\ queues[active_name] # <<>>
    BY <2>1, <2>4, ModelsAssumption DEF Drained, Live, EngineInstalled, TypeOK
  <2>6. QED
    BY <2>4, <2>5, QueueType DEF Slots
<1>6. ASSUME UNCHANGED <<active_name, queues, in_flight>>, lock' = lock \/ lock' # "free"
      PROVE  ~Drained' \/ lock' # "free"
  BY <1>4, <1>6 DEF Drained
<1>7. CASE SwapTask
  BY <1>3, <1>4, <1>7 DEF SwapTask, SwapStart, SwapUnload, SwapBaseline, SwapGo,
     SwapPoolFailed, SwapLoad, SwapSpawned, SwapSpawnFailed, SwapReject, SwapEnd,
     SwapStep, Awake
<1>8. CASE PoolDone \/ UNCHANGED vars
  BY <1>4, <1>6, <1>8 DEF PoolDone, vars, serving, control, tasks
<1>9. ASSUME NEW k \in Attempts, SpawnTask(k)
      PROVE  swap' = "drain" /\ (~Drained' \/ lock' # "free")
  <2>1. CASE InstallEngine(k)
    <3>1. spawn_task[k] \in Pending /\ proc[k] = "up"
      BY <2>1 DEF InstallEngine, Spawn, Pending, SpawnStages
    <3>2. swap = "spawn"
      BY <3>1, NoEngineMeanwhile
    <3>3. QED
      BY <1>4, <3>2
  <2>2. CASE ~InstallEngine(k)
    BY <1>4, <1>6, <1>9, <2>2 DEF SpawnTask, SpawnFork, SpawnFails, InstallHandler,
       InitFails, Recovered, serving, control
  <2>3. QED
    BY <2>1, <2>2
<1>10. ASSUME NEW k \in Attempts, Subprocess(k)
       PROVE  swap' = "drain" /\ (~Drained' \/ lock' # "free")
  BY <1>4, <1>6, <1>10 DEF Subprocess, CrossBarrier, LoadWeights, Dies, Reclaim,
     SubprocessFrame, serving, control, tasks
<1>11. ASSUME NEW u \in Unloaders, Admin(u)
       PROVE  swap' = "drain" /\ (~Drained' \/ lock' # "free")
  <2>1. CASE AdminWait(u)
    BY <1>4, <1>6, <2>1 DEF AdminWait, serving, tasks
  <2>2. CASE AdminUnload(u)
    BY <1>4, <2>2, UnloadersAssumption DEF AdminUnload, tasks
  <2>3. CASE AdminReturn(u)
    BY <1>3, <2>3 DEF AdminReturn, Notify
  <2>4. QED
    BY <1>11, <2>1, <2>2, <2>3 DEF Admin
<1>12. ASSUME NEW r \in Requests, NEW m \in Models, NEW at, Acquire(r, m, at) PROVE FALSE
  BY <1>3, <1>12 DEF Acquire, Notify
<1>13. ASSUME NEW r \in Requests, Finish(r) PROVE FALSE
  BY <1>3, <1>13 DEF Finish, ReleaseSlot, Notify
<1>14. CASE Stop
  BY <1>3, <1>14 DEF Stop, Notify
<1>a. ASSUME NEW r \in Requests, Cancel(r)
      PROVE  swap' = "drain" /\ (~Drained' \/ lock' # "free")
  BY <1>4, <1>6, <1>a DEF Cancel, serving, control, tasks
<1>15. QED
  BY <1>a, DispatcherLives, <1>5, <1>7, <1>8, <1>9, <1>10, <1>11, <1>12, <1>13, <1>14 DEF Next
-----------------------------------------------------------------------------
(* The theorems.                                                           *)

\* Whatever fails: without an engine no model is active.
LEMMA NamedWithEngine ==
  ASSUME engine = 0 => active_name = None, [Next]_vars
  PROVE  engine' = 0 => active_name' = None
<1>1. CASE UNCHANGED <<engine, active_name>>
  BY <1>1
<1>2. CASE Dispatch \/ PoolDone
  BY <1>1, <1>2 DEF Dispatch, PoolDone, serving
<1>3. CASE SwapTask
  BY <1>1, <1>3 DEF SwapTask, SwapStart, SwapWait, SwapUnload, TakeDown, SwapBaseline,
     SwapGo, SwapPoolFailed, SwapLoad, SwapSpawned, SwapSpawnFailed, SwapReject, SwapEnd,
     serving
<1>4. ASSUME NEW k \in Attempts, SpawnTask(k) PROVE engine' = 0 => active_name' = None
  <2>1. k # 0
    BY DEF Attempts
  <2>2. QED
    BY <1>1, <1>4, <2>1 DEF SpawnTask, SpawnFork, SpawnFails, InstallHandler, InstallEngine,
       InitFails, Recovered, serving
<1>5. ASSUME NEW k \in Attempts, Subprocess(k) PROVE UNCHANGED <<engine, active_name>>
  BY <1>5 DEF Subprocess, CrossBarrier, LoadWeights, Dies, Reclaim, SubprocessFrame, serving
<1>6. ASSUME NEW u \in Unloaders, AdminUnload(u) PROVE active_name' = None
  BY <1>6 DEF AdminUnload, TakeDown
<1>7. QED
  BY <1>1, <1>2, <1>3, <1>4, <1>5, <1>6, QuietSteps DEF serving

(* Whatever fails, and whether or not pool loads raise: a dispatcher whose  *)
(* task lives does not sleep while a request waits that it could start a    *)
(* swap for (below the bound on swaps), nor an admin call while no slot is  *)
(* taken.  That the task lives is NobodyIsForgotten, which needs more.      *)
THEOREM CallersAwakeUnderAnyFault ==
  Spec => [](AdminsIdle /\ (swaps < MaxSwaps => DispatcherIdle))
<1> DEFINE Inv == /\ TypeOK /\ AdminsIdle
                  /\ engine = 0 => active_name = None
                  /\ swaps < MaxSwaps => DispatcherIdle
<1>1. Init => Inv
  BY TypeInit DEF Init, AdminsIdle, DispatcherIdle
<1>2. Inv /\ [Next]_vars => Inv'
  <2>1. SUFFICES ASSUME Inv, [Next]_vars, swaps' < MaxSwaps PROVE DispatcherIdle'
    BY TypeStep, AdminsStep, NamedWithEngine
  <2>2. swaps < MaxSwaps
    <3>1. swaps \in Nat /\ MaxSwaps \in Nat
      BY <2>1, BoundsAssumption DEF TypeOK, Engines
    <3>2. swaps' # swaps => swaps' = swaps + 1
      BY <2>1, SwapsGrow DEF Commit
    <3>3. QED
      BY <2>1, <3>1, <3>2
  <2>3. QED
    BY <2>1, <2>2, DispatcherStep
<1>3. Inv => AdminsIdle /\ (swaps < MaxSwaps => DispatcherIdle)
  OBVIOUS
<1>4. QED
  BY <1>1, <1>2, <1>3, PTL DEF Spec

LEMMA WakeupInvariantHolds ==
  ASSUME "pool" \notin Faults, IsFiniteSet(Unloaders)
  PROVE  Spec => []WakeupInvariant
<1>1. Init => SpawnAwaited /\ Budget
  BY BudgetInit
<1>2. ServingInvariant /\ ServingInvariant' /\ SpawnAwaited /\ Budget /\ [Next]_vars
        => SpawnAwaited' /\ Budget'
  BY AwaitedStep, BudgetStep DEF WakeupInvariant
<1>3. QED
  BY <1>1, <1>2, ServingInvariantHolds, PTL DEF Spec, WakeupInvariant

(* As long as no pool load raises, a swap for every request and every admin *)
(* call is enough: the dispatcher never finds the bound in its way, so that *)
(* MaxSwaps takes no behaviour of the code away.                            *)
THEOREM SwapsNeverRunOut ==
  ASSUME "pool" \notin Faults, SwapsForAll
  PROVE  Spec => [](dispatcher = "running" /\ NoSwap /\ Candidates # {} => swaps < MaxSwaps)
<1>1. WakeupInvariant =>
        (dispatcher = "running" /\ NoSwap /\ Candidates # {} => swaps < MaxSwaps)
  BY SwapsLeft
<1>2. QED
  BY <1>1, WakeupInvariantHolds, PTL DEF SwapsForAll

(* As long as no pool load raises, nobody sleeps on the condition variable  *)
(* while there is something for them to do.                                 *)
THEOREM NobodySleepsOnWork ==
  ASSUME "pool" \notin Faults, SwapsForAll
  PROVE  Spec => []NoLostWakeup
<1> DEFINE Inv == SwapAsleep /\ NoLostWakeup
<1>1. Init => Inv
  BY DEF Init, SwapAsleep, NoLostWakeup, DispatcherIdle, SwapIdle, AdminsIdle
<1>2. WakeupInvariant /\ Inv /\ [Next]_vars => Inv'
  <2>1. SUFFICES ASSUME WakeupInvariant, Inv, [Next]_vars PROVE Inv'
    OBVIOUS
  <2>2. TypeOK /\ (engine = 0 => active_name = None)
    BY <2>1 DEF WakeupInvariant, ServingInvariant, QueueInvariant, EngineInstalled
  <2>3. DispatcherIdle'
    BY <2>1, <2>2, SwapsLeft, DispatcherStep DEF NoLostWakeup
  <2>4. SwapAsleep' /\ SwapIdle'
    BY <2>1, SwapIdleStep DEF WakeupInvariant, NoLostWakeup
  <2>5. AdminsIdle'
    BY <2>1, <2>2, AdminsStep DEF NoLostWakeup
  <2>6. QED
    BY <2>3, <2>4, <2>5 DEF NoLostWakeup
<1>3. Inv => NoLostWakeup
  OBVIOUS
<1>4. IsFiniteSet(Unloaders)
  BY DEF SwapsForAll
<1>5. QED
  BY <1>1, <1>2, <1>3, <1>4, WakeupInvariantHolds, PTL DEF Spec
-----------------------------------------------------------------------------
(* Waiting for what will come.                                             *)

\* The dispatcher does not sleep through a drain with the active queue filled,
\* and leaves nobody behind when it is cancelled.
ActiveServed ==
  /\ dispatcher = "running" /\ "dispatcher" \in parked /\ swap \in {"start", "drain"}
       /\ active_name # None => queues[active_name] = <<>>
  /\ dispatcher = "cancelled" => \A m \in Models : queues[m] = <<>>

\* What a swap waits for has been started.
TasksBegun ==
  /\ swap \in {"drain", "vram", "pool", "spawn"} => pool_task # "none"
  /\ swap = "spawn" \/ (UsePool /\ swap \in {"drain", "vram", "pool"})
       => spawn_task[swaps] # "none"
  /\ \A k \in Attempts : spawn_task[k] = "handshake" => proc[k] # "none"

\* The go-file stays until the swap has got its engine; without a pool no
\* subprocess knows of one.
GateOpen == IF UsePool THEN swap = "spawn" => swaps \in go_files
            ELSE env_go = 0 /\ \A k \in Attempts : inherited_go[k] = 0

\* An admin call holds the lock only with no engine up and none coming up.
LockHeld ==
  /\ \A k \in Attempts : proc[k] = "up" /\ spawn_task[k] = "ok" => engine = k
  /\ lock # "free" =>
       /\ admin[lock] = "unloading" /\ engine = 0
       /\ \/ swap \in {"none", "start", "drain", "finally", "done"}
          \/ swap = "spawn" /\ spawn_task[swaps] = "ok"

WaitInvariant == /\ SwapAsleep /\ SwapIdle
                 /\ ActiveServed /\ TasksBegun /\ GateOpen /\ LockHeld

LEMMA ActiveServedStep ==
  ASSUME ServingInvariant, ActiveServed, [Next]_vars
  PROVE  ActiveServed'
<1> USE DEF ServingInvariant, QueueInvariant
<1>1. CASE Dispatch
  <2>1. dispatcher = "running" /\ UNCHANGED <<dispatcher, active_name>> /\ ServeActive
    BY <1>1 DEF Dispatch, serving
  <2>2. active_name # None => Live /\ active_name \in Models
    BY DEF Live, EngineInstalled, TypeOK
  <2>3. QED
    BY <2>1, <2>2 DEF ServeActive, ActiveServed, TypeOK
<1>2. CASE Stop
  BY <1>2 DEF Stop, RejectQueues, Notify, ActiveServed, TypeOK
<1>3. ASSUME NEW r \in Requests, NEW m \in Models, NEW at, Acquire(r, m, at)
      PROVE  ActiveServed'
  BY <1>3 DEF Acquire, Notify, ActiveServed
<1>4. ASSUME NEW r \in Requests, Finish(r) PROVE ActiveServed'
  BY <1>4 DEF Finish, ReleaseSlot, Notify, ActiveServed
<1>a. ASSUME NEW r \in Requests, Cancel(r) PROVE ActiveServed'
  BY <1>a DEF Cancel, serving, control, tasks, ActiveServed
<1>5. ASSUME UNCHANGED <<queues, dispatcher>>, active_name' \in {active_name, None},
             "dispatcher" \in parked' => "dispatcher" \in parked,
             swap' \in {"start", "drain"} => swap \in {"start", "drain"}
      PROVE  ActiveServed'
  BY <1>5 DEF ActiveServed
<1>6. CASE SwapTask
  <2>1. CASE SwapReject
    <3>1. /\ swap' = "finally" /\ dispatcher' = dispatcher
          /\ \A m \in Models : queues[m] = <<>> => queues'[m] = <<>>
      BY <2>1 DEF SwapReject, SwapStep, RejectQueues, control
    <3>2. QED
      BY <3>1 DEF ActiveServed
  <2>2. CASE SwapUnload
    BY <1>5, <2>2 DEF SwapUnload, TakeDown, Unloaded, control, serving
  <2>3. CASE SwapWait
    BY <1>5, <2>3 DEF SwapWait, Park, serving, tasks
  <2>4. CASE SwapEnd
    BY <1>5, <2>4 DEF SwapEnd, SwapStep, Notify, serving
  <2>5. CASE \/ SwapStart \/ SwapBaseline \/ SwapGo \/ SwapPoolFailed \/ SwapLoad
             \/ SwapSpawned \/ SwapSpawnFailed
    BY <1>5, <2>5 DEF SwapStart, SwapBaseline, SwapGo, SwapPoolFailed, SwapLoad,
       SwapSpawned, SwapSpawnFailed, SwapStep, Unloaded, control, serving
  <2>6. QED
    BY <1>6, <2>1, <2>2, <2>3, <2>4, <2>5 DEF SwapTask
<1>7. CASE PoolDone \/ UNCHANGED vars
  BY <1>5, <1>7 DEF PoolDone, vars, serving, control, tasks
<1>8. ASSUME NEW k \in Attempts, SpawnTask(k) PROVE ActiveServed'
  <2>1. CASE InstallEngine(k)
    <3>1. spawn_task[k] \in Pending /\ proc[k] = "up"
      BY <2>1 DEF InstallEngine, Spawn, Pending, SpawnStages
    <3>2. swap' = "spawn" /\ UNCHANGED <<queues, dispatcher>>
      BY <2>1, <3>1, NoEngineMeanwhile DEF InstallEngine, control
    <3>3. QED
      BY <3>2 DEF ActiveServed
  <2>2. CASE ~InstallEngine(k)
    BY <1>5, <1>8, <2>2 DEF SpawnTask, SpawnFork, SpawnFails, InstallHandler, InitFails,
       Recovered, serving, control
  <2>3. QED
    BY <2>1, <2>2
<1>9. ASSUME NEW k \in Attempts, Subprocess(k) PROVE ActiveServed'
  BY <1>5, <1>9 DEF Subprocess, CrossBarrier, LoadWeights, Dies, Reclaim, SubprocessFrame,
     serving, control, tasks
<1>10. ASSUME NEW u \in Unloaders, Admin(u) PROVE ActiveServed'
  <2>1. CASE AdminWait(u)
    BY <1>5, <2>1, UnloadersAssumption DEF AdminWait, Park, serving, tasks
  <2>2. CASE AdminUnload(u)
    BY <1>5, <2>2 DEF AdminUnload, TakeDown, tasks
  <2>3. CASE AdminReturn(u)
    BY <1>5, <2>3 DEF AdminReturn, Notify, serving, tasks
  <2>4. QED
    BY <1>10, <2>1, <2>2, <2>3 DEF Admin
<1>11. QED
  BY <1>1, <1>2, <1>3, <1>4, <1>6, <1>7, <1>8, <1>9, <1>10, <1>a, DispatcherLives DEF Next

LEMMA TasksBegunStep ==
  ASSUME ServingInvariant, TasksBegun, [Next]_vars
  PROVE  TasksBegun'
<1> USE DEF ServingInvariant, QueueInvariant
<1>1. ASSUME UNCHANGED <<swap, swaps, pool_task, spawn_task>>,
             \A k \in Attempts : proc'[k] = "none" => proc[k] = "none"
      PROVE  TasksBegun'
  BY <1>1 DEF TasksBegun, UsePool
<1>2. ASSUME UNCHANGED <<pool_task, spawn_task, proc>>,
             swap' \notin {"drain", "vram", "pool", "spawn"}
      PROVE  TasksBegun'
  BY <1>2 DEF TasksBegun
<1>3. CASE UNCHANGED <<serving, tasks, system>>
  BY <1>1, <1>3 DEF tasks, system
<1>4. CASE Dispatch
  <2>1. swap' \in {swap, "none", "start"} /\ (swap' = swap => UNCHANGED swaps \/ swap = "start")
    BY <1>4 DEF Dispatch, NoCommit, Commit, NoSwap
  <2>2. UNCHANGED <<pool_task, spawn_task, proc>>
    BY <1>4 DEF Dispatch, system
  <2>3. QED
    BY <1>1, <1>2, <2>1, <2>2
<1>5. CASE SwapTask
  <2>1. CASE SwapStart
    <3>1. swaps \in Attempts /\ swap' = "drain" /\ UNCHANGED <<swaps, proc>>
      BY <2>1 DEF SwapStart, SwapStep, TargetKnown
    <3>2. CASE UsePool
      <4>1. pool_task' = "running" /\ spawn_task' = [spawn_task EXCEPT ![swaps] = "launch"]
        BY <2>1, <3>2 DEF SwapStart
      <4>2. QED
        BY <3>1, <4>1 DEF TasksBegun, TypeOK
    <3>3. CASE ~UsePool
      <4>1. pool_task = "closed" /\ UNCHANGED <<pool_task, spawn_task>>
        BY <2>1, <3>3 DEF SwapStart, UsePool
      <4>2. QED
        BY <3>1, <4>1 DEF TasksBegun, UsePool
    <3>4. QED
      BY <3>2, <3>3
  <2>2. CASE SwapUnload
    <3>1. /\ swap = "drain" /\ swap' \in {"vram", Unloaded}
          /\ UNCHANGED <<swaps, pool_task, spawn_task>>
          /\ \A k \in Attempts : proc'[k] = "none" => proc[k] = "none"
      BY <2>2 DEF SwapUnload, TakeDown, TypeOK
    <3>2. QED
      BY <3>1 DEF TasksBegun, Unloaded, UsePool
  <2>3. CASE SwapBaseline \/ SwapGo
    BY <2>3 DEF SwapBaseline, SwapGo, SwapStep, Unloaded, TasksBegun, UsePool, system
  <2>4. CASE SwapLoad
    <3>1. swaps \in Attempts /\ ~UsePool
      BY <2>4 DEF SwapLoad, SwapStep, TargetKnown, BarrierKept
    <3>2. QED
      BY <2>4, <3>1 DEF SwapLoad, SwapStep, TasksBegun, UsePool, TypeOK, system
  <2>5. CASE \/ SwapPoolFailed \/ SwapSpawned \/ SwapSpawnFailed \/ SwapReject \/ SwapEnd
    BY <1>2, <2>5 DEF SwapPoolFailed, SwapSpawned, SwapSpawnFailed, SwapReject, SwapEnd,
       SwapStep, system
  <2>6. CASE SwapWait
    BY <1>1, <2>6 DEF SwapWait, tasks, system
  <2>7. QED
    BY <1>5, <2>1, <2>2, <2>3, <2>4, <2>5, <2>6 DEF SwapTask
<1>6. CASE PoolDone
  BY <1>6 DEF PoolDone, TasksBegun, UsePool, system
<1>7. ASSUME NEW k \in Attempts, SpawnTask(k) PROVE TasksBegun'
  <2>1. UNCHANGED <<swap, swaps, pool_task>>
    BY <1>7 DEF SpawnTask, SpawnFork, SpawnFails, InstallHandler, InstallEngine,
       InitFails, Recovered
  <2>2. \A j \in Attempts : spawn_task[j] # "none" => spawn_task'[j] # "none"
    BY <1>7 DEF SpawnTask, SpawnFork, SpawnFails, InstallHandler, InstallEngine,
       InitFails, Recovered, Spawn, TypeOK
  <2>3. \A j \in Attempts : spawn_task'[j] = "handshake" => proc'[j] # "none"
    BY <1>7 DEF SpawnTask, SpawnFork, SpawnFails, InstallHandler, InstallEngine,
       InitFails, Recovered, Spawn, Process, TypeOK, TasksBegun, system
  <2>4. swap # "none" => swaps \in Attempts
    BY DEF TargetKnown
  <2>5. QED
    BY <2>1, <2>2, <2>3, <2>4 DEF TasksBegun, UsePool
<1>8. ASSUME NEW k \in Attempts, Subprocess(k) PROVE TasksBegun'
  <2>1. \A j \in Attempts : proc'[j] = "none" => proc[j] = "none"
    BY <1>8 DEF Subprocess, CrossBarrier, LoadWeights, Dies, Reclaim, Process, TypeOK
  <2>2. UNCHANGED tasks
    BY <1>8 DEF Subprocess, CrossBarrier, LoadWeights, Dies, Reclaim, SubprocessFrame
  <2>3. QED
    BY <1>1, <2>1, <2>2 DEF tasks
<1>9. ASSUME NEW u \in Unloaders, AdminUnload(u) PROVE TasksBegun'
  BY <1>1, <1>9 DEF AdminUnload, TakeDown, TypeOK, tasks
<1>10. QED
  BY <1>3, <1>4, <1>5, <1>6, <1>7, <1>8, <1>9, QuietSteps

\* The go-file is there from the end of the pool stage until the swap has its
\* engine, unless it cannot be created.
LEMMA GateOpenStep ==
  ASSUME "gofile" \notin Faults, ServingInvariant, GateOpen, [Next]_vars
  PROVE  GateOpen'
<1> USE DEF ServingInvariant, QueueInvariant
<1>1. ASSUME UNCHANGED <<env_go, inherited_go, go_files>>, UsePool' = UsePool,
             swap' = "spawn" => UNCHANGED <<swap, swaps>> \/ ~UsePool
      PROVE  GateOpen'
  BY <1>1 DEF GateOpen
<1>2. CASE UNCHANGED <<serving, tasks, system>>
  BY <1>1, <1>2 DEF tasks, system, UsePool
<1>3. CASE Dispatch
  <2>1. swap' = "spawn" => UNCHANGED <<swap, swaps>>
    BY <1>3 DEF Dispatch, NoCommit, Commit, NoSwap
  <2>2. QED
    BY <1>1, <1>3, <2>1 DEF Dispatch, system, UsePool
<1>4. CASE SwapTask
  <2>1. CASE SwapStart
    <3>1. UsePool' = UsePool /\ swap' = "drain" /\ UNCHANGED <<inherited_go, go_files>>
          /\ (~UsePool => UNCHANGED env_go)
      BY <2>1 DEF SwapStart, SwapStep, UsePool
    <3>2. QED
      BY <3>1 DEF GateOpen
  <2>2. CASE SwapGo
    <3>1. go_files' = go_files \cup {swaps}
      BY <2>2 DEF SwapGo, TouchGoFile
    <3>2. UNCHANGED <<env_go, inherited_go, pool_task, swaps>>
      BY <2>2 DEF SwapGo
    <3>3. QED
      BY <3>1, <3>2 DEF GateOpen, UsePool
  <2>3. CASE SwapLoad
    BY <1>1, <2>3 DEF SwapLoad, SwapStep, BarrierKept, UsePool, system
  <2>4. CASE SwapSpawned
    BY <2>4 DEF SwapSpawned, SwapStep, GateOpen, UsePool
  <2>5. CASE SwapWait \/ SwapUnload \/ SwapBaseline
    BY <1>1, <2>5 DEF SwapWait, SwapUnload, SwapBaseline, SwapStep, Unloaded, UsePool,
       system, tasks
  <2>6. CASE SwapPoolFailed \/ SwapSpawnFailed \/ SwapReject \/ SwapEnd
    BY <1>1, <2>6 DEF SwapPoolFailed, SwapSpawnFailed, SwapReject, SwapEnd, SwapStep,
       UsePool, system
  <2>7. QED
    BY <1>4, <2>1, <2>2, <2>3, <2>4, <2>5, <2>6 DEF SwapTask
<1>5. CASE PoolDone
  BY <1>1, <1>5 DEF PoolDone, UsePool, system
<1>6. ASSUME NEW k \in Attempts, SpawnTask(k) PROVE GateOpen'
  <2>1. UNCHANGED <<swap, swaps, pool_task, env_go, go_files>>
    BY <1>6 DEF SpawnTask, SpawnFork, SpawnFails, InstallHandler, InstallEngine,
       InitFails, Recovered, system
  <2>2. inherited_go' \in {inherited_go, [inherited_go EXCEPT ![k] = env_go]}
    BY <1>6 DEF SpawnTask, SpawnFork, SpawnFails, InstallHandler, InstallEngine,
       InitFails, Recovered, system
  <2>3. QED
    BY <2>1, <2>2 DEF GateOpen, UsePool, TypeOK
<1>7. ASSUME NEW k \in Attempts, Subprocess(k) PROVE GateOpen'
  BY <1>1, <1>7 DEF Subprocess, CrossBarrier, LoadWeights, Dies, Reclaim,
     SubprocessFrame, UsePool, tasks
<1>8. ASSUME NEW u \in Unloaders, AdminUnload(u) PROVE GateOpen'
  BY <1>1, <1>8 DEF AdminUnload, UsePool, tasks
<1>9. QED
  BY <1>2, <1>3, <1>4, <1>5, <1>6, <1>7, <1>8, QuietSteps

\* The lock is taken for an unload only with an engine up, that is when no
\* swap is past its drain, and no swap gets past it before the lock is back.
LEMMA LockHeldStep ==
  ASSUME ServingInvariant, TasksBegun, LockHeld, [Next]_vars
  PROVE  LockHeld'
<1> USE DEF ServingInvariant, QueueInvariant
<1>1. CASE UNCHANGED <<serving, tasks, system, lock, admin>>
  BY <1>1 DEF LockHeld, serving, tasks, system
<1>2. ASSUME NEW r \in Requests, NEW m \in Models, NEW at, Acquire(r, m, at)
      PROVE  LockHeld'
  BY <1>1, <1>2 DEF Acquire
<1>3. ASSUME NEW r \in Requests, Cancel(r) \/ Finish(r) PROVE LockHeld'
  BY <1>1, <1>3 DEF Cancel, Finish, control
<1>4. CASE Stop \/ UNCHANGED vars
  BY <1>1, <1>4 DEF Stop, vars, control
<1>5. ASSUME UNCHANGED <<engine, proc, spawn_task>>, lock = "free", lock' = "free"
      PROVE  LockHeld'
  BY <1>5 DEF LockHeld
<1>6. CASE Dispatch
  BY <1>5, <1>6 DEF Dispatch, Awake, serving, system
<1>7. CASE SwapTask
  <2>1. CASE SwapStart
    <3>1. /\ swap = "start" /\ swap' = "drain" /\ swaps \in Attempts
          /\ UNCHANGED <<engine, proc, lock, admin>>
          /\ spawn_task' \in {spawn_task, [spawn_task EXCEPT ![swaps] = "launch"]}
      BY <2>1 DEF SwapStart, SwapStep, TargetKnown, serving, control
    <3>2. \A k \in Attempts : spawn_task'[k] = "ok" => spawn_task[k] = "ok"
      BY <3>1 DEF TypeOK
    <3>3. QED
      BY <3>1, <3>2 DEF LockHeld
  <2>2. CASE SwapUnload
    <3>1. lock' = "free" /\ UNCHANGED spawn_task
      BY <2>2 DEF SwapUnload, Awake, control
    <3>2. CASE engine = 0
      BY <1>5, <2>2, <3>1, <3>2 DEF SwapUnload, Awake, serving
    <3>3. CASE engine # 0
      <4>1. \A k \in Attempts : proc'[k] = "up" => proc[k] = "up" /\ k # engine
        BY <2>2, <3>3 DEF SwapUnload, TakeDown, TypeOK
      <4>2. QED
        BY <3>1, <4>1 DEF LockHeld
    <3>4. QED
      BY <3>2, <3>3
  <2>3. CASE SwapLoad
    <3>1. /\ lock' = "free" /\ swaps \in Attempts /\ UNCHANGED <<engine, proc>>
          /\ spawn_task' = [spawn_task EXCEPT ![swaps] = "launch"]
      BY <2>3 DEF SwapLoad, SwapStep, TargetKnown, LockHeld, serving, system, control
    <3>2. QED
      BY <3>1 DEF LockHeld, TypeOK
  <2>4. CASE SwapBaseline \/ SwapGo \/ SwapPoolFailed \/ SwapSpawnFailed
    BY <1>5, <2>4 DEF SwapBaseline, SwapGo, SwapPoolFailed, SwapSpawnFailed, SwapStep,
       LockHeld, serving, system, control
  <2>5. CASE SwapReject \/ SwapEnd
    BY <1>5, <2>5 DEF SwapReject, SwapEnd, SwapStep, serving, system, control
  <2>6. CASE SwapSpawned \/ SwapWait
    BY <2>6 DEF SwapSpawned, SwapWait, SwapStep, LockHeld, serving, system, control, tasks
  <2>7. QED
    BY <1>7, <2>1, <2>2, <2>3, <2>4, <2>5, <2>6 DEF SwapTask
<1>8. CASE PoolDone
  BY <1>8 DEF PoolDone, LockHeld, serving, system, control
<1>9. ASSUME NEW k \in Attempts, SpawnTask(k) PROVE LockHeld'
  <2>1. /\ UNCHANGED <<swap, swaps, lock, admin>>
        /\ \A j \in Attempts : proc'[j] = "up" => proc[j] = "up"
        /\ \A j \in Attempts \ {k} : spawn_task'[j] = spawn_task[j]
        /\ spawn_task[k] \in Pending
    BY <1>9 DEF SpawnTask, SpawnFork, SpawnFails, InstallHandler, InstallEngine,
       InitFails, Recovered, Spawn, Process, Pending, TypeOK, system, control
  <2>2. k = swaps
    BY <2>1, UnderWay
  <2>3. CASE InstallEngine(k)
    <3>1. swap = "spawn" /\ engine = 0 /\ engine' = k /\ spawn_task[swaps] = "init"
      BY <2>1, <2>2, <2>3, NoEngineMeanwhile DEF InstallEngine, Spawn, SpawnStages
    <3>2. QED
      BY <2>1, <3>1 DEF LockHeld, Attempts
  <2>4. CASE ~InstallEngine(k)
    <3>1. UNCHANGED engine /\ spawn_task'[k] # "ok"
      BY <1>9, <2>4 DEF SpawnTask, SpawnFork, SpawnFails, InstallHandler, InitFails,
         Recovered, Spawn, TypeOK, serving
    <3>2. QED
      BY <2>1, <2>2, <3>1 DEF LockHeld, Pending
  <2>5. QED
    BY <2>3, <2>4
<1>10. ASSUME NEW k \in Attempts, Subprocess(k) PROVE LockHeld'
  <2>1. UNCHANGED <<serving, tasks, lock, admin>>
    BY <1>10 DEF Subprocess, CrossBarrier, LoadWeights, Dies, Reclaim, SubprocessFrame, control
  <2>2. \A j \in Attempts : proc'[j] = "up" => proc[j] = "up" \/ spawn_task[j] = "handshake"
    BY <1>10 DEF Subprocess, CrossBarrier, LoadWeights, Dies, Reclaim, Process, SpawnStages,
       TypeOK
  <2>3. QED
    BY <2>1, <2>2 DEF LockHeld, serving, tasks
<1>11. ASSUME NEW u \in Unloaders, Admin(u) PROVE LockHeld'
  <2>1. CASE AdminUnload(u)
    <3>1. /\ engine # 0 /\ engine' = 0 /\ lock' = u /\ admin'[u] = "unloading"
          /\ UNCHANGED <<swap, swaps, spawn_task>>
      BY <2>1 DEF AdminUnload, AdminStep, TakeDown, TypeOK, tasks
    <3>2. \A k \in Attempts : proc'[k] = "up" => proc[k] = "up" /\ k # engine
      BY <2>1, <3>1 DEF AdminUnload, TakeDown, TypeOK
    <3>3. \/ swap \in {"none", "start", "drain", "finally", "done"}
          \/ swap = "spawn" /\ spawn_task[swaps] = "ok"
      <4>1. swap = "spawn" => spawn_task[swaps] \notin Pending \cup {"err", "none"}
        BY <3>1 DEF EngineInstalled, TasksBegun
      <4>2. swap # "none" => swaps \in Attempts
        BY DEF TargetKnown
      <4>3. QED
        BY <3>1, <4>1, <4>2 DEF EngineInstalled, TypeOK, Pending
    <3>4. QED
      BY <3>1, <3>2, <3>3 DEF LockHeld
  <2>2. CASE AdminWait(u)
    BY <1>5, <2>2 DEF AdminWait, Awake, serving, tasks, system
  <2>3. CASE AdminReturn(u)
    BY <2>3 DEF AdminReturn, LockHeld, serving, tasks, system
  <2>4. QED
    BY <1>11, <2>1, <2>2, <2>3 DEF Admin
<1>12. QED
  BY <1>2, <1>3, <1>4, <1>6, <1>7, <1>8, <1>9, <1>10, <1>11, DispatcherLives DEF Next

\* With no engine installed and none coming up, all memory is on its way back.
LEMMA MemoryOnItsWay ==
  ASSUME ServingInvariant, LockHeld, engine = 0,
         swap = "spawn" => spawn_task[swaps] \notin {"handshake", "init"}
  PROVE  MemoryReturns
<1> USE DEF ServingInvariant, QueueInvariant
<1>1. SUFFICES ASSUME NEW k \in Attempts, proc[k] \in {"loading", "up"} PROVE FALSE
  BY DEF MemoryReturns, Holders, OnGpu
<1>2. CASE spawn_task[k] \in {"handshake", "init"}
  <2>1. spawn_task[k] \in Pending
    BY <1>2 DEF Pending
  <2>2. k = swaps /\ swap = "spawn"
    BY <1>1, <2>1 DEF SpawnInSwap, EngineInstalled
  <2>3. QED
    BY <1>2, <2>2
<1>3. CASE spawn_task[k] \notin {"handshake", "init"}
  <2>1. proc[k] = "up" /\ spawn_task[k] = "ok"
    BY <1>1, <1>3 DEF SpawnStages
  <2>2. QED
    BY <2>1 DEF LockHeld, Attempts
<1>4. QED
  BY <1>2, <1>3

\* Whoever waits has somebody to wait for.
LEMMA WaitsInVainForNothing ==
  ASSUME ServingInvariant, Attended, WaitInvariant
  PROVE  NoWaitInVain
<1> USE DEF ServingInvariant, QueueInvariant, WaitInvariant
<1>1. ASSUME lock # "free" PROVE admin[lock] = "unloading" /\ MemoryReturns
  BY <1>1, MemoryOnItsWay DEF LockHeld
<1>2. ASSUME swap = "drain", lock = "free" PROVE DrainGoesOn
  <2>1. CASE Drained
    BY <1>2, <2>1 DEF SwapIdle, DrainGoesOn
  <2>2. CASE in_flight > 0
    <3>1. Forgotten = {}
      BY DEF Attended, Forgotten
    <3>2. Granted # {}
      BY <2>2, <3>1, FS_EmptySet DEF SlotAccounting
    <3>3. QED
      BY <3>2 DEF DrainGoesOn
  <2>3. CASE ~Drained /\ ~(in_flight > 0)
    <3>1. active_name # None /\ queues[active_name] # <<>>
      BY <2>3 DEF Drained, TypeOK
    <3>2. active_name \in Models /\ Live
      BY <3>1 DEF Live, EngineInstalled, TypeOK
    <3>3. 1 \in 1..Len(queues[active_name])
      BY <3>1, <3>2, QueueType
    <3>4. Batch # {}
      BY <3>2, <3>3 DEF Batch, InQueue
    <3>5. dispatcher = "running"
      BY <3>1, <3>2 DEF ActiveServed, Attended, TypeOK
    <3>6. "dispatcher" \notin parked
      BY <1>2, <3>1, <3>5 DEF ActiveServed
    <3>7. QED
      BY <3>4, <3>5, <3>6 DEF DrainGoesOn
  <2>4. QED
    BY <2>1, <2>2, <2>3
<1>3. ASSUME swap = "vram" PROVE MemoryReturns
  BY <1>3, MemoryOnItsWay DEF EngineInstalled
<1>4. ASSUME swap = "pool" PROVE pool_task # "none"
  BY <1>4 DEF TasksBegun
<1>5. ASSUME swap = "spawn" PROVE SpawnGoesOn
  <2>1. swaps \in Attempts /\ spawn_task[swaps] # "none"
    BY <1>5 DEF TargetKnown, TasksBegun
  <2>2. CASE spawn_task[swaps] = "recover"
    <3>1. engine = 0
      BY <1>5, <2>2 DEF EngineInstalled, Pending
    <3>2. QED
      BY <2>2, <3>1, MemoryOnItsWay DEF SpawnGoesOn
  <2>3. CASE spawn_task[swaps] = "handshake"
    <3>1. proc[swaps] # "none"
      BY <2>1, <2>3 DEF TasksBegun
    <3>2. Released(swaps)
      BY <1>5, <2>1, <2>3 DEF Released, GateOpen, BarrierKept
    <3>3. QED
      BY <2>3, <3>1, <3>2 DEF SpawnGoesOn
  <2>4. QED
    BY <2>1, <2>2, <2>3 DEF SpawnGoesOn, TypeOK
<1>6. QED
  BY <1>1, <1>2, <1>3, <1>4, <1>5 DEF NoWaitInVain

(* As long as no pool load raises, go-files can be created and no caller    *)
(* gives up waiting, nobody waits in vain: the admin call that holds the    *)
(* lock, and the swap at each of its stages, wait for a step of somebody    *)
(* who is not waiting for them.  This is what a deadlock of dispatcher,     *)
(* swap, spawn, subprocess and admin call would break, for any models,      *)
(* requests and admin calls.                                                *)
THEOREM NobodyWaitsInVain ==
  ASSUME "pool" \notin Faults, "gofile" \notin Faults, "cancel" \notin Faults
  PROVE  Spec => []NoWaitInVain
<1>1. Init => WaitInvariant
  BY DEF Init, WaitInvariant, SwapAsleep, SwapIdle, ActiveServed, TasksBegun, GateOpen,
     LockHeld, UsePool
<1>2. ServingInvariant /\ WaitInvariant /\ [Next]_vars => WaitInvariant'
  BY SwapIdleStep, ActiveServedStep, TasksBegunStep, GateOpenStep, LockHeldStep
     DEF WaitInvariant
<1>3. ServingInvariant /\ Attended /\ WaitInvariant => NoWaitInVain
  BY WaitsInVainForNothing
<1>4. QED
  BY <1>1, <1>2, <1>3, ServingInvariantHolds, AttendedHolds, PTL DEF Spec
=============================================================================
