---------------------------- MODULE GatewayProofs ----------------------------
(***************************************************************************)
(* Proofs about Gateway, for any models, any finite set of requests, any   *)
(* admin calls, any number of swaps, with or without a pool, and whatever  *)
(* fails.                                                                  *)
(***************************************************************************)
EXTENDS Gateway, FunctionTheorems, FiniteSetTheorems, SequenceTheorems, TLAPS

RequestStates == {"idle", "waiting", "granted", "released", "rejected",
                  "cancelled", "leaked", "lost"}
-----------------------------------------------------------------------------
(* Type correctness.                                                       *)

LEMMA EmptyQueue == <<>> \in Seq([req : Requests, at : Nat])
OBVIOUS

LEMMA EngineNumbers == /\ 0 \in Engines
                       /\ Attempts \subseteq Engines
                       /\ \A n \in Engines : n < MaxSwaps => n + 1 \in Attempts
BY BoundsAssumption DEF Engines, Attempts

\* The batch that the dispatcher hands over, and what becomes of the queues,
\* keep to their types.
LEMMA ServeActiveType ==
  ASSUME TypeOK, ServeActive
  PROVE  /\ request' \in [Requests -> RequestStates]
         /\ handler' \in [Requests -> Engines]
         /\ in_flight' \in Nat
         /\ queues' \in [Models -> Seq([req : Requests, at : Nat])]
<1>1. request' \in [Requests -> RequestStates]
      /\ handler' \in [Requests -> Engines]
  BY DEF ServeActive, RequestStates, TypeOK
<1>2. in_flight' \in Nat
  <2>1. Live => queues[active_name] \in Seq([req : Requests, at : Nat])
    BY DEF Live, TypeOK
  <2>2. Slots \in Nat
    BY <2>1 DEF Slots
  <2>3. QED
    BY <2>2 DEF ServeActive, TypeOK
<1>3. queues' \in [Models -> Seq([req : Requests, at : Nat])]
  BY EmptyQueue DEF ServeActive, Live, TypeOK
<1>4. QED
  BY <1>1, <1>2, <1>3

LEMMA RejectQueuesType ==
  ASSUME NEW M, TypeOK, RejectQueues(M)
  PROVE  /\ request' \in [Requests -> RequestStates]
         /\ queues' \in [Models -> Seq([req : Requests, at : Nat])]
<1>1. request' \in [Requests -> RequestStates]
  BY DEF RejectQueues, Resolved, RequestStates, TypeOK
<1>2. queues' \in [Models -> Seq([req : Requests, at : Nat])]
  BY EmptyQueue DEF RejectQueues, TypeOK
<1>3. QED
  BY <1>1, <1>2

LEMMA SuffixType ==
  ASSUME NEW S, NEW q \in Seq(S), NEW m \in Nat \ {0}
  PROVE  SubSeq(q, m, Len(q)) \in Seq(S)
<1>1. m \in Int /\ Len(q) \in Int
  OBVIOUS
<1>2. \A j \in m..Len(q) : q[j] \in S
  BY <1>1
<1>3. QED
  BY <1>1, <1>2, SubSeqProperties

\* What a dispatcher that dies leaves behind keeps to its type.
LEMMA DispatcherDiesType ==
  ASSUME TypeOK, DispatcherDies
  PROVE  /\ request' \in [Requests -> RequestStates]
         /\ in_flight' \in Nat
         /\ queues' \in [Models -> Seq([req : Requests, at : Nat])]
         /\ dispatcher' = "dead"
<1> DEFINE q == queues[active_name]
<1>1. active_name \in Models /\ q \in Seq([req : Requests, at : Nat]) /\ Slots = Len(q)
  BY DEF DispatcherDies, Live, Slots, TypeOK
<1>2. Len(q) \in Nat
  BY <1>1
<1>3. PICK i \in 1..Slots :
        /\ request' = [x \in Requests |-> IF x = q[i].req THEN "lost"
                                           ELSE IF x \in Taken(i) THEN "leaked"
                                           ELSE request[x]]
        /\ queues' = [queues EXCEPT ![active_name] = SubSeq(@, i + 1, Len(@))]
        /\ in_flight' = in_flight + i
  BY DEF DispatcherDies
<1>4. SubSeq(q, i + 1, Len(q)) \in Seq([req : Requests, at : Nat])
  <2>1. i + 1 \in Nat \ {0}
    BY <1>1, <1>2
  <2>2. QED
    BY <1>1, <2>1, SuffixType
<1>5. request' \in [Requests -> RequestStates]
  BY <1>3 DEF RequestStates, TypeOK
<1>6. in_flight' \in Nat
  BY <1>1, <1>2, <1>3 DEF TypeOK
<1>7. queues' \in [Models -> Seq([req : Requests, at : Nat])]
  BY <1>1, <1>3, <1>4 DEF TypeOK
<1>8. QED
  BY <1>5, <1>6, <1>7 DEF DispatcherDies

LEMMA TakeDownType ==
  ASSUME TypeOK, TakeDown
  PROVE  /\ proc' \in [Attempts -> {"none", "barrier", "loading", "up", "dying", "gone"}]
         /\ engine' \in Engines /\ serving_chat' \in Engines
         /\ active_name' \in Models \cup {None}
BY EngineNumbers DEF TakeDown, TypeOK

LEMMA TypeInit == Init => TypeOK
BY EngineNumbers, EmptyQueue DEF Init, TypeOK, Coroutines

LEMMA TypeStep == TypeOK /\ [Next]_vars => TypeOK'
<1> SUFFICES ASSUME TypeOK, [Next]_vars PROVE TypeOK'
  OBVIOUS
<1>1. ASSUME NEW r \in Requests, NEW m \in Models,
             NEW at \in 1..Cardinality(Requests), Acquire(r, m, at)
      PROVE  TypeOK'
  <2>1. at \in Nat
    OBVIOUS
  <2>2. queues' \in [Models -> Seq([req : Requests, at : Nat])]
    BY <1>1, <2>1 DEF Acquire, TypeOK
  <2>3. QED
    BY <1>1, <2>2 DEF Acquire, Notify, TypeOK, serving, tasks, system
<1>2. ASSUME NEW r \in Requests, Finish(r) PROVE TypeOK'
  <2>1. in_flight' \in Nat
    BY <1>2 DEF Finish, ReleaseSlot, TypeOK
  <2>2. QED
    BY <1>2, <2>1 DEF Finish, ReleaseSlot, Notify, TypeOK, serving, tasks, system
<1>3. CASE Dispatch
  <2>1. swap' \in {"start", "none", swap} /\ swaps' \in Engines
        /\ target' \in [Attempts -> Models \cup {None}]
    BY <1>3, EngineNumbers DEF Dispatch, NoCommit, Commit, TypeOK
  <2>2. parked' \subseteq Coroutines
    BY <1>3 DEF Dispatch, Park, Coroutines, TypeOK
  <2>3. QED
    BY <1>3, <2>1, <2>2, ServeActiveType DEF Dispatch, RequestStates, TypeOK, serving, system
<1>4. CASE Stop
  BY <1>4, RejectQueuesType DEF Stop, Notify, RequestStates, TypeOK, serving, tasks, system
<1>a. ASSUME NEW r \in Requests, Cancel(r) PROVE TypeOK'
  BY <1>a DEF Cancel, TypeOK, serving, tasks, system, control
<1>b. CASE DispatcherDies
  BY <1>b, DispatcherDiesType DEF DispatcherDies, RequestStates, TypeOK, serving, tasks, system
<1>5. CASE SwapTask
  <2>1. CASE SwapStart
    BY <2>1 DEF SwapStart, SwapStep, TypeOK, clients, serving, control
  <2>2. CASE SwapWait
    BY <2>2 DEF SwapWait, Park, Coroutines, TypeOK, clients, serving, tasks, system
  <2>3. CASE SwapUnload
    <3>1. CASE engine # 0
      BY <2>3, <3>1, TakeDownType DEF SwapUnload, TypeOK, clients, control
    <3>2. CASE engine = 0
      BY <2>3, <3>2 DEF SwapUnload, Unloaded, TypeOK, clients, serving, control
    <3>3. QED
      BY <3>1, <3>2
  <2>4. CASE SwapBaseline
    BY <2>4 DEF SwapBaseline, SwapStep, Unloaded, TypeOK, clients, serving, system, control
  <2>5. CASE SwapGo
    BY <2>5 DEF SwapGo, SwapStep, TouchGoFile, TypeOK, clients, serving, control
  <2>6. CASE SwapPoolFailed
    BY <2>6 DEF SwapPoolFailed, SwapStep, TypeOK, clients, serving, system, control
  <2>7. CASE SwapLoad
    BY <2>7 DEF SwapLoad, SwapStep, TypeOK, clients, serving, system, control
  <2>8. CASE SwapSpawned
    BY <2>8, EngineNumbers DEF SwapSpawned, SwapStep, TypeOK, clients, serving, control
  <2>9. CASE SwapSpawnFailed
    BY <2>9 DEF SwapSpawnFailed, SwapStep, TypeOK, clients, serving, system, control
  <2>10. CASE SwapReject
    BY <2>10, RejectQueuesType
       DEF SwapReject, SwapStep, RequestStates, TypeOK, serving, system, control
  <2>11. CASE SwapEnd
    BY <2>11 DEF SwapEnd, SwapStep, Notify, TypeOK, clients, serving, system
  <2>12. QED
    BY <1>5, <2>1, <2>2, <2>3, <2>4, <2>5, <2>6, <2>7, <2>8, <2>9, <2>10, <2>11 DEF SwapTask
<1>6. CASE PoolDone
  BY <1>6 DEF PoolDone, TypeOK, clients, serving, system, control
<1>7. ASSUME NEW k \in Attempts, SpawnTask(k) PROVE TypeOK'
  <2>1. CASE SpawnFork(k)
    BY <2>1 DEF SpawnFork, Spawn, Process, TypeOK, clients, serving, control
  <2>2. CASE SpawnFails(k)
    BY <2>2 DEF SpawnFails, Spawn, TypeOK, clients, serving, system, control
  <2>3. CASE InstallEngine(k)
    BY <2>3, EngineNumbers DEF InstallEngine, Spawn, TypeOK, clients, system, control
  <2>4. CASE InitFails(k)
    BY <2>4 DEF InitFails, Spawn, Process, TypeOK, clients, serving, control
  <2>5. CASE Recovered(k)
    BY <2>5 DEF Recovered, Spawn, TypeOK, clients, serving, system, control
  <2>6. CASE InstallHandler(k)
    BY <2>6, EngineNumbers DEF InstallHandler, Spawn, TypeOK, clients, system, control
  <2>7. QED
    BY <1>7, <2>1, <2>2, <2>3, <2>4, <2>5, <2>6 DEF SpawnTask
<1>8. ASSUME NEW k \in Attempts, Subprocess(k) PROVE TypeOK'
  <2>1. proc' \in [Attempts -> {"none", "barrier", "loading", "up", "dying", "gone"}]
        /\ SubprocessFrame
    BY <1>8 DEF Subprocess, CrossBarrier, LoadWeights, Dies, Reclaim, Process, TypeOK
  <2>2. QED
    BY <2>1 DEF SubprocessFrame, TypeOK, clients, serving, tasks, control
<1>9. ASSUME NEW u \in Unloaders, Admin(u) PROVE TypeOK'
  <2>1. CASE AdminWait(u)
    BY <2>1 DEF AdminWait, AdminStep, Park, Coroutines, TypeOK, clients, serving, tasks, system
  <2>2. CASE AdminUnload(u)
    BY <2>2, TakeDownType DEF AdminUnload, AdminStep, TypeOK, clients, tasks
  <2>3. CASE AdminReturn(u)
    BY <2>3 DEF AdminReturn, AdminStep, Notify, TypeOK, clients, serving, tasks, system
  <2>4. QED
    BY <1>9, <2>1, <2>2, <2>3 DEF Admin
<1>10. CASE UNCHANGED vars
  BY <1>10 DEF TypeOK, vars, clients, serving, tasks, system, control
<1>11. QED
  BY <1>1, <1>2, <1>3, <1>4, <1>5, <1>6, <1>7, <1>8, <1>9, <1>10, <1>a, <1>b DEF Next

(* Every variable keeps to its range whatever fails.                        *)
THEOREM TypeCorrect == Spec => []TypeOK
<1>1. QED
  BY TypeInit, TypeStep, PTL DEF Spec
-----------------------------------------------------------------------------
(* Queues and slots.                                                       *)

\* While a swap task exists, the last attempt is its attempt and has a model.
TargetKnown == swap # "none" => swaps \in Attempts /\ target[swaps] \in Models

LEMMA TargetStep == TypeOK /\ TargetKnown /\ [Next]_vars => TargetKnown'
<1> SUFFICES ASSUME TypeOK, TargetKnown, [Next]_vars PROVE TargetKnown'
  OBVIOUS
<1>1. CASE Dispatch
  <2>1. CASE NoCommit
    BY <2>1 DEF NoCommit, TargetKnown
  <2>2. ASSUME NEW m \in Models, Commit(m) PROVE TargetKnown'
    BY <2>2, EngineNumbers DEF Commit, TargetKnown, TypeOK
  <2>3. QED
    BY <1>1, <2>1, <2>2 DEF Dispatch
<1>2. CASE SwapTask
  <2>1. swap # "none" /\ UNCHANGED <<swaps, target>>
    BY <1>2 DEF SwapTask, SwapStep, SwapStart, SwapWait, SwapUnload,
                SwapBaseline, SwapGo, SwapPoolFailed, SwapLoad, SwapSpawned,
                SwapSpawnFailed, SwapReject, SwapEnd, tasks
  <2>2. QED
    BY <2>1 DEF TargetKnown
<1>3. CASE UNCHANGED <<swap, swaps, target>>
  BY <1>3 DEF TargetKnown
<1>4. ASSUME NEW k \in Attempts, SpawnTask(k) \/ Subprocess(k)
      PROVE  UNCHANGED <<swap, swaps, target>>
  BY <1>4 DEF SpawnTask, SpawnFork, SpawnFails, InstallHandler, InstallEngine, InitFails,
              Recovered, Subprocess, CrossBarrier, LoadWeights, Dies, Reclaim,
              SubprocessFrame, tasks
<1>5. ASSUME NEW u \in Unloaders, Admin(u)
      PROVE  UNCHANGED <<swap, swaps, target>>
  BY <1>5 DEF Admin, AdminWait, AdminUnload, AdminReturn, tasks
<1>6. ASSUME NEW r \in Requests,
             \/ Cancel(r) \/ Finish(r)
             \/ \E m \in Models, at \in 1..Cardinality(Requests) : Acquire(r, m, at)
      PROVE  UNCHANGED <<swap, swaps, target>>
  BY <1>6 DEF Cancel, Finish, Acquire, tasks
<1>7. CASE DispatcherDies \/ Stop \/ PoolDone \/ UNCHANGED vars
  BY <1>3, <1>7 DEF DispatcherDies, Stop, PoolDone, tasks, vars
<1>8. QED
  BY <1>1, <1>2, <1>3, <1>4, <1>5, <1>6, <1>7 DEF Next

\* Only so many things happen to requests and their queues: one arrives, is given
\* up or finished with, the dispatcher serves a batch or dies, or queues are
\* refused.
LEMMA RequestSteps ==
  ASSUME TargetKnown, [Next]_vars
  PROVE  \/ \E r \in Requests, m \in Models, at \in 1..Cardinality(Requests) :
              Acquire(r, m, at)
         \/ \E r \in Requests : Cancel(r) \/ Finish(r)
         \/ ServeActive /\ UNCHANGED asked
         \/ DispatcherDies
         \/ \E M \in SUBSET Models :
              RejectQueues(M) /\ UNCHANGED <<asked, in_flight>>
         \/ UNCHANGED <<request, asked, queues, in_flight>>
<1>1. CASE Dispatch
  BY <1>1 DEF Dispatch
<1>2. CASE Stop
  BY <1>2 DEF Stop
<1>3. CASE SwapTask
  <2>1. CASE SwapReject
    BY <2>1 DEF SwapReject, SwapStep, TargetKnown
  <2>2. CASE ~SwapReject
    BY <1>3, <2>2 DEF SwapTask, SwapStart, SwapWait, SwapUnload, SwapBaseline,
                      SwapGo, SwapPoolFailed, SwapLoad, SwapSpawned,
                      SwapSpawnFailed, SwapEnd, clients
  <2>3. QED
    BY <2>1, <2>2
<1>4. CASE PoolDone \/ UNCHANGED vars
  BY <1>4 DEF PoolDone, vars, clients
<1>5. ASSUME NEW k \in Attempts, SpawnTask(k) \/ Subprocess(k)
      PROVE  UNCHANGED <<request, asked, queues, in_flight>>
  BY <1>5 DEF SpawnTask, SpawnFork, SpawnFails, InstallHandler, InstallEngine, InitFails,
              Recovered, Subprocess, CrossBarrier, LoadWeights, Dies, Reclaim,
              SubprocessFrame, clients
<1>6. ASSUME NEW u \in Unloaders, Admin(u)
      PROVE  UNCHANGED <<request, asked, queues, in_flight>>
  BY <1>6 DEF Admin, AdminWait, AdminUnload, AdminReturn, clients
<1>7. QED
  BY <1>1, <1>2, <1>3, <1>4, <1>5, <1>6 DEF Next

(* What stands in a queue at a position is one of the queue's entries' type. *)
LEMMA EntryOfSequence ==
  ASSUME NEW S, NEW q \in Seq(S), NEW i \in 1..Len(q)
  PROVE  q[i] \in S
OBVIOUS

LEMMA QueueType ==
  ASSUME TypeOK, NEW m \in Models
  PROVE  /\ queues[m] \in Seq([req : Requests, at : Nat])
         /\ Len(queues[m]) \in Nat
         /\ \A i \in 1..Len(queues[m]) : queues[m][i].req \in Requests
<1>1. queues[m] \in Seq([req : Requests, at : Nat])
  BY DEF TypeOK
<1>2. Len(queues[m]) \in Nat
  BY <1>1
<1>3. ASSUME NEW i \in 1..Len(queues[m]) PROVE queues[m][i].req \in Requests
  <2>1. queues[m][i] \in [req : Requests, at : Nat]
    BY <1>1, EntryOfSequence
  <2>2. QED
    BY <2>1
<1>4. QED
  BY <1>1, <1>2, <1>3

\* The first n entries of a queue without duplicates are of n requests.
LEMMA PrefixCardinality ==
  ASSUME TypeOK, OnceInQueue, NEW m \in Models, NEW n \in 0..Len(queues[m])
  PROVE  LET P == {queues[m][j].req : j \in 1..n}
         IN  IsFiniteSet(P) /\ Cardinality(P) = n
<1> DEFINE q == queues[m]
           P == {q[j].req : j \in 1..n}
           F == [i \in 1..n |-> q[i].req]
<1>1. Len(q) \in Nat /\ n \in Nat /\ 1..n \subseteq 1..Len(q)
  BY QueueType
<1>2. F \in [1..n -> P]
  OBVIOUS
<1>3. \A i, j \in 1..n : F[i] = F[j] => i = j
  BY <1>1 DEF OnceInQueue
<1>4. \A r \in P : \E i \in 1..n : F[i] = r
  OBVIOUS
<1>5. F \in Bijection(1..n, P)
  BY <1>2, <1>3, <1>4, Fun_IsBij
<1>6. ExistsBijection(1..n, P)
  BY <1>5 DEF ExistsBijection
<1>7. IsFiniteSet(1..n) /\ Cardinality(1..n) = n
  BY <1>1, FS_Interval
<1>8. QED
  BY <1>6, <1>7, FS_Bijection

LEMMA QueueCardinality ==
  ASSUME TypeOK, OnceInQueue, NEW m \in Models
  PROVE  /\ IsFiniteSet(InQueue(m))
         /\ Cardinality(InQueue(m)) = Len(queues[m])
<1>1. Len(queues[m]) \in 0..Len(queues[m])
  BY QueueType
<1>2. QED
  BY <1>1, PrefixCardinality DEF InQueue

LEMMA QueueInit == Init => QueueIntegrity
BY DEF Init, QueueIntegrity, OnceInQueue, LostWithDispatcher

\* Emptying whole queues and moving everyone in them on keeps the rest intact.
LEMMA QueuesEmptied ==
  ASSUME TypeOK, OnceInQueue, NEW M \in SUBSET Models,
         queues' = [m \in Models |-> IF m \in M THEN <<>> ELSE queues[m]],
         \A r \in Requests : IF \E m \in M : r \in InQueue(m)
                               THEN request'[r] # "waiting"
                               ELSE request'[r] = request[r],
         UNCHANGED asked
  PROVE  OnceInQueue'
<1>1. \A m \in Models : \A i \in 1..Len(queues[m]) : queues[m][i].req \in Requests
  BY QueueType
<1>2. \A m \in M : \A r \in InQueue(m) : asked[r] = m
  BY DEF OnceInQueue, InQueue
<1>3. ASSUME NEW m \in Models, NEW i \in 1..Len(queues'[m])
      PROVE  /\ request'[queues'[m][i].req] \in {"waiting", "cancelled"}
             /\ asked'[queues'[m][i].req] = m
             /\ \A j \in 1..Len(queues'[m]) : queues'[m][j].req = queues'[m][i].req => i = j
  <2>1. m \notin M /\ queues'[m] = queues[m]
    BY <1>3
  <2>2. /\ asked[queues[m][i].req] = m
        /\ request[queues[m][i].req] \in {"waiting", "cancelled"}
    BY <1>3, <2>1 DEF OnceInQueue
  <2>3. \A n \in M : queues[m][i].req \notin InQueue(n)
    BY <1>2, <2>1, <2>2
  <2>4. request'[queues[m][i].req] = request[queues[m][i].req]
    BY <1>1, <1>3, <2>1, <2>3
  <2>5. QED
    BY <1>3, <2>1, <2>2, <2>4 DEF OnceInQueue
<1>4. ASSUME NEW r \in Requests, request'[r] = "waiting"
      PROVE  asked'[r] \in Models /\ r \in InQueue(asked[r])'
  <2>1. request[r] = "waiting" /\ \A m \in M : r \notin InQueue(m)
    BY <1>4
  <2>2. PICK i \in 1..Len(queues[asked[r]]) : queues[asked[r]][i].req = r
    BY <2>1 DEF OnceInQueue, InQueue
  <2>3. asked[r] \in Models \ M
    BY <2>1, <2>2, <1>2 DEF OnceInQueue, InQueue
  <2>4. QED
    BY <2>2, <2>3 DEF InQueue
<1>5. QED
  BY <1>3, <1>4 DEF OnceInQueue

\* A dispatcher that dies has taken the first entries of one queue.
LEMMA DispatcherTakes ==
  ASSUME TypeOK, DispatcherDies
  PROVE  /\ active_name \in Models
         /\ \E i \in 1..Len(queues[active_name]) :
              LET q == queues[active_name] IN
              /\ queues'[active_name] = SubSeq(q, i + 1, Len(q))
              /\ \A n \in Models \ {active_name} : queues'[n] = queues[n]
              /\ \A j \in 1..(Len(q) - i) : queues'[active_name][j] = q[i + j]
              /\ Len(queues'[active_name]) = Len(q) - i
              /\ request' = [x \in Requests |-> IF x = q[i].req THEN "lost"
                                                 ELSE IF x \in Taken(i) THEN "leaked"
                                                 ELSE request[x]]
              /\ in_flight' = in_flight + i
<1> DEFINE q == queues[active_name]
<1>1. active_name \in Models /\ q \in Seq([req : Requests, at : Nat]) /\ Slots = Len(q)
  BY DEF DispatcherDies, Live, Slots, TypeOK
<1>2. Len(q) \in Nat
  BY <1>1
<1>3. PICK i \in 1..Len(q) :
        /\ request' = [x \in Requests |-> IF x = q[i].req THEN "lost"
                                           ELSE IF x \in Taken(i) THEN "leaked"
                                           ELSE request[x]]
        /\ queues' = [queues EXCEPT ![active_name] = SubSeq(@, i + 1, Len(@))]
        /\ in_flight' = in_flight + i
  BY <1>1 DEF DispatcherDies
<1>4. /\ queues'[active_name] = SubSeq(q, i + 1, Len(q))
      /\ \A n \in Models \ {active_name} : queues'[n] = queues[n]
  BY <1>1, <1>3 DEF TypeOK
<1>5. /\ Len(SubSeq(q, i + 1, Len(q))) = Len(q) - i
      /\ \A j \in 1..(Len(q) - i) : SubSeq(q, i + 1, Len(q))[j] = q[i + j]
  BY <1>1, <1>2
<1>6. QED
  BY <1>1, <1>3, <1>4, <1>5

LEMMA DispatcherDiesQueues ==
  ASSUME TypeOK, OnceInQueue, DispatcherDies
  PROVE  OnceInQueue'
<1> DEFINE a == active_name
           q == queues[a]
<1>1. a \in Models /\ UNCHANGED asked
  BY DispatcherTakes DEF DispatcherDies
<1>2. PICK i \in 1..Len(q) :
        /\ \A n \in Models \ {a} : queues'[n] = queues[n]
        /\ \A j \in 1..(Len(q) - i) : queues'[a][j] = q[i + j]
        /\ Len(queues'[a]) = Len(q) - i
        /\ request' = [x \in Requests |-> IF x = q[i].req THEN "lost"
                                           ELSE IF x \in Taken(i) THEN "leaked"
                                           ELSE request[x]]
  BY DispatcherTakes
<1>3. Len(q) \in Nat /\ \A m \in Models : \A j \in 1..Len(queues[m]) : queues[m][j].req \in Requests
  BY <1>1, QueueType
<1>4. \A x \in Taken(i) : \E j \in 1..i : q[j].req = x
  BY DEF Taken
<1>5. \A j \in 1..(Len(q) - i) : i + j \in 1..Len(q) /\ i + j \notin 1..i
  BY <1>3
\* What is left of the active queue was not taken.
<1>6. ASSUME NEW n \in Models, NEW j \in 1..Len(queues'[n])
      PROVE  \E l \in 1..Len(queues[n]) :
               queues'[n][j] = queues[n][l] /\ queues[n][l].req \notin Taken(i)
                 /\ (n = a => l = i + j) /\ (n # a => l = j)
  <2>1. CASE n = a
    <3>1. j \in 1..(Len(q) - i) /\ i + j \in 1..Len(q) /\ i + j \notin 1..i
      BY <1>2, <1>5, <2>1
    <3>2. \A l \in 1..i : q[l].req # q[i + j].req
      <4>1. \A l \in 1..i : l \in 1..Len(q) /\ l # i + j
        BY <1>3, <3>1
      <4>2. QED
        BY <1>1, <3>1, <4>1 DEF OnceInQueue
    <3>3. q[i + j].req \notin Taken(i)
      BY <1>4, <3>2
    <3>4. QED
      BY <1>2, <2>1, <3>1, <3>3
  <2>2. CASE n # a
    <3>1. queues'[n] = queues[n] /\ asked[queues[n][j].req] = n
      BY <1>2, <2>2 DEF OnceInQueue
    <3>2. \A l \in 1..i : l \in 1..Len(q) /\ asked[q[l].req] = a
      BY <1>1, <1>3 DEF OnceInQueue
    <3>3. queues[n][j].req \notin Taken(i)
      BY <1>4, <2>2, <3>1, <3>2
    <3>4. QED
      BY <2>2, <3>1, <3>3
  <2>3. QED
    BY <2>1, <2>2
<1>7. \A x \in Requests \ Taken(i) : request'[x] = request[x]
  <2>1. q[i].req \in Taken(i)
    BY DEF Taken
  <2>2. QED
    BY <1>2, <2>1
<1>8. ASSUME NEW n \in Models, NEW j \in 1..Len(queues'[n])
      PROVE  /\ request'[queues'[n][j].req] \in {"waiting", "cancelled"}
             /\ asked'[queues'[n][j].req] = n
             /\ \A l \in 1..Len(queues'[n]) : queues'[n][l].req = queues'[n][j].req => j = l
  <2>1. PICK x \in 1..Len(queues[n]) :
          queues'[n][j] = queues[n][x] /\ queues[n][x].req \notin Taken(i)
            /\ (n = a => x = i + j) /\ (n # a => x = j)
    BY <1>6
  <2>2. /\ request'[queues'[n][j].req] \in {"waiting", "cancelled"}
        /\ asked'[queues'[n][j].req] = n
    BY <1>1, <1>3, <1>7, <2>1 DEF OnceInQueue
  <2>3. ASSUME NEW l \in 1..Len(queues'[n]), queues'[n][l].req = queues'[n][j].req
        PROVE  j = l
    <3>1. PICK y \in 1..Len(queues[n]) :
            queues'[n][l] = queues[n][y] /\ (n = a => y = i + l) /\ (n # a => y = l)
      BY <1>6
    <3>2. x = y
      BY <2>1, <2>3, <3>1 DEF OnceInQueue
    <3>3. Len(queues'[a]) \in Int /\ (n # a => queues'[n] = queues[n])
      BY <1>2, <1>3
    <3>4. QED
      BY <2>1, <3>1, <3>2, <3>3
  <2>4. QED
    BY <2>2, <2>3
<1>9. ASSUME NEW x \in Requests, request'[x] = "waiting"
      PROVE  asked'[x] \in Models /\ x \in InQueue(asked[x])'
  <2>1. request[x] = "waiting" /\ x \notin Taken(i)
    <3>1. q[i].req \in Taken(i)
      BY DEF Taken
    <3>2. QED
      BY <1>2, <1>9, <3>1
  <2>2. PICK j \in 1..Len(queues[asked[x]]) : queues[asked[x]][j].req = x
    BY <2>1 DEF OnceInQueue, InQueue
  <2>3. asked[x] \in Models
    BY <2>1 DEF OnceInQueue
  <2>4. CASE asked[x] = a
    <3>1. j \notin 1..i
      BY <2>1, <2>2, <2>4 DEF Taken
    <3>2. j - i \in 1..(Len(q) - i) /\ i + (j - i) = j
      BY <1>3, <2>2, <2>4, <3>1
    <3>3. j - i \in 1..Len(queues'[a]) /\ queues'[a][j - i].req = x
      BY <1>2, <2>2, <2>4, <3>2
    <3>4. QED
      BY <1>1, <2>3, <2>4, <3>3 DEF InQueue
  <2>5. CASE asked[x] # a
    BY <1>1, <1>2, <2>2, <2>3, <2>5 DEF InQueue
  <2>6. QED
    BY <2>4, <2>5
<1>10. QED
  BY <1>8, <1>9 DEF OnceInQueue

LEMMA QueueStep == TypeOK /\ TargetKnown /\ OnceInQueue /\ [Next]_vars => OnceInQueue'
<1> SUFFICES ASSUME TypeOK, TargetKnown, OnceInQueue, [Next]_vars
             PROVE  OnceInQueue'
  OBVIOUS
<1>t. \A m \in Models :
        /\ queues[m] \in Seq([req : Requests, at : Nat])
        /\ Len(queues[m]) \in Nat
        /\ \A i \in 1..Len(queues[m]) : queues[m][i].req \in Requests
  BY QueueType
<1>1. ASSUME NEW r \in Requests, NEW m \in Models,
             NEW at \in 1..Cardinality(Requests), Acquire(r, m, at)
      PROVE  OnceInQueue'
  <2> DEFINE e == [req |-> r, at |-> at]
  <2>1. \A n \in Models : r \notin InQueue(n)
    BY <1>1 DEF OnceInQueue, InQueue, Acquire
  <2>2. /\ queues'[m] = Append(queues[m], e)
        /\ \A n \in Models \ {m} : queues'[n] = queues[n]
    BY <1>1 DEF Acquire, TypeOK
  <2>3. e \in [req : Requests, at : Nat]
    OBVIOUS
  <2>4. /\ Len(queues'[m]) = Len(queues[m]) + 1
        /\ queues'[m][Len(queues[m]) + 1].req = r
        /\ \A i \in 1..Len(queues[m]) : queues'[m][i] = queues[m][i]
    BY <2>2, <2>3, <1>t
  <2>5. /\ request'[r] = "waiting" /\ asked'[r] = m
        /\ \A x \in Requests \ {r} : request'[x] = request[x] /\ asked'[x] = asked[x]
    BY <1>1 DEF Acquire, TypeOK
  <2>6. ASSUME NEW n \in Models, NEW i \in 1..Len(queues'[n])
        PROVE  /\ request'[queues'[n][i].req] \in {"waiting", "cancelled"}
               /\ asked'[queues'[n][i].req] = n
               /\ \A j \in 1..Len(queues'[n]) : queues'[n][j].req = queues'[n][i].req => i = j
    <3>1. CASE n = m
      <4>1. \A j \in 1..Len(queues'[m]) : j \in 1..Len(queues[m]) \/ j = Len(queues[m]) + 1
        BY <2>4, <1>t
      <4>2. \A j \in 1..Len(queues[m]) : queues[m][j].req # r /\ queues[m][j].req \in Requests
        BY <2>1, <1>t DEF InQueue
      <4>3. \A j \in 1..Len(queues[m]) :
              /\ request[queues[m][j].req] \in {"waiting", "cancelled"}
              /\ asked[queues[m][j].req] = m
              /\ \A l \in 1..Len(queues[m]) : queues[m][l].req = queues[m][j].req => j = l
        BY DEF OnceInQueue
      <4>4. \A j \in 1..Len(queues[m]) :
              /\ queues'[m][j].req # r
              /\ request'[queues'[m][j].req] \in {"waiting", "cancelled"}
              /\ asked'[queues'[m][j].req] = m
              /\ \A l \in 1..Len(queues[m]) : queues'[m][l].req = queues'[m][j].req => j = l
        <5>1. \A j \in 1..Len(queues[m]) : queues'[m][j] = queues[m][j]
          BY <2>4
        <5>2. \A j \in 1..Len(queues[m]) :
                LET x == queues[m][j].req
                IN  x # r /\ request'[x] = request[x] /\ asked'[x] = asked[x]
          BY <4>2, <2>5
        <5>3. QED
          BY <4>3, <5>1, <5>2
      <4>5. /\ request'[queues'[m][i].req] \in {"waiting", "cancelled"}
            /\ asked'[queues'[m][i].req] = m
        BY <3>1, <4>1, <4>4, <2>4, <2>5
      <4>6. ASSUME NEW j \in 1..Len(queues'[m]), queues'[m][j].req = queues'[m][i].req
            PROVE  i = j
        BY <3>1, <4>1, <4>4, <4>6, <2>4
      <4>7. QED
        BY <3>1, <4>5, <4>6
    <3>2. CASE n # m
      <4>1. \A j \in 1..Len(queues[n]) : queues[n][j].req # r /\ queues[n][j].req \in Requests
        BY <2>1, <1>t DEF InQueue
      <4>2. QED
        BY <3>2, <4>1, <2>2, <2>5 DEF OnceInQueue
    <3>3. QED
      BY <3>1, <3>2
  <2>7. ASSUME NEW x \in Requests, request'[x] = "waiting"
        PROVE  asked'[x] \in Models /\ x \in InQueue(asked[x])'
    <3>1. CASE x = r
      BY <3>1, <2>4, <2>5, <1>t DEF InQueue
    <3>2. CASE x # r
      <4>1. request[x] = "waiting" /\ asked'[x] = asked[x]
        BY <3>2, <2>5, <2>7
      <4>2. PICK i \in 1..Len(queues[asked[x]]) : queues[asked[x]][i].req = x
        BY <4>1 DEF OnceInQueue, InQueue
      <4>3. asked[x] \in Models
        BY <4>1 DEF OnceInQueue
      <4>4. i \in 1..Len(queues'[asked[x]]) /\ queues'[asked[x]][i].req = x
        <5>1. CASE asked[x] = m
          <6>1. i \in 1..Len(queues[m]) /\ queues[m][i].req = x
            BY <5>1, <4>2
          <6>2. i \in 1..Len(queues'[m]) /\ queues'[m][i] = queues[m][i]
            BY <6>1, <2>4, <1>t
          <6>3. QED
            BY <5>1, <6>1, <6>2
        <5>2. CASE asked[x] # m
          BY <5>2, <4>2, <4>3, <2>2
        <5>3. QED
          BY <5>1, <5>2
      <4>5. QED
        BY <4>1, <4>3, <4>4 DEF InQueue
    <3>3. QED
      BY <3>1, <3>2
  <2>8. QED
    BY <2>6, <2>7 DEF OnceInQueue
<1>2. ASSUME NEW r \in Requests, Finish(r) PROVE OnceInQueue'
  <2>1. UNCHANGED <<queues, asked>> /\ request[r] = "granted"
        /\ request' = [request EXCEPT ![r] = "released"]
    BY <1>2 DEF Finish
  <2>2. \A x \in Requests : request'[x] # request[x] => x = r /\ request'[x] = "released"
    BY <2>1 DEF TypeOK
  <2>3. QED
    BY <2>1, <2>2, <1>t DEF OnceInQueue, InQueue
<1>a. ASSUME NEW r \in Requests, Cancel(r) PROVE OnceInQueue'
  <2>1. UNCHANGED <<queues, asked>> /\ request[r] = "waiting"
        /\ request' = [request EXCEPT ![r] = "cancelled"]
    BY <1>a DEF Cancel
  <2>2. \A x \in Requests : request'[x] # request[x] => x = r /\ request'[x] = "cancelled"
    BY <2>1 DEF TypeOK
  <2>3. QED
    BY <2>1, <2>2, <1>t DEF OnceInQueue, InQueue
<1>3. CASE ServeActive /\ UNCHANGED asked
  <2>1. CASE ~Live
    <3>1. UNCHANGED <<queues, request>>
      BY <1>3, <2>1 DEF ServeActive, Served, Batch, TypeOK
    <3>2. QED
      BY <1>3, <3>1 DEF OnceInQueue, InQueue
  <2>2. CASE Live
    <3>1. active_name \in Models
      BY <2>2 DEF Live, TypeOK
    <3>2. queues' = [m \in Models |-> IF m \in {active_name} THEN <<>> ELSE queues[m]]
      BY <1>3, <2>2, <3>1 DEF ServeActive, TypeOK
    <3>3. \A r \in Requests : IF \E m \in {active_name} : r \in InQueue(m)
                                 THEN request'[r] # "waiting"
                                 ELSE request'[r] = request[r]
      BY <1>3, <2>2 DEF ServeActive, Served, Batch
    <3>4. QED
      BY <1>3, <3>1, <3>2, <3>3, QueuesEmptied
  <2>3. QED
    BY <2>1, <2>2
<1>4. ASSUME NEW M \in SUBSET Models, RejectQueues(M), UNCHANGED asked
      PROVE  OnceInQueue'
  <2>1. \A r \in Requests : IF \E m \in M : r \in InQueue(m)
                               THEN request'[r] # "waiting"
                               ELSE request'[r] = request[r]
    BY <1>4 DEF RejectQueues, Resolved
  <2>2. QED
    BY <1>4, <2>1, QueuesEmptied DEF RejectQueues
<1>5. CASE UNCHANGED <<request, asked, queues, in_flight>>
  BY <1>5 DEF OnceInQueue, InQueue
<1>6. QED
  BY <1>1, <1>2, <1>a, <1>3, <1>4, <1>5, RequestSteps, DispatcherDiesQueues

\* A dispatcher ends in two ways, and does not come back.
LEMMA DispatcherEnds ==
  ASSUME [Next]_vars
  PROVE  \/ UNCHANGED dispatcher
         \/ DispatcherDies /\ dispatcher' = "dead"
         \/ Stop /\ dispatcher' = "cancelled"
<1>1. CASE DispatcherDies \/ Stop
  BY <1>1 DEF DispatcherDies, Stop
<1>2. ASSUME NEW r \in Requests,
             \/ Cancel(r) \/ Finish(r)
             \/ \E m \in Models, at \in 1..Cardinality(Requests) : Acquire(r, m, at)
      PROVE  UNCHANGED dispatcher
  BY <1>2 DEF Cancel, Finish, Acquire, control
<1>3. CASE Dispatch \/ PoolDone \/ UNCHANGED vars
  BY <1>3 DEF Dispatch, PoolDone, control, vars
<1>4. CASE SwapTask
  BY <1>4 DEF SwapTask, SwapStart, SwapWait, SwapUnload, SwapBaseline, SwapGo,
              SwapPoolFailed, SwapLoad, SwapSpawned, SwapSpawnFailed,
              SwapReject, SwapEnd, control
<1>5. ASSUME NEW k \in Attempts, SpawnTask(k) \/ Subprocess(k) PROVE UNCHANGED dispatcher
  BY <1>5 DEF SpawnTask, SpawnFork, SpawnFails, InstallHandler, InstallEngine, InitFails,
              Recovered, Subprocess, CrossBarrier, LoadWeights, Dies, Reclaim,
              SubprocessFrame, control
<1>6. ASSUME NEW u \in Unloaders, Admin(u) PROVE UNCHANGED dispatcher
  BY <1>6 DEF Admin, AdminWait, AdminUnload, AdminReturn
<1>7. QED
  BY <1>1, <1>2, <1>3, <1>4, <1>5, <1>6 DEF Next

LEMMA LostStep ==
  TypeOK /\ TargetKnown /\ QueueIntegrity /\ [Next]_vars => LostWithDispatcher'
<1> SUFFICES ASSUME TypeOK, TargetKnown, QueueIntegrity, [Next]_vars
             PROVE  LostWithDispatcher'
  OBVIOUS
<1>1. CASE DispatcherDies
  <2>1. PICK r : \A x \in Requests : request'[x] = "lost" => x = r \/ request[x] = "lost"
    <3>1. PICK i : request' = [x \in Requests |->
                                 IF x = queues[active_name][i].req THEN "lost"
                                 ELSE IF x \in Taken(i) THEN "leaked" ELSE request[x]]
      BY <1>1, DispatcherTakes
    <3>2. \A x \in Requests : request'[x] = "lost"
            => x = queues[active_name][i].req \/ request[x] = "lost"
      BY <3>1
    <3>3. QED
      BY <3>2
  <2>2. dispatcher = "running" /\ dispatcher' = "dead"
    BY <1>1 DEF DispatcherDies
  <2>3. \A x \in Requests : request[x] # "lost"
    BY <2>2 DEF QueueIntegrity, LostWithDispatcher
  <2>4. QED
    BY <2>1, <2>2, <2>3 DEF LostWithDispatcher
<1>2. ASSUME \A x \in Requests : request'[x] = "lost" => request[x] = "lost"
      PROVE  LostWithDispatcher'
  BY <1>2, DispatcherEnds DEF QueueIntegrity, LostWithDispatcher
<1>3. ASSUME NEW r \in Requests,
             \/ Cancel(r) \/ Finish(r)
             \/ \E m \in Models, at \in 1..Cardinality(Requests) : Acquire(r, m, at)
      PROVE  LostWithDispatcher'
  BY <1>2, <1>3 DEF Cancel, Finish, Acquire, TypeOK
<1>4. CASE ServeActive
  BY <1>2, <1>4 DEF ServeActive, TypeOK
<1>5. ASSUME NEW M \in SUBSET Models, RejectQueues(M) PROVE LostWithDispatcher'
  BY <1>2, <1>5 DEF RejectQueues, Resolved, TypeOK
<1>6. CASE UNCHANGED <<request, asked, queues, in_flight>>
  BY <1>2, <1>6
<1>7. QED
  BY <1>1, <1>3, <1>4, <1>5, <1>6, RequestSteps

LEMMA SlotInit == Init => SlotAccounting
<1> SUFFICES ASSUME Init PROVE SlotAccounting
  OBVIOUS
<1>1. Granted \cup Forgotten = {} /\ in_flight = 0
  BY DEF Init, Granted, Forgotten
<1>2. QED
  BY <1>1, FS_EmptySet DEF SlotAccounting

\* The requests that have a slot.
Slotted == Granted \cup Forgotten

\* Requests without a slot may move on among themselves.
LEMMA SlotsUnchanged ==
  ASSUME SlotAccounting, UNCHANGED in_flight, Slotted' = Slotted
  PROVE  SlotAccounting'
BY DEF SlotAccounting, Slotted

\* Requests that had none get one each.
LEMMA SlotsTaken ==
  ASSUME SlotAccounting, NEW B, IsFiniteSet(B), B \cap Slotted = {},
         Slotted' = Slotted \cup B, in_flight' = in_flight + Cardinality(B)
  PROVE  SlotAccounting'
<1>1. IsFiniteSet(Slotted)
  BY RequestsAssumption, FS_Subset DEF Slotted, Granted, Forgotten
<1>2. Cardinality(Slotted \cup B)
        = Cardinality(Slotted) + Cardinality(B) - Cardinality(Slotted \cap B)
  BY <1>1, FS_Union
<1>3. Cardinality(Slotted \cap B) = 0
  <2>1. Slotted \cap B = {}
    OBVIOUS
  <2>2. QED
    BY <2>1, FS_EmptySet
<1>4. Cardinality(Slotted) \in Nat /\ Cardinality(B) \in Nat
  BY <1>1, FS_CardinalityType
<1>5. in_flight = Cardinality(Slotted)
  BY DEF SlotAccounting, Slotted
<1>6. in_flight' = Cardinality(Slotted \cup B)
  BY <1>2, <1>3, <1>4, <1>5
<1>7. QED
  BY <1>6 DEF SlotAccounting, Slotted

LEMMA SlotStep ==
  TypeOK /\ TargetKnown /\ QueueIntegrity /\ SlotAccounting /\ [Next]_vars
    => SlotAccounting'
<1> SUFFICES ASSUME TypeOK, TargetKnown, QueueIntegrity, SlotAccounting, [Next]_vars
             PROVE  SlotAccounting'
  OBVIOUS
<1>f. IsFiniteSet(Slotted)
  BY RequestsAssumption, FS_Subset DEF Slotted, Granted, Forgotten
<1>o. OnceInQueue
  BY DEF QueueIntegrity
<1>q. \A m \in Models : InQueue(m) \subseteq Requests \ Slotted
  BY <1>o, QueueType DEF InQueue, OnceInQueue, Slotted, Granted, Forgotten
<1>1. ASSUME NEW r \in Requests,
             \/ Cancel(r)
             \/ \E m \in Models, at \in 1..Cardinality(Requests) : Acquire(r, m, at)
      PROVE  SlotAccounting'
  <2>1. /\ UNCHANGED in_flight /\ request[r] \in {"idle", "waiting"}
        /\ \/ request' = [request EXCEPT ![r] = "waiting"]
           \/ request' = [request EXCEPT ![r] = "cancelled"]
    BY <1>1 DEF Cancel, Acquire
  <2>3. Slotted' = Slotted
    BY <2>1 DEF Slotted, Granted, Forgotten, TypeOK
  <2>4. QED
    BY <2>1, <2>3, SlotsUnchanged
<1>2. ASSUME NEW r \in Requests, Finish(r) PROVE SlotAccounting'
  <2>1. r \in Slotted /\ Slotted' = Slotted \ {r}
    BY <1>2 DEF Finish, Slotted, Granted, Forgotten, TypeOK
  <2>2. Cardinality(Slotted') = Cardinality(Slotted) - 1
    BY <2>1, <1>f, FS_RemoveElement
  <2>3. in_flight > 0
    BY <2>1, <1>f, FS_EmptySet, FS_CardinalityType DEF SlotAccounting, Slotted
  <2>4. in_flight' = in_flight - 1
    BY <1>2, <2>3 DEF Finish, ReleaseSlot
  <2>5. QED
    BY <2>2, <2>4 DEF SlotAccounting, Slotted
<1>3. CASE ServeActive
  <2>1. CASE ~Live
    <3>1. Slotted' = Slotted
      BY <1>3, <2>1 DEF ServeActive, Served, Batch, Slotted, Granted, Forgotten, TypeOK
    <3>2. UNCHANGED in_flight
      BY <1>3, <2>1 DEF ServeActive, Slots, TypeOK
    <3>3. QED
      BY <3>1, <3>2, SlotsUnchanged
  <2>2. CASE Live
    <3>1. active_name \in Models /\ Batch = InQueue(active_name)
      BY <2>2 DEF Live, Batch, TypeOK
    <3>2. IsFiniteSet(Batch) /\ Cardinality(Batch) = Slots
      BY <1>o, <2>2, <3>1, QueueCardinality DEF Slots
    <3>3. Batch \subseteq Requests /\ Batch \cap Slotted = {}
      BY <1>q, <3>1
    <3>4. Slotted' = Slotted \cup Batch
      BY <1>3, <3>3 DEF ServeActive, Served, Slotted, Granted, Forgotten
    <3>5. QED
      BY <1>3, <3>2, <3>3, <3>4, SlotsTaken DEF ServeActive
  <2>3. QED
    BY <2>1, <2>2
<1>d. CASE DispatcherDies
  <2> DEFINE q == queues[active_name]
  <2>1. active_name \in Models
    BY <1>d, DispatcherTakes
  <2>2. PICK i \in 1..Len(q) :
          /\ request' = [x \in Requests |-> IF x = q[i].req THEN "lost"
                                             ELSE IF x \in Taken(i) THEN "leaked"
                                             ELSE request[x]]
          /\ in_flight' = in_flight + i
    BY <1>d, DispatcherTakes
  <2>3. i \in 0..Len(q) /\ i \in 1..i /\ 1..i \subseteq 1..Len(q)
    BY <2>1, QueueType
  <2>4. IsFiniteSet(Taken(i)) /\ Cardinality(Taken(i)) = i
    BY <1>o, <2>1, <2>3, PrefixCardinality DEF Taken
  <2>5. Taken(i) \subseteq InQueue(active_name) /\ q[i].req \in Taken(i)
    BY <2>3 DEF Taken, InQueue
  <2>6. Taken(i) \subseteq Requests /\ Taken(i) \cap Slotted = {}
    BY <1>q, <2>1, <2>5
  <2>7. Slotted' = Slotted \cup Taken(i)
    BY <2>2, <2>5, <2>6 DEF Slotted, Granted, Forgotten
  <2>8. QED
    BY <2>2, <2>4, <2>6, <2>7, SlotsTaken
<1>4. ASSUME NEW M \in SUBSET Models, RejectQueues(M), UNCHANGED in_flight
      PROVE  SlotAccounting'
  <2>1. \A m \in M : \A r \in InQueue(m) : r \notin Slotted
    BY <1>q
  <2>2. Slotted' = Slotted
    BY <1>4, <2>1 DEF RejectQueues, Resolved, Slotted, Granted, Forgotten, TypeOK
  <2>3. QED
    BY <1>4, <2>2, SlotsUnchanged
<1>5. CASE UNCHANGED <<request, asked, queues, in_flight>>
  BY <1>5 DEF SlotAccounting, Granted, Forgotten
<1>6. QED
  BY <1>1, <1>2, <1>3, <1>d, <1>4, <1>5, RequestSteps

LEMMA TargetInit == Init => TargetKnown
BY DEF Init, TargetKnown

\* The inductive invariant behind the two theorems below.
QueueInvariant == TypeOK /\ TargetKnown /\ QueueIntegrity /\ SlotAccounting

LEMMA QueueInvariantHolds == Spec => []QueueInvariant
<1>1. Init => QueueInvariant
  BY TypeInit, TargetInit, QueueInit, SlotInit DEF QueueInvariant
<1>2. QueueInvariant /\ [Next]_vars => QueueInvariant'
  BY TypeStep, TargetStep, QueueStep, LostStep, SlotStep DEF QueueInvariant, QueueIntegrity
<1>3. QED
  BY <1>1, <1>2, PTL DEF Spec

(* Whatever fails, no request is queued twice, or both served and refused,  *)
(* and none is lost but the one on which the dispatcher died.               *)
THEOREM QueuesKept == Spec => []QueueIntegrity
<1>1. QueueInvariant => QueueIntegrity
  BY DEF QueueInvariant
<1>2. QED
  BY <1>1, QueueInvariantHolds, PTL

(* Whatever fails, in_flight is the number of requests being served and of  *)
(* the slots that leaked with a request: the clamp in release() never acts, *)
(* and a drained gateway serves nobody.                                     *)
THEOREM SlotsCounted == Spec => []SlotAccounting
<1>1. QueueInvariant => SlotAccounting
  BY DEF QueueInvariant
<1>2. QED
  BY <1>1, QueueInvariantHolds, PTL
-----------------------------------------------------------------------------
(* The order of service across models.                                     *)

\* Every queue is in order of arrival, so that its head is its oldest entry.
InOrder == \A m \in Models : \A i, j \in 1..Len(queues[m]) :
             i <= j => queues[m][i].at <= queues[m][j].at

LEMMA StampType ==
  ASSUME TypeOK, NEW m \in Models, NEW i \in 1..Len(queues[m])
  PROVE  queues[m][i].at \in Nat /\ queues[m][i].at \in Stamps
<1>1. queues[m][i] \in [req : Requests, at : Nat]
  BY QueueType, EntryOfSequence
<1>2. QED
  BY <1>1 DEF Stamps

LEMMA InOrderStep ==
  TypeOK /\ TargetKnown /\ InOrder /\ [Next]_vars => InOrder'
<1> SUFFICES ASSUME TypeOK, TargetKnown, InOrder, [Next]_vars PROVE InOrder'
  OBVIOUS
<1>1. ASSUME NEW r \in Requests, NEW m \in Models,
             NEW at \in 1..Cardinality(Requests), Acquire(r, m, at)
      PROVE  InOrder'
  <2> DEFINE e == [req |-> r, at |-> at]
             len == Len(queues[m])
  <2>1. at \in Nat /\ e \in [req : Requests, at : Nat] /\ e.at = at
    OBVIOUS
  <2>2. \A s \in Stamps : s \in Nat /\ s <= at
    <3>1. \A s \in Stamps : s \in Nat
      BY StampType DEF Stamps
    <3>2. QED
      BY <1>1, <2>1, <3>1 DEF Acquire, Clock
  <2>3. queues[m] \in Seq([req : Requests, at : Nat]) /\ len \in Nat
    BY QueueType
  <2>4. /\ queues'[m] = Append(queues[m], e)
        /\ \A n \in Models \ {m} : queues'[n] = queues[n]
    BY <1>1 DEF Acquire, TypeOK
  <2>5. /\ Len(queues'[m]) = len + 1
        /\ queues'[m][len + 1] = e
        /\ \A i \in 1..len : queues'[m][i] = queues[m][i]
    BY <2>1, <2>3, <2>4
  <2>6. ASSUME NEW i \in 1..Len(queues'[m]), NEW j \in 1..Len(queues'[m]), i <= j
        PROVE  queues'[m][i].at <= queues'[m][j].at
    <3>1. CASE j \in 1..len
      <4>1. i \in 1..len
        BY <2>3, <2>6, <3>1
      <4>2. queues[m][i].at <= queues[m][j].at
        BY <2>6, <3>1, <4>1 DEF InOrder
      <4>3. QED
        BY <2>5, <3>1, <4>1, <4>2
    <3>2. CASE j = len + 1
      <4>1. queues'[m][j].at = at
        BY <2>1, <2>5, <3>2
      <4>2. CASE i \in 1..len
        <5>1. queues[m][i].at <= at
          BY <4>2, <2>2, StampType
        <5>2. QED
          BY <2>5, <4>1, <4>2, <5>1
      <4>3. CASE i = len + 1
        BY <2>1, <4>1, <4>3, <3>2
      <4>4. QED
        BY <2>3, <2>5, <4>2, <4>3
    <3>3. QED
      BY <2>3, <2>5, <3>1, <3>2
  <2>7. QED
    BY <2>4, <2>6 DEF InOrder
<1>2. ASSUME \A m \in Models : queues'[m] = queues[m] \/ queues'[m] = <<>>
      PROVE  InOrder'
  BY <1>2 DEF InOrder
<1>3. ASSUME NEW r \in Requests, Cancel(r) \/ Finish(r) PROVE InOrder'
  BY <1>2, <1>3 DEF Cancel, Finish
<1>d. CASE DispatcherDies
  <2> DEFINE q == queues[active_name]
  <2>1. active_name \in Models /\ Len(q) \in Nat
    BY <1>d, DispatcherTakes, QueueType
  <2>2. PICK i \in 1..Len(q) :
          /\ \A n \in Models \ {active_name} : queues'[n] = queues[n]
          /\ \A j \in 1..(Len(q) - i) : queues'[active_name][j] = q[i + j]
          /\ Len(queues'[active_name]) = Len(q) - i
    BY <1>d, DispatcherTakes
  <2>3. ASSUME NEW j \in 1..(Len(q) - i), NEW l \in 1..(Len(q) - i), j <= l
        PROVE  q[i + j].at <= q[i + l].at
    <3>1. i + j \in 1..Len(q) /\ i + l \in 1..Len(q) /\ i + j <= i + l
      BY <2>1, <2>3
    <3>2. QED
      BY <2>1, <3>1 DEF InOrder
  <2>4. ASSUME NEW n \in Models PROVE \A j, l \in 1..Len(queues'[n]) :
               j <= l => queues'[n][j].at <= queues'[n][l].at
    <3>1. CASE n = active_name
      <4>1. 1..Len(queues'[n]) = 1..(Len(q) - i)
        BY <2>2, <3>1
      <4>2. \A j \in 1..(Len(q) - i) : queues'[n][j] = q[i + j]
        BY <2>2, <3>1
      <4>3. QED
        BY <2>3, <4>1, <4>2
    <3>2. CASE n # active_name
      BY <2>2, <3>2 DEF InOrder
    <3>3. QED
      BY <3>1, <3>2
  <2>5. QED
    BY <2>4 DEF InOrder
<1>4. CASE ServeActive
  BY <1>2, <1>4 DEF ServeActive, TypeOK
<1>5. ASSUME NEW M \in SUBSET Models, RejectQueues(M) PROVE InOrder'
  BY <1>2, <1>5 DEF RejectQueues
<1>6. CASE UNCHANGED <<request, asked, queues, in_flight>>
  BY <1>2, <1>6
<1>7. QED
  BY <1>1, <1>3, <1>d, <1>4, <1>5, <1>6, RequestSteps

\* Only a commit of the dispatcher starts a swap.
LEMMA SwapsGrow ==
  ASSUME TypeOK, [Next]_vars, swaps' # swaps
  PROVE  \E m \in Models : Commit(m)
<1>1. CASE Dispatch
  BY <1>1 DEF Dispatch, NoCommit
<1>2. CASE SwapTask
  BY <1>2 DEF SwapTask, SwapStart, SwapWait, SwapUnload, SwapBaseline, SwapGo,
              SwapPoolFailed, SwapLoad, SwapSpawned, SwapSpawnFailed,
              SwapReject, SwapEnd, tasks
<1>3. CASE DispatcherDies \/ Stop \/ PoolDone \/ UNCHANGED vars
  BY <1>3 DEF DispatcherDies, Stop, PoolDone, tasks, vars
<1>4. ASSUME NEW k \in Attempts, SpawnTask(k) \/ Subprocess(k) PROVE FALSE
  BY <1>4 DEF SpawnTask, SpawnFork, SpawnFails, InstallHandler, InstallEngine, InitFails,
              Recovered, Subprocess, CrossBarrier, LoadWeights, Dies, Reclaim,
              SubprocessFrame, tasks
<1>5. ASSUME NEW u \in Unloaders, Admin(u) PROVE FALSE
  BY <1>5 DEF Admin, AdminWait, AdminUnload, AdminReturn, tasks
<1>6. ASSUME NEW r \in Requests,
             \/ Cancel(r) \/ Finish(r)
             \/ \E m \in Models, at \in 1..Cardinality(Requests) : Acquire(r, m, at)
      PROVE  FALSE
  BY <1>6 DEF Cancel, Finish, Acquire, tasks
<1>7. QED
  BY <1>1, <1>2, <1>3, <1>4, <1>5, <1>6 DEF Next

(* The dispatcher never commits to a model while an older request waits for *)
(* another model that is not active.                                        *)
THEOREM OldestFirst == Spec => OldestWaiterWins
<1> DEFINE Inv == TypeOK /\ TargetKnown /\ InOrder
           Oldest == swaps' # swaps =>
             \A n \in Models \ {active_name} : \A i \in 1..Len(queues[n]) :
               Head(queues[target'[swaps']]).at <= queues[n][i].at
<1>1. Init => Inv
  BY TypeInit, TargetInit DEF Init, InOrder
<1>2. Inv /\ [Next]_vars => Inv'
  BY TypeStep, TargetStep, InOrderStep
<1>3. Inv /\ [Next]_vars => [Oldest]_vars
  <2> SUFFICES ASSUME Inv, [Next]_vars, swaps' # swaps,
                      NEW n \in Models \ {active_name}, NEW i \in 1..Len(queues[n])
               PROVE  Head(queues[target'[swaps']]).at <= queues[n][i].at
    OBVIOUS
  <2>1. PICK m \in Models : Commit(m)
    BY SwapsGrow
  <2>2. target'[swaps'] = m
    BY <2>1, EngineNumbers DEF Commit, TypeOK
  <2>3. \A c \in Models : queues[c] # <<>> =>
          Head(queues[c]) = queues[c][1] /\ 1 \in 1..Len(queues[c])
    BY QueueType
  <2>4. m \in Candidates /\ \A c \in Candidates \ {m} : OlderHead(m, c)
    BY <2>1 DEF Commit, PickNext
  <2>5. n \in Candidates
    BY QueueType DEF Candidates
  <2>6. Head(queues[n]).at <= queues[n][i].at /\ Head(queues[n]).at \in Nat
    BY <2>3, <2>5, StampType DEF Candidates, InOrder
  <2>7. Head(queues[m]).at <= Head(queues[n]).at /\ Head(queues[m]).at \in Nat
    BY <2>3, <2>4, <2>5, <2>6, StampType DEF Candidates, OlderHead
  <2>8. QED
    BY <2>2, <2>6, <2>7, StampType
<1>4. QED
  BY <1>1, <1>2, <1>3, PTL DEF Spec, OldestWaiterWins
=============================================================================
