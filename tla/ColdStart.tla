------------------------------ MODULE ColdStart ------------------------------
(***************************************************************************)
(* One load after another: _spawn_engine() of blitzinfer/api/server.py,    *)
(* which asks the profile cache, starts the subprocess and later saves     *)
(* what it measured, composed with the hand-over of the weights            *)
(* (WeightHandover) and with the cache (ProfileCache), across crashes of   *)
(* the gateway and of the host.                                            *)
(*                                                                         *)
(* Queues, draining and the GPU are in Gateway: here a swap may start      *)
(* whenever none is under way, also to the model that was loaded last      *)
(* (after /v1/admin/unload, or because the load failed).                   *)
(***************************************************************************)
EXTENDS WeightHandover

CONSTANTS
  Drivers,
  Unknown,       \* _driver_version() when nvidia-smi fails
  FirstDriver,
  MaxCrashes     \* bound on restarts: of this model, not of the code

ASSUME DriverAssumption == Unknown \notin Drivers /\ FirstDriver \in Drivers
ASSUME CrashAssumption == MaxCrashes \in Nat

VARIABLES
  driver,        \* what nvidia-smi would tell
  starts,        \* loads so far
  crashes,
  \* per load
  spawn_task,    \* where _spawn_engine() stands
  hit,           \* the profile it found, if any
  reading,       \* what nvidia-smi told put()
  entries, tmp, unsynced     \* the files of the profile cache

Cache == INSTANCE ProfileCache

spawning == <<spawn_task, hit, reading>>
files == <<entries, tmp, unsynced>>
vars == <<handover, starts, crashes, driver, spawning, files>>

Idle == swap = 0

Init ==
  /\ dirs = Local
  /\ fetched = UNION {Whole(d[1], d[2]) : d \in dirs}
  /\ pooled \in BOOLEAN /\ pool = [i \in Slots |-> Blank]
  /\ loaded_model = None /\ loaded_layout = NoLayout /\ layouts = NoLayouts
  /\ env = NoEnv /\ go_files = {}
  /\ swap = 0 /\ loading = None /\ pool_task = "none"
  /\ revision = None /\ layout = NoLayout /\ pending = {}
  /\ target = [k \in Loads |-> None] /\ inherited = [k \in Loads |-> NoEnv]
  /\ sub = [k \in Loads |-> "none"] /\ listed = [k \in Loads |-> None]
  /\ view = [k \in Loads |-> NoLayout] /\ weights = [k \in Loads |-> {}]
  /\ spawn_task = [k \in Loads |-> "none"]
  /\ hit = [k \in Loads |-> {}] /\ reading = [k \in Loads |-> None]
  /\ driver = FirstDriver /\ starts = 0 /\ crashes = 0
  /\ Cache!CacheInit
-----------------------------------------------------------------------------
(* The spawn task of load k.                                               *)

SpawnStep(k, from, to) == spawn_task[k] = from /\ spawn_task' = [spawn_task EXCEPT ![k] = to]
SpawnFrame == UNCHANGED <<hub, pooled, pool, label, layouts, release, current, fill,
                          target, starts, crashes, driver>>

Readings == {driver} \cup (IF "smi" \in Faults THEN {Unknown} ELSE {})

Lookup(k) ==
  /\ SpawnStep(k, "lookup", "fork")
  /\ \E r \in Readings : hit' = [hit EXCEPT ![k] = Cache!Get(Cache!Key(target[k], r))]
  /\ UNCHANGED <<reading, loader, files>> /\ SpawnFrame

\* The subprocess inherits the environment as it is now: that of a later swap,
\* if this load is an orphan that forks late.
Fork(k) ==
  /\ SpawnStep(k, "fork", "handshake")
  /\ sub' = [sub EXCEPT ![k] = "barrier"]
  /\ inherited' = [inherited EXCEPT ![k] = env]
  /\ UNCHANGED <<hit, reading, listed, view, weights, files>> /\ SpawnFrame

\* The engine is up and installed.  On a miss its profile is saved.
Install(k) ==
  /\ sub[k] = "up"
  /\ SpawnStep(k, "handshake", IF hit[k] = {} THEN "capture" ELSE "ok")
  /\ UNCHANGED <<hit, reading, loader, files>> /\ SpawnFrame

Entry(k) == Cache!Key(target[k], reading[k])
Measured(k) == [model |-> target[k], revision |-> listed[k], driver |-> driver,
                reading |-> reading[k]]

\* put() does not await: two of them never overlap.
OpenEntry(k) ==
  /\ SpawnStep(k, "capture", "dump")
  /\ \A j \in Loads : spawn_task[j] \notin {"dump", "rename"}
  /\ \E r \in Readings : /\ reading' = [reading EXCEPT ![k] = r]
                         /\ Cache!PutOpen(Cache!Key(target[k], r))
  /\ UNCHANGED <<hit, loader>> /\ SpawnFrame

DumpEntry(k) ==
  /\ SpawnStep(k, "dump", "rename")
  /\ Cache!PutDump(Entry(k), Measured(k))
  /\ UNCHANGED <<hit, reading, loader>> /\ SpawnFrame

RenameEntry(k) ==
  /\ SpawnStep(k, "rename", "ok")
  /\ Cache!PutRename(Entry(k))
  /\ UNCHANGED <<hit, reading, loader>> /\ SpawnFrame

\* put() raises, or the number of blocks cannot be found: this is logged.
NotSaved(k) ==
  /\ "disk" \in Faults
  /\ spawn_task[k] \in {"capture", "dump", "rename"}
  /\ spawn_task' = [spawn_task EXCEPT ![k] = "ok"]
  /\ UNCHANGED <<hit, reading, loader, files>> /\ SpawnFrame

\* The subprocess dies, or its initialisation fails and it is shut down.
Dies(k) ==
  /\ "spawn" \in Faults
  /\ spawn_task[k] = "handshake" /\ sub[k] # "dead"
  /\ sub' = [sub EXCEPT ![k] = "dead"]
  /\ UNCHANGED <<spawning, inherited, listed, view, weights, files>> /\ SpawnFrame

SpawnFails(k) ==
  /\ \/ "spawn" \in Faults /\ spawn_task[k] \in {"lookup", "fork"}
     \/ spawn_task[k] = "handshake" /\ sub[k] = "dead"
  /\ spawn_task' = [spawn_task EXCEPT ![k] = "err"]
  /\ UNCHANGED <<hit, reading, loader, files>> /\ SpawnFrame

SpawnEnded(k) == spawn_task[k] \in {"ok", "err"}
-----------------------------------------------------------------------------
(* The swap.                                                               *)

\* A swap starts its pool task and its spawn task; without a pool the latter
\* only.
StartLoad(m) ==
  /\ Idle
  /\ starts < MaxLoads /\ starts' = starts + 1
  /\ swap' = starts' /\ loading' = m
  /\ pool_task' = IF pooled THEN "resolve" ELSE "none"
  /\ env' = IF pooled THEN [layout |-> m, go |-> swap'] ELSE env
  /\ target' = [target EXCEPT ![swap'] = m]
  /\ spawn_task' = [spawn_task EXCEPT ![swap'] = "lookup"]
  /\ UNCHANGED <<hub, pooled, pool, label, layouts, go_files, fill,
                 inherited, sub, listed, view, weights, crashes, driver, hit, reading, files>>

SwapFrame == UNCHANGED <<hub, pooled, pool, label, layouts, starts, crashes, driver, files>>
SwapEnds ==
  /\ swap' = 0 /\ loading' = None /\ pool_task' = "none"
  /\ revision' = None /\ layout' = NoLayout /\ pending' = {}

\* What is known of a load is dropped when its spawn task has ended.
Forget(k) ==
  /\ target' = [target EXCEPT ![k] = None]
  /\ inherited' = [inherited EXCEPT ![k] = NoEnv]
  /\ sub' = [sub EXCEPT ![k] = "none"]
  /\ listed' = [listed EXCEPT ![k] = None]
  /\ view' = [view EXCEPT ![k] = NoLayout]
  /\ weights' = [weights EXCEPT ![k] = {}]
  /\ spawn_task' = [spawn_task EXCEPT ![k] = "none"]
  /\ hit' = [hit EXCEPT ![k] = {}]
  /\ reading' = [reading EXCEPT ![k] = None]

\* The swap has awaited its pool task, made the go-file, and awaited its spawn
\* task.  If that has raised, the go-file and the environment stay.
EndLoad ==
  /\ ~Idle /\ SpawnEnded(swap)
  /\ pooled => swap \in go_files
  /\ IF pooled /\ spawn_task[swap] = "ok"
       THEN go_files' = go_files \ {swap} /\ env' = [env EXCEPT !.go = 0]
       ELSE UNCHANGED release
  /\ Forget(swap) /\ SwapEnds /\ SwapFrame

\* The pool task has raised.  Nobody awaits or cancels the spawn task: it and
\* its subprocess live on.
LeaveOrphan ==
  /\ pool_task = "err"
  /\ SwapEnds /\ SwapFrame
  /\ UNCHANGED <<release, loader, spawning>>

OrphanEnds(k) ==
  /\ k # swap /\ SpawnEnded(k)
  /\ Forget(k) /\ SwapFrame
  /\ UNCHANGED <<release, current, fill>>
-----------------------------------------------------------------------------
\* The gateway ends, at any moment, with its subprocesses, and starts again:
\* what it knew is lost, the files stay.  Its layout files are named by its
\* pid, which may be new or used before; its go-files also by the time.
NewProcess ==
  /\ crashes < MaxCrashes /\ crashes' = crashes + 1
  /\ SwapEnds
  /\ loaded_model' = None /\ loaded_layout' = NoLayout
  /\ env' = NoEnv /\ go_files' = {}
  /\ target' = [k \in Loads |-> None] /\ inherited' = [k \in Loads |-> NoEnv]
  /\ sub' = [k \in Loads |-> "none"] /\ listed' = [k \in Loads |-> None]
  /\ view' = [k \in Loads |-> NoLayout] /\ weights' = [k \in Loads |-> {}]
  /\ spawn_task' = [k \in Loads |-> "none"]
  /\ hit' = [k \in Loads |-> {}] /\ reading' = [k \in Loads |-> None]
  /\ pooled' \in BOOLEAN /\ layouts' \in {layouts, NoLayouts}
  /\ UNCHANGED <<hub, starts>>

Restart ==
  /\ "restart" \in Faults
  /\ NewProcess
  /\ UNCHANGED <<pool, driver, files>>

\* The same, with the host: the pool is memory, and the driver may be another.
Reboot ==
  /\ "reboot" \in Faults
  /\ NewProcess
  /\ pool' = [i \in Slots |-> Blank]
  /\ driver' \in Drivers
  /\ \E lost \in SUBSET unsynced : Cache!HostLoses(lost)
-----------------------------------------------------------------------------
SpawnTask(k) == \/ Lookup(k) \/ Fork(k) \/ Install(k) \/ OpenEntry(k) \/ DumpEntry(k)
                \/ RenameEntry(k) \/ NotSaved(k) \/ SpawnFails(k)

HandoverFrame == UNCHANGED <<starts, crashes, driver, spawning, files>>
HandoverStep == /\ \/ PopulatePool \/ TouchGo \/ ReadFails
                   \/ \E k \in Loads : Loader(k)
                   \/ \E m \in Models : Update(m) \/ FetchShard(m)
                /\ HandoverFrame

Next == \/ \E m \in Models : StartLoad(m)
        \/ HandoverStep \/ EndLoad \/ LeaveOrphan
        \/ \E k \in Loads : SpawnTask(k) \/ Dies(k) \/ OrphanEnds(k)
        \/ Restart \/ Reboot

Spec == Init /\ [][Next]_vars

\* The tasks of a load run, its subprocess runs, and a download that vLLM has
\* begun comes to its end, so the steps of the loads do not all stop.  Loads,
\* updates, crashes and most failures need not happen.
LoadStep == \/ (PopulatePool \/ TouchGo \/ \E k \in Loads : Loader(k)) /\ HandoverFrame
            \/ \E k \in Loads : SpawnTask(k)
            \/ EndLoad \/ LeaveOrphan
Fairness == WF_vars(LoadStep)
FairSpec == Spec /\ Fairness
-----------------------------------------------------------------------------
(* Every variable of the gateway's loads, of the loader and of the files    *)
(* keeps to its range; in particular no shard is placed outside the pool.   *)
Layouts == UNION {[B -> Slots] : B \in SUBSET Shards}
Envs == [layout : Models \cup {None}, go : {0} \cup Loads]
TypeOK ==
  /\ dirs \subseteq Models \X Revisions
  /\ fetched \subseteq Models \X Revisions \X Shards
  /\ pooled \in BOOLEAN /\ pool \in [Slots -> Cells]
  /\ loaded_model \in Models \cup {None} /\ loaded_layout \in Layouts
  /\ layouts \in [Models -> Layouts]
  /\ env \in Envs /\ go_files \subseteq Loads
  /\ swap \in {0} \cup Loads /\ loading \in Models \cup {None}
  /\ pool_task \in {"none", "resolve", "fill", "write", "ok", "skipped", "err"}
  /\ revision \in Revisions \cup {None}
  /\ layout \in Layouts /\ pending \subseteq Shards
  /\ target \in [Loads -> Models \cup {None}] /\ inherited \in [Loads -> Envs]
  /\ sub \in [Loads -> {"none", "barrier", "list", "open", "read", "up", "dead"}]
  /\ listed \in [Loads -> Revisions \cup {None}]
  /\ view \in [Loads -> Layouts] /\ weights \in [Loads -> SUBSET (Shards \X Cells)]
  /\ starts \in 0..MaxLoads /\ crashes \in 0..MaxCrashes
  /\ driver \in Drivers
  /\ spawn_task \in [Loads -> {"none", "lookup", "fork", "handshake", "capture", "dump",
                               "rename", "ok", "err"}]
  /\ hit \in [Loads -> Cache!Contents] /\ reading \in [Loads -> Drivers \cup {Unknown, None}]
  /\ Cache!CacheTypeOK

\* A layout describes the pool: all its shards are of one revision of m.
Describes(l, m) == \E r \in Revisions : \A b \in DOMAIN l : pool[l[b]] = <<m, r, b>>
LabelTellsContents == loaded_model # None => Describes(loaded_layout, loaded_model)

EngineIsWhole(k) ==
  /\ {w[1] : w \in weights[k]} = Files[target[k]][listed[k]]
  /\ \E r \in Revisions : \A w \in weights[k] : w[2] = <<target[k], r, w[1]>>

\* The subprocess of k waits for the go-file of its own swap, or there is no pool.
Own(k) == pooled => inherited[k].go = k

(* An engine that comes up has every shard of the revision vLLM listed, all *)
(* of them from one revision of its own model, whatever was updated,        *)
(* reloaded, reused or restarted before, and beside any orphans.  The three *)
(* ways out of this are named: an orphan that forked late and so has the    *)
(* environment of another swap; a load that found no shards and left the    *)
(* pool and the layout file as they were; and, if reads fail, a pool that a *)
(* failed read has torn.                                                    *)
WeightsOfOneRevision ==
  \A k \in Loads :
    /\ sub[k] = "up" /\ Own(k)
    /\ pooled => pool_task = "ok" /\ ("read" \in Faults => LabelTellsContents)
    => EngineIsWhole(k)

(* While a subprocess takes its weights out of the pool, nobody writes to   *)
(* the pool or replaces its layout file, though orphans of earlier loads    *)
(* may be about; an orphan that forked late is not protected.               *)
PoolStableWhileRead ==
  [][\A k \in Loads : sub[k] = "read" /\ sub'[k] = "read" /\ Own(k)
       => UNCHANGED <<pool, layouts>>]_vars

(* A profile that is used instead of measuring was measured by a load of    *)
(* the same model and under the same driver, unless nvidia-smi did not      *)
(* answer when it was saved.                                                *)
OverrideWasMeasured ==
  \A k \in Loads : \A p \in hit[k] :
    p.model = target[k] /\ (p.reading # Unknown => p.driver = driver)

(* An entry that can be read stays readable, whenever the gateway crashes   *)
(* and whatever put() does, in loads and in orphans; only a crash of the    *)
(* host, after which nothing counts as unsynced, may lose it, and only if   *)
(* it was written since the host booted.                                    *)
EntriesStayComplete ==
  [][\A k \in Cache!Keys : entries[k] # {} /\ entries'[k] = {} =>
       k \in unsynced /\ unsynced' = {}]_vars

(* Every swap comes to its end: missing layouts, shards and files make it   *)
(* fail, not hang.                                                          *)
LoadEnds == ~Idle ~> Idle

(* Whenever the subprocess uses the shared pool, the parent has populated   *)
(* it with this model's shards (pinned_loader.py:5-9); when it has found    *)
(* none, the subprocess uses a private pool (server.py:596).                *)
SharedPoolIsPopulated ==
  \A k \in Loads : pooled /\ sub[k] = "list" =>
    LayoutFile(k) # NoLayout /\ Describes(LayoutFile(k), target[k])

\* A profile is used only for the revision it was measured with: "Any change"
\* of the inputs, the revision among them, is a "cache miss"
\* (profile_cache.py:9-15).  True while no model is published again.
HitsAreOfThisRevision ==
  \A k \in Loads : sub[k] = "up" => \A p \in hit[k] : p.revision = listed[k]
=============================================================================
