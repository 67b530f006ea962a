--------------------------- MODULE ColdStartProofs ---------------------------
(***************************************************************************)
(* Theorems about ColdStart, for every set of models, shards, revisions    *)
(* and faults, every order of the commit hashes and every number of loads  *)
(* and restarts.                                                           *)
(***************************************************************************)
EXTENDS ColdStart, NaturalSets

-----------------------------------------------------------------------------
(* Layouts.                                                                *)

\* A layout that fits places every shard inside the pool.
LEMMA LayoutInPool ==
  ASSUME NEW B \in SUBSET Shards, Fits(B)
  PROVE  LayoutOf(B) \in [B -> Slots]
<1> SUFFICES ASSUME NEW b \in B PROVE Slot(B, b) \in Slots
  BY DEF LayoutOf
<1> DEFINE C == {c \in B : c < b}
<1>1. IsFiniteSet(B)
  BY ShardAssumption, FS_Subset
<1>2. IsFiniteSet(B \ {b}) /\ Cardinality(B \ {b}) = Cardinality(B) - 1
  BY <1>1, FS_RemoveElement
<1>3. C \subseteq B \ {b}
  <2>1. \A z \in B : z \in Nat
    BY ShardAssumption
  <2> QED BY <2>1
<1>4. IsFiniteSet(C) /\ Cardinality(C) <= Cardinality(B \ {b})
  BY <1>2, <1>3, FS_Subset
<1>5. Cardinality(B) \in Nat /\ Cardinality(C) \in Nat
  BY <1>1, <1>4, FS_CardinalityType
<1>6. Cardinality(C) \in 0..(PoolSlots - 1)
  BY <1>2, <1>4, <1>5, ShardAssumption DEF Fits
<1> QED BY <1>6 DEF Slot, Slots

\* ... and no two shards in the same slot.
LEMMA LayoutInjective ==
  ASSUME NEW B \in SUBSET Shards, NEW b \in B, NEW c \in B, LayoutOf(B)[b] = LayoutOf(B)[c]
  PROVE  b = c
<1>1. ASSUME NEW x \in B, NEW y \in B, x < y
      PROVE  Slot(B, x) < Slot(B, y)
  <2> DEFINE X == {z \in B : z < x}
             Y == {z \in B : z < y}
  <2>1. IsFiniteSet(Y)
    BY ShardAssumption, FS_Subset
  <2>2. x \in Y /\ X \subseteq Y \ {x}
    <3>1. \A z \in B : z \in Nat
      BY ShardAssumption
    <3> QED BY <3>1, <1>1
  <2>3. IsFiniteSet(Y \ {x}) /\ Cardinality(Y \ {x}) = Cardinality(Y) - 1
    BY <2>1, <2>2, FS_RemoveElement
  <2>4. IsFiniteSet(X) /\ Cardinality(X) <= Cardinality(Y \ {x})
    BY <2>2, <2>3, FS_Subset
  <2>5. Cardinality(X) \in Nat /\ Cardinality(Y) \in Nat
    BY <2>1, <2>4, FS_CardinalityType
  <2>6. Cardinality(X) < Cardinality(Y)
    BY <2>3, <2>4, <2>5
  <2> QED BY <2>6 DEF Slot
<1>2. Slot(B, b) = Slot(B, c)
  BY DEF LayoutOf
<1>3. Slot(B, b) \in Nat /\ Slot(B, c) \in Nat
  <2>1. IsFiniteSet({z \in B : z < b}) /\ IsFiniteSet({z \in B : z < c})
    BY ShardAssumption, FS_Subset
  <2> QED BY <2>1, FS_CardinalityType DEF Slot
<1>4. b \in Nat /\ c \in Nat
  BY ShardAssumption
<1> QED
  <2>1. CASE b < c BY <2>1, <1>1, <1>2, <1>3
  <2>2. CASE c < b BY <2>2, <1>1, <1>2, <1>3
  <2> QED BY <2>1, <2>2, <1>4

LEMMA FilesType ==
  ASSUME NEW m \in Models, NEW r \in DOMAIN Files[m]
  PROVE  r \in Revisions /\ Files[m][r] \subseteq Shards
BY ShardAssumption

LEMMA WholeType ==
  ASSUME NEW m \in Models, NEW r \in DOMAIN Files[m]
  PROVE  Whole(m, r) \subseteq Models \X Revisions \X Shards
BY FilesType DEF Whole

LEMMA EmptyLayout == NoLayout \in Layouts /\ DOMAIN NoLayout = {}
<1>1. NoLayout = [b \in {} |-> Slot({}, b)]
  BY DEF NoLayout, LayoutOf
<1>2. NoLayout \in [{} -> Slots]
  BY <1>1
<1> QED BY <1>1, <1>2 DEF Layouts
-----------------------------------------------------------------------------
(* Types and control.                                                      *)

\* The swap under way, and the go-files.
SwapControl ==
  /\ swap = 0 => loading = None /\ pool_task = "none"
  /\ swap # 0 => /\ loading \in Models /\ target[swap] = loading
                 /\ swap <= starts /\ spawn_task[swap] # "none"
                 /\ pooled => env.go = swap
                 /\ pool_task = "none" => ~pooled
  /\ pool_task # "none" => pooled
  /\ ~pooled => env.go = 0
  /\ pool_task = "fill" => revision \in Revisions /\ pending \subseteq DOMAIN layout
  /\ \A g \in go_files : g <= starts
  /\ swap \in go_files => pool_task \in {"ok", "skipped"}

\* What was or will be inherited.  The go-file of an orphan is never made.
EnvControl(k) ==
  /\ k > starts => spawn_task[k] = "none"
  /\ spawn_task[k] # "none" =>
       /\ target[k] \in Models
       /\ pooled => env.layout \in Models
       /\ k # swap => k \notin go_files
       /\ env.go = k => env.layout = target[k]
  /\ sub[k] # "none" =>
       /\ pooled => inherited[k].layout \in Models
       /\ inherited[k].go = k => inherited[k].layout = target[k]

\* Where a spawn task and its subprocess can stand at the same time.
LoadControl(k) ==
  /\ spawn_task[k] = "none" => hit[k] = {}
  /\ spawn_task[k] \in {"none", "lookup", "fork"} => sub[k] = "none"
  /\ spawn_task[k] = "handshake" => sub[k] # "none"
  /\ spawn_task[k] \in {"capture", "dump", "rename"} => sub[k] = "up"
  /\ spawn_task[k] \in {"dump", "rename"} => reading[k] \in {driver, Unknown}
  /\ sub[k] \in {"list", "open", "read", "up"} /\ pooled /\ inherited[k].go = k
       => k = swap /\ pool_task \in {"ok", "skipped"}
  /\ sub[k] \in {"open", "read", "up"} => listed[k] \in DOMAIN Files[target[k]]
  /\ sub[k] \in {"none", "barrier", "list", "open"} => weights[k] = {}

OnePut ==
  \A j, k \in Loads : {spawn_task[j], spawn_task[k]} \subseteq {"dump", "rename"} => j = k

Control ==
  /\ SwapControl /\ OnePut
  /\ \A k \in Loads : EnvControl(k) /\ LoadControl(k)
  /\ \A d \in dirs : d[2] \in DOMAIN Files[d[1]]

Typed == TypeOK /\ Control

LEMMA TypedInit == Init => Typed
<1> SUFFICES ASSUME Init PROVE Typed
  OBVIOUS
<1>1. /\ dirs \subseteq Models \X Revisions
      /\ fetched \subseteq Models \X Revisions \X Shards
  <2>1. \A d \in Local : /\ d \in Models \X Revisions
                         /\ Whole(d[1], d[2]) \subseteq Models \X Revisions \X Shards
    <3> TAKE d \in Local
    <3>1. d[1] \in Models /\ d[2] \in DOMAIN Files[d[1]] /\ d = <<d[1], d[2]>>
      BY ShardAssumption
    <3>2. d[2] \in Revisions
      BY <3>1, FilesType
    <3> QED BY <3>1, <3>2, WholeType
  <2> QED BY <2>1 DEF Init
<1>2. pool \in [Slots -> Cells]
  BY DEF Init, Cells
<1>3. loaded_layout \in Layouts /\ layouts \in [Models -> Layouts] /\ layout \in Layouts
  BY EmptyLayout DEF Init, NoLayouts
<1>4. Cache!CacheTypeOK
  BY DEF Init, Cache!CacheInit, Cache!CacheTypeOK, Cache!Contents
<1>5. /\ starts \in 0..MaxLoads /\ crashes \in 0..MaxCrashes /\ driver \in Drivers
      /\ swap \in {0} \cup Loads
  BY LoadsAssumption, CrashAssumption, DriverAssumption DEF Init
<1>6. NoEnv \in Envs
  BY DEF NoEnv, Envs
<1>7. /\ target \in [Loads -> Models \cup {None}] /\ inherited \in [Loads -> Envs]
      /\ listed \in [Loads -> Revisions \cup {None}]
      /\ view \in [Loads -> Layouts] /\ weights \in [Loads -> SUBSET (Shards \X Cells)]
      /\ hit \in [Loads -> Cache!Contents] /\ reading \in [Loads -> Drivers \cup {Unknown, None}]
  BY <1>6, EmptyLayout DEF Init, Cache!Contents
<1>8. TypeOK
  BY <1>1, <1>2, <1>3, <1>4, <1>5, <1>6, <1>7 DEF Init, TypeOK
<1>9. Control
  BY ShardAssumption DEF Init, Control, SwapControl, OnePut, EnvControl, LoadControl, NoEnv
<1> QED BY <1>8, <1>9 DEF Typed

\* What a step that leaves the loads alone keeps of the control.
LEMMA LoadsKept ==
  ASSUME Control, UNCHANGED <<pooled, release, swap, loader, starts, driver, spawning>>,
         NEW k \in Loads,
         pool_task \in {"ok", "skipped"} => pool_task' \in {"ok", "skipped"}
  PROVE  EnvControl(k)' /\ LoadControl(k)'
BY DEF Control, release, loader, spawning, EnvControl, LoadControl

\* The HF cache and the pool task.
LEMMA TypedPool ==
  ASSUME Typed, HandoverFrame,
         \/ PopulatePool \/ TouchGo \/ ReadFails
         \/ \E m \in Models : Update(m) \/ FetchShard(m)
  PROVE  Typed'
<1> USE DEF Typed, HandoverFrame, PoolFrame, current
<1>0. /\ UNCHANGED <<Cache!CacheTypeOK>>
      /\ UNCHANGED <<pooled, swap, loading, loader, starts, crashes, driver, spawning>>
      /\ pool_task \in {"ok", "skipped"} => pool_task' = pool_task
      /\ pool_task' # "none" <=> pool_task # "none"
  BY DEF Cache!CacheTypeOK, files, PopulatePool, TouchGo, ReadFails, Update, FetchShard, NoShards,
         Reuse, TooBig, BeginFill, ReadIntoPool, FillDone, WriteLayout, SwapControl, Control
<1>a. UNCHANGED OnePut
  BY <1>0 DEF OnePut, spawning
<1>b. ASSUME UNCHANGED release PROVE \A k \in Loads : EnvControl(k)' /\ LoadControl(k)'
  BY <1>0, <1>b, LoadsKept
<1>c. ASSUME UNCHANGED <<release, fill>>, pool_task' # "fill" \/ pool_task = "fill" PROVE SwapControl'
  BY <1>0, <1>c DEF Control, SwapControl, release, fill, loader, spawning
<1> USE DEF hub, label, fill, loader, release, spawning
<1>1. ASSUME NEW m \in Models, Update(m) PROVE Typed'
  <2>1. PICK r \in DOMAIN Files[m] :
          /\ dirs' = dirs \cup {<<m, r>>}
          /\ fetched' \in {fetched, fetched \cup Whole(m, r)}
    BY <1>1 DEF Update
  <2>2. /\ dirs' \subseteq Models \X Revisions
        /\ fetched' \subseteq Models \X Revisions \X Shards
    BY <2>1, FilesType, WholeType DEF TypeOK
  <2>3. \A d \in dirs' : d[2] \in DOMAIN Files[d[1]]
    BY <2>1 DEF Control
  <2> QED BY <1>0, <1>a, <1>b, <1>c, <1>1, <2>2, <2>3 DEF Update, TypeOK, Control
<1>2. ASSUME NEW m \in Models, FetchShard(m) PROVE Typed'
  <2>1. PICK r \in Revisions, b \in Shards : fetched' = fetched \cup {<<m, r, b>>}
    <3>1. PICK r \in Snapshots(m) : \E b \in Files[m][r] : fetched' = fetched \cup {<<m, r, b>>}
      BY <1>2 DEF FetchShard
    <3>2. r \in DOMAIN Files[m]
      BY <3>1 DEF Snapshots, Control
    <3> QED BY <3>1, <3>2, FilesType
  <2> QED BY <1>0, <1>a, <1>b, <1>c, <1>2, <2>1 DEF FetchShard, TypeOK, Control
<1>3. CASE NoShards \/ Reuse \/ TooBig
  BY <1>0, <1>a, <1>b, <1>c, <1>3 DEF NoShards, Reuse, TooBig, TypeOK, Control
<1>6. CASE BeginFill
  <2>1. LastByName(loading) \in Revisions
    BY <1>6 DEF BeginFill, ShardPaths, TypeOK
  <2>2. LayoutOf(ShardPaths(loading)) \in Layouts
    BY <1>6, LayoutInPool DEF BeginFill, ShardPaths, Layouts
  <2>3. ShardPaths(loading) \subseteq Shards
    BY DEF ShardPaths
  <2>4. DOMAIN LayoutOf(ShardPaths(loading)) = ShardPaths(loading)
    BY DEF LayoutOf
  <2>5. TypeOK'
    BY <1>0, <1>6, <2>1, <2>2, <2>3 DEF BeginFill, TypeOK
  <2>6. SwapControl'
    BY <1>0, <1>6, <2>1, <2>4 DEF BeginFill, Control, SwapControl
  <2> QED BY <1>a, <1>b, <1>6, <2>5, <2>6 DEF BeginFill, Control
<1>7. ASSUME NEW b \in pending, ReadIntoPool(b) PROVE Typed'
  <2>1. <<loading, revision, b>> \in Cells
    BY <1>7, ModelAssumption DEF ReadIntoPool, Cells, TypeOK, Control, SwapControl
  <2>2. TypeOK'
    BY <1>0, <1>7, <2>1 DEF ReadIntoPool, TypeOK
  <2>3. SwapControl'
    BY <1>0, <1>7 DEF ReadIntoPool, Control, SwapControl
  <2> QED BY <1>a, <1>b, <1>7, <2>2, <2>3 DEF ReadIntoPool, Control
<1>8. CASE FillDone \/ WriteLayout
  <2>1. loaded_model' \in Models \cup {None} /\ loaded_layout' \in Layouts
        /\ layouts' \in [Models -> Layouts]
    BY <1>8 DEF FillDone, WriteLayout, TypeOK
  <2> QED BY <1>0, <1>a, <1>b, <1>c, <1>8, <2>1 DEF FillDone, WriteLayout, TypeOK, Control
<1>9. CASE ReadFails
  <2>1. pool' \in [Slots -> Cells]
    <3>1. PICK B \in SUBSET pending :
            pool' = [i \in Slots |-> IF \E b \in B : layout[b] = i THEN Torn ELSE pool[i]]
      BY <1>9 DEF ReadFails
    <3> QED BY <3>1 DEF Cells, TypeOK
  <2> QED BY <1>0, <1>a, <1>b, <1>c, <1>9, <2>1 DEF ReadFails, TypeOK, Control
<1>10. CASE TouchGo
  <2>1. swap \in Loads /\ go_files' = go_files \cup {swap} /\ env' = env
    BY <1>10 DEF TouchGo, TypeOK, Control, SwapControl
  <2>2. SwapControl'
    BY <1>0, <1>10, <2>1 DEF TouchGo, Control, SwapControl
  <2>3. \A k \in Loads : EnvControl(k)' /\ LoadControl(k)'
    BY <1>0, <2>1 DEF Control, EnvControl, LoadControl
  <2> QED BY <1>0, <1>a, <1>10, <2>1, <2>2, <2>3 DEF TouchGo, TypeOK, Control
<1> QED BY <1>1, <1>2, <1>3, <1>6, <1>7, <1>8, <1>9, <1>10 DEF PopulatePool

\* What a step of load k keeps of the control of the others.
LEMMA OthersKept ==
  ASSUME Control, NEW k \in Loads, NEW j \in Loads, j # k,
         UNCHANGED <<pooled, release, swap, pool_task, starts, driver>>,
         UNCHANGED <<target[j], inherited[j], sub[j], listed[j], weights[j],
                     spawn_task[j], hit[j], reading[j]>>
  PROVE  EnvControl(j)' /\ LoadControl(j)'
BY DEF Control, release, EnvControl, LoadControl

LEMMA TypedLoader ==
  ASSUME Typed, HandoverFrame, NEW k \in Loads, Loader(k)
  PROVE  Typed'
<1> USE DEF Typed, HandoverFrame, hub, label, fill, current, LoaderFrame, LoaderStep, spawning, files
<1>0. /\ UNCHANGED <<Cache!CacheTypeOK>>
      /\ UNCHANGED <<pooled, pool, loaded_model, loaded_layout, layouts, release, swap, loading,
                     pool_task, revision, layout, pending, target, inherited,
                     starts, crashes, driver, spawn_task, hit, reading>>
  BY DEF Cache!CacheTypeOK, Loader, Cross, ListFiles, OpenLayout, OpenPrivatePool, TakeShard,
         LoaderRaises, Loaded
<1>a. SwapControl' /\ OnePut'
  BY <1>0 DEF Control, SwapControl, OnePut, release
<1>b. \A j \in Loads : j # k => UNCHANGED <<sub[j], listed[j], view[j], weights[j]>>
  BY DEF Loader, Cross, ListFiles, OpenLayout, OpenPrivatePool, TakeShard, LoaderRaises, Loaded,
         TypeOK
<1>c. \A j \in Loads : j # k => EnvControl(j)' /\ LoadControl(j)'
  BY <1>0, <1>b, OthersKept
<1>d. spawn_task[k] # "none" /\ sub[k] # "none" /\ target[k] \in Models
  BY DEF Loader, Cross, ListFiles, OpenLayout, OpenPrivatePool, TakeShard, LoaderRaises, Loaded,
         Control, EnvControl, LoadControl
<1>e. EnvControl(k)'
  BY <1>0, <1>d DEF Control, EnvControl, release
<1>f. ASSUME UNCHANGED hub PROVE /\ UNCHANGED <<dirs, fetched>>
                                 /\ \A d \in dirs' : d[2] \in DOMAIN Files[d[1]]
  BY <1>f DEF Control
<1> USE DEF release
<1>1. CASE Cross(k)
  <2>1. LoadControl(k)'
    <3>1. sub'[k] = "list" /\ UNCHANGED weights
      BY <1>1 DEF Cross, TypeOK
    <3>2. pooled /\ inherited[k].go = k => k = swap /\ pool_task \in {"ok", "skipped"}
      BY <1>1, <1>d DEF Cross, Released, Control, SwapControl, EnvControl, Loads
    <3>3. weights[k] = {} /\ spawn_task[k] \notin {"none", "lookup", "fork", "capture", "dump", "rename"}
      BY <1>1 DEF Cross, Control, LoadControl
    <3> QED BY <1>0, <3>1, <3>2, <3>3 DEF LoadControl
  <2>2. TypeOK'
    BY <1>0, <1>1 DEF Cross, TypeOK
  <2> QED BY <1>a, <1>c, <1>e, <1>f, <1>1, <2>1, <2>2 DEF Cross, Control
<1>2. CASE ListFiles(k)
  <2>1. PICK r \in DOMAIN Files[target[k]] :
          /\ dirs' = dirs \cup {<<target[k], r>>}
          /\ fetched' = fetched \cup Whole(target[k], r)
          /\ listed' = [listed EXCEPT ![k] = r]
    BY <1>2 DEF ListFiles
  <2>2. r \in Revisions
    BY <1>d, FilesType
  <2>3. TypeOK'
    <3>1. dirs' \subseteq Models \X Revisions /\ fetched' \subseteq Models \X Revisions \X Shards
      BY <1>d, <2>1, <2>2, WholeType DEF TypeOK
    <3> QED BY <1>0, <1>2, <2>1, <2>2, <3>1 DEF ListFiles, TypeOK
  <2>4. \A d \in dirs' : d[2] \in DOMAIN Files[d[1]]
    BY <2>1 DEF Control
  <2>5. LoadControl(k)'
    <3>1. sub'[k] = "open" /\ sub[k] = "list" /\ listed'[k] = r /\ UNCHANGED weights
      BY <1>2, <2>1 DEF ListFiles, TypeOK
    <3> QED BY <1>0, <3>1 DEF Control, LoadControl
  <2> QED BY <1>a, <1>c, <1>e, <2>3, <2>4, <2>5 DEF Control
<1>3. CASE OpenLayout(k) \/ OpenPrivatePool(k)
  <2>1. view' \in [Loads -> Layouts]
    BY <1>3, <1>d DEF OpenLayout, OpenPrivatePool, LayoutFile, TypeOK, Control, EnvControl
  <2>2. LoadControl(k)'
    <3>1. sub'[k] = "read" /\ sub[k] = "open" /\ UNCHANGED <<listed, weights>>
      BY <1>3 DEF OpenLayout, OpenPrivatePool, TypeOK
    <3> QED BY <1>0, <3>1 DEF Control, LoadControl
  <2>3. TypeOK'
    BY <1>0, <1>3, <2>1 DEF OpenLayout, OpenPrivatePool, TypeOK
  <2> QED BY <1>a, <1>c, <1>e, <1>f, <1>3, <2>2, <2>3 DEF OpenLayout, OpenPrivatePool, Control
<1>5. ASSUME NEW b \in Unread(k), TakeShard(k, b) PROVE Typed'
  <2>0. sub[k] = "read" /\ UNCHANGED <<hub, sub, listed, view>>
    BY <1>5 DEF TakeShard
  <2>1. target[k] \in Models /\ listed[k] \in Revisions /\ b \in Shards
    BY <2>0, <1>d, FilesType DEF Unread, Control, LoadControl
  <2>2. weights' \in [Loads -> SUBSET (Shards \X Cells)]
    <3> DEFINE c == IF pooled THEN InPool(k, b) ELSE <<target[k], listed[k], b>>
    <3>1. c \in Cells
      <4>1. CASE pooled
        <5>1. view[k] \in Layouts /\ b \in DOMAIN view[k]
          BY <1>5, <4>1 DEF TakeShard, InLayout, TypeOK
        <5>2. view[k][b] \in Slots
          BY <5>1 DEF Layouts
        <5> QED BY <4>1, <5>2 DEF InPool, TypeOK
      <4>2. CASE ~pooled
        BY <2>1, <4>2 DEF Cells
      <4> QED BY <4>1, <4>2
    <3>2. weights' = [weights EXCEPT ![k] = @ \cup {<<b, c>>}]
      BY <1>5 DEF TakeShard
    <3> HIDE DEF c
    <3> QED BY <2>1, <3>1, <3>2 DEF TypeOK
  <2>3. TypeOK'
    BY <1>0, <2>0, <2>2 DEF TypeOK
  <2>4. LoadControl(k)'
    BY <1>0, <2>0 DEF Control, LoadControl
  <2> QED BY <1>a, <1>c, <1>e, <1>f, <2>0, <2>3, <2>4 DEF Control
<1>6. CASE LoaderRaises(k)
  <2>1. sub'[k] = "dead" /\ sub[k] \in {"open", "read"}
    BY <1>6 DEF LoaderRaises, TypeOK
  <2>2. LoadControl(k)'
    BY <1>0, <2>1 DEF Control, LoadControl
  <2>3. TypeOK'
    BY <1>0, <1>6 DEF LoaderRaises, TypeOK
  <2> QED BY <1>a, <1>c, <1>e, <1>f, <1>6, <2>2, <2>3 DEF LoaderRaises, Control
<1>7. CASE Loaded(k)
  <2>1. sub'[k] = "up" /\ sub[k] = "read" /\ UNCHANGED <<listed, weights>>
    BY <1>7 DEF Loaded, TypeOK
  <2>2. LoadControl(k)'
    BY <1>0, <2>1 DEF Control, LoadControl
  <2>3. TypeOK'
    BY <1>0, <1>7 DEF Loaded, TypeOK
  <2> QED BY <1>a, <1>c, <1>e, <1>f, <1>7, <2>2, <2>3 DEF Loaded, Control
<1> QED BY <1>1, <1>2, <1>3, <1>5, <1>6, <1>7 DEF Loader
-----------------------------------------------------------------------------

LEMMA TypedSpawn ==
  ASSUME Typed, NEW k \in Loads, SpawnTask(k) \/ Dies(k)
  PROVE  Typed'
<1> USE DEF Typed, hub, label, fill, current, release, SpawnFrame, SpawnStep
<1>0. UNCHANGED <<dirs, fetched, pooled, pool, loaded_model, loaded_layout, layouts, env, go_files,
                  swap, loading, pool_task, revision, layout, pending, target, listed, view,
                  weights, starts, crashes, driver>>
  BY DEF SpawnTask, Dies, Lookup, Fork, Install, OpenEntry, DumpEntry, RenameEntry,
         NotSaved, SpawnFails, loader
<1>a. /\ spawn_task[k] # "none" /\ spawn_task'[k] # "none"
      /\ \A j \in Loads : j # k =>
           UNCHANGED <<inherited[j], sub[j], spawn_task[j], hit[j], reading[j]>>
  BY DEF SpawnTask, Dies, Lookup, Fork, Install, OpenEntry, DumpEntry, RenameEntry,
         NotSaved, SpawnFails, loader, spawning, TypeOK
<1>b. SwapControl' /\ \A j \in Loads : j # k => EnvControl(j)' /\ LoadControl(j)'
  <2>1. SwapControl'
    BY <1>0, <1>a DEF TypeOK, Control, SwapControl
  <2> QED BY <1>0, <1>a, <2>1, OthersKept
<1>c. ASSUME spawn_task'[k] \in {"dump", "rename"} => spawn_task[k] \in {"dump", "rename"}
      PROVE  OnePut'
  BY <1>a, <1>c DEF Control, OnePut
<1>d. ASSUME UNCHANGED <<inherited, sub>> PROVE EnvControl(k)'
  BY <1>0, <1>a, <1>d DEF Control, EnvControl
<1>e. ASSUME LoadControl(k)', EnvControl(k)', OnePut' PROVE Control'
  BY <1>0, <1>b, <1>e DEF Control
<1>f. ASSUME UNCHANGED <<inherited, sub, reading, files>>,
             spawn_task' \in [Loads -> {"none", "lookup", "fork", "handshake", "capture", "dump",
                                        "rename", "ok", "err"}],
             hit' \in [Loads -> Cache!Contents]
      PROVE  TypeOK'
  BY <1>0, <1>f DEF files, TypeOK, Cache!CacheTypeOK
<1> USE DEF loader, spawning, files
<1>2. CASE Lookup(k)
  <2>1. hit' \in [Loads -> Cache!Contents]
    <3>1. PICK r \in Readings : hit' = [hit EXCEPT ![k] = entries[<<target[k], r>>]]
      BY <1>2 DEF Lookup, Cache!Get, Cache!Key
    <3>2. <<target[k], r>> \in Cache!Keys
      BY <1>a, <3>1 DEF Readings, Cache!Keys, Cache!Readings, TypeOK, Control, EnvControl
    <3> QED BY <3>1, <3>2 DEF TypeOK, Cache!CacheTypeOK
  <2>2. TypeOK'
    BY <1>f, <1>2, <2>1 DEF Lookup, TypeOK
  <2>3. LoadControl(k)'
    <3>1. spawn_task'[k] = "fork"
      BY <1>2 DEF Lookup, TypeOK
    <3> QED BY <1>0, <1>2, <3>1 DEF Lookup, Control, LoadControl
  <2> QED BY <1>c, <1>d, <1>e, <1>2, <2>2, <2>3 DEF Lookup, TypeOK
<1>3. CASE Fork(k)
  <2>1. /\ sub'[k] = "barrier" /\ inherited'[k] = env
        /\ spawn_task[k] = "fork" /\ spawn_task'[k] = "handshake"
        /\ UNCHANGED <<hit, reading>>
    BY <1>3 DEF Fork, TypeOK
  <2>2. TypeOK'
    BY <1>0, <1>3 DEF Fork, TypeOK, Cache!CacheTypeOK
  <2>3. EnvControl(k)'
    BY <1>0, <2>1 DEF Control, EnvControl
  <2>4. LoadControl(k)'
    BY <1>0, <2>1 DEF Control, LoadControl
  <2>5. OnePut'
    BY <1>c, <2>1
  <2> QED BY <1>e, <2>2, <2>3, <2>4, <2>5
<1>4. CASE Install(k) \/ NotSaved(k) \/ SpawnFails(k)
  <2>1. /\ spawn_task'[k] \in {"capture", "ok", "err"}
        /\ spawn_task'[k] = "capture" => sub[k] = "up"
        /\ spawn_task[k] = "none" \/ spawn_task'[k] # "none"
        /\ UNCHANGED <<inherited, sub, hit, reading, files>>
        /\ spawn_task' \in [Loads -> {"none", "lookup", "fork", "handshake", "capture", "dump",
                                      "rename", "ok", "err"}]
    BY <1>4 DEF Install, NotSaved, SpawnFails, TypeOK
  <2>2. TypeOK'
    BY <1>f, <2>1 DEF TypeOK
  <2>3. LoadControl(k)'
    BY <1>0, <2>1 DEF Control, LoadControl
  <2> QED BY <1>c, <1>d, <1>e, <2>1, <2>2, <2>3
<1>5. CASE OpenEntry(k)
  <2>0. PICK r \in Readings : reading' = [reading EXCEPT ![k] = r] /\ Cache!PutOpen(Cache!Key(target[k], r))
    BY <1>5 DEF OpenEntry
  <2>1. Cache!CacheTypeOK'
    BY <2>0 DEF Cache!PutOpen, Cache!CacheTypeOK, Cache!Contents, TypeOK
  <2>2. r \in {driver, Unknown} /\ reading'[k] = r
    BY <2>0 DEF Readings, TypeOK
  <2>3. TypeOK'
    BY <1>0, <1>5, <2>0, <2>1, <2>2 DEF OpenEntry, TypeOK
  <2>4. spawn_task'[k] = "dump" /\ sub[k] = "up" /\ UNCHANGED <<inherited, sub, hit>>
    BY <1>5 DEF OpenEntry, TypeOK, Control, LoadControl
  <2>5. LoadControl(k)'
    BY <1>0, <2>2, <2>4 DEF Control, LoadControl
  <2>6. OnePut'
    BY <1>5, <1>a, <2>4 DEF OpenEntry, OnePut
  <2> QED BY <1>d, <1>e, <2>3, <2>4, <2>5, <2>6
<1>6. CASE DumpEntry(k)
  <2>0. /\ spawn_task[k] = "dump" /\ spawn_task'[k] = "rename"
        /\ UNCHANGED <<inherited, sub, hit, reading>>
    BY <1>6 DEF DumpEntry, TypeOK
  <2>1. Measured(k) \in Cache!Profiles
    BY <2>0, FilesType
       DEF Measured, Cache!Profiles, Cache!Readings, TypeOK, Control, EnvControl, LoadControl
  <2>2. {Measured(k)} \in Cache!Contents
    BY <2>1 DEF Cache!Contents
  <2>3. Cache!CacheTypeOK'
    BY <1>6, <2>2 DEF DumpEntry, Cache!PutDump, Cache!CacheTypeOK, TypeOK
  <2>4. TypeOK'
    BY <1>0, <1>6, <2>3 DEF DumpEntry, TypeOK
  <2>5. LoadControl(k)'
    BY <1>0, <2>0 DEF Control, LoadControl
  <2> QED BY <1>c, <1>d, <1>e, <2>0, <2>4, <2>5
<1>7. CASE RenameEntry(k)
  <2>0. /\ spawn_task[k] = "rename" /\ spawn_task'[k] = "ok"
        /\ UNCHANGED <<inherited, sub, hit, reading>>
    BY <1>7 DEF RenameEntry, TypeOK
  <2>1. Entry(k) \in Cache!Keys
    BY <2>0 DEF Entry, Cache!Key, Cache!Keys, Cache!Readings, TypeOK, Control, EnvControl, LoadControl
  <2>2. Cache!CacheTypeOK'
    BY <1>7, <2>1 DEF RenameEntry, Cache!PutRename, Cache!CacheTypeOK, Cache!Contents, TypeOK
  <2>4. TypeOK'
    BY <1>0, <1>7, <2>2 DEF RenameEntry, TypeOK
  <2>5. LoadControl(k)'
    BY <1>0, <2>0 DEF Control, LoadControl
  <2> QED BY <1>c, <1>d, <1>e, <2>0, <2>4, <2>5
<1>8. CASE Dies(k)
  <2>1. sub'[k] = "dead" /\ spawn_task[k] = "handshake" /\ UNCHANGED <<inherited, spawn_task, hit, reading>>
    BY <1>8 DEF Dies, TypeOK
  <2>2. sub[k] # "none" => EnvControl(k)'
    BY <1>0, <2>1 DEF Control, EnvControl
  <2>3. sub[k] # "none"
    BY <2>1 DEF Control, LoadControl
  <2>4. TypeOK'
    BY <1>0, <1>8 DEF Dies, TypeOK, Cache!CacheTypeOK
  <2>5. LoadControl(k)'
    BY <1>0, <2>1 DEF Control, LoadControl
  <2> QED BY <1>c, <1>e, <2>1, <2>2, <2>3, <2>4, <2>5
<1> QED BY <1>2, <1>3, <1>4, <1>5, <1>6, <1>7, <1>8 DEF SpawnTask

\* A load of which nothing is known any more.
LEMMA Forgotten ==
  ASSUME TypeOK, NEW k \in Loads, Forget(k)
  PROVE  /\ target' \in [Loads -> Models \cup {None}] /\ inherited' \in [Loads -> Envs]
         /\ sub' \in [Loads -> {"none", "barrier", "list", "open", "read", "up", "dead"}]
         /\ listed' \in [Loads -> Revisions \cup {None}]
         /\ view' \in [Loads -> Layouts] /\ weights' \in [Loads -> SUBSET (Shards \X Cells)]
         /\ spawn_task' \in [Loads -> {"none", "lookup", "fork", "handshake", "capture", "dump",
                                       "rename", "ok", "err"}]
         /\ hit' \in [Loads -> Cache!Contents]
         /\ reading' \in [Loads -> Drivers \cup {Unknown, None}]
         /\ \A j \in Loads : j # k =>
              UNCHANGED <<target[j], inherited[j], sub[j], listed[j], view[j], weights[j],
                          spawn_task[j], hit[j], reading[j]>>
         /\ spawn_task'[k] = "none" /\ sub'[k] = "none" /\ hit'[k] = {} /\ weights'[k] = {}
<1>1. NoEnv \in Envs /\ NoLayout \in Layouts /\ {} \in Cache!Contents
  BY EmptyLayout DEF NoEnv, Envs, Cache!Contents
<1> QED BY <1>1 DEF Forget, TypeOK

LEMMA TypedSwap ==
  ASSUME Typed,
         \/ EndLoad \/ LeaveOrphan \/ \E k \in Loads : OrphanEnds(k)
         \/ \E m \in Models : StartLoad(m)
  PROVE  Typed'
<1> USE ModelAssumption DEF Typed, hub, label, fill, current, release, files, Idle, SwapFrame
<1>0. UNCHANGED <<dirs, fetched, pooled, pool, loaded_model, loaded_layout, layouts,
                  driver, crashes, entries, tmp, unsynced>>
  BY DEF EndLoad, LeaveOrphan, OrphanEnds, StartLoad
<1>a. UNCHANGED <<Cache!CacheTypeOK>>
  BY <1>0 DEF Cache!CacheTypeOK
<1>b. \A d \in dirs' : d[2] \in DOMAIN Files[d[1]]
  BY <1>0 DEF Control
<1>1. ASSUME NEW m \in Models, StartLoad(m) PROVE Typed'
  <2>1. /\ swap' = starts + 1 /\ starts' = starts + 1 /\ swap' \in Loads /\ starts' \in 0..MaxLoads
        /\ swap = 0 /\ pool_task = "none"
    BY <1>1, LoadsAssumption DEF StartLoad, TypeOK, Loads, Control, SwapControl
  <2>2. env' = IF pooled THEN [layout |-> m, go |-> swap'] ELSE env
    BY <1>1 DEF StartLoad
  <2>3. /\ target'[swap'] = m /\ spawn_task'[swap'] = "lookup"
        /\ \A j \in Loads : j # swap' => UNCHANGED <<target[j], spawn_task[j]>>
        /\ UNCHANGED <<go_files, fill, inherited, sub, listed, view, weights, hit, reading>>
    BY <1>1, <2>1 DEF StartLoad, TypeOK
  <2>4. TypeOK'
    <3>1. env' \in Envs
      BY <2>1, <2>2 DEF Envs, TypeOK
    <3> QED BY <1>0, <1>a, <1>1, <2>1, <2>3, <3>1 DEF StartLoad, TypeOK
  <2>5. spawn_task[swap'] = "none" /\ swap' \notin go_files
    BY <2>1 DEF TypeOK, Control, SwapControl, EnvControl, Loads
  <2>6. SwapControl'
    <3>1. \A g \in go_files : g <= starts'
      BY <2>1 DEF TypeOK, Loads, Control, SwapControl
    <3>2. loading' = m /\ pool_task' = IF pooled THEN "resolve" ELSE "none"
      BY <1>1 DEF StartLoad
    <3>3. swap' # 0 /\ swap' <= starts'
      BY <2>1 DEF Loads, TypeOK
    <3>4. pooled => env'.go = swap'
      BY <2>2
    <3>5. ~pooled => env'.go = 0
      BY <2>2 DEF Control, SwapControl
    <3> QED BY <1>0, <2>3, <2>5, <3>1, <3>2, <3>3, <3>4, <3>5 DEF SwapControl
  <2>7. OnePut'
    BY <2>3, <2>5 DEF Control, OnePut
  <2>8. \A j \in Loads : EnvControl(j)'
    <3> TAKE j \in Loads
    <3>1. CASE j = swap'
      <4>1. ~(j > starts') /\ sub'[j] = "none" /\ target'[j] = m
        BY <2>1, <2>3, <2>5, <3>1 DEF Control, LoadControl, Loads, TypeOK
      <4>2. pooled => env'.layout = m
        BY <2>2
      <4>3. env'.go = j => env'.layout = m
        BY <2>2, <4>2 DEF Control, SwapControl, Loads
      <4> QED BY <1>0, <3>1, <4>1, <4>2, <4>3 DEF EnvControl
    <3>2. CASE j # swap'
      <4>1. j > starts' => j > starts
        BY <2>1 DEF TypeOK, Loads
      <4>2. spawn_task[j] # "none" => j \notin go_files
        BY <2>1 DEF Control, EnvControl, Loads
      <4>3. env'.go = j => env.go = j /\ ~pooled
        BY <2>2, <3>2
      <4> QED BY <1>0, <2>2, <2>3, <3>2, <4>1, <4>2, <4>3 DEF Control, EnvControl
    <3> QED BY <3>1, <3>2
  <2>9. \A j \in Loads : LoadControl(j)'
    <3> TAKE j \in Loads
    <3>1. CASE j = swap'
      BY <1>0, <2>3, <2>5, <3>1 DEF Control, LoadControl
    <3>2. CASE j # swap'
      BY <1>0, <2>1, <2>3, <3>2 DEF Control, LoadControl, Loads
    <3> QED BY <3>1, <3>2
  <2> QED BY <1>b, <2>4, <2>6, <2>7, <2>8, <2>9 DEF Control
<1>2. CASE EndLoad
  <2>1. swap \in Loads /\ Forget(swap) /\ SwapEnds /\ UNCHANGED starts
    BY <1>2 DEF EndLoad, TypeOK
  <2>2. /\ go_files' \subseteq go_files /\ env'.layout = env.layout /\ env'.go \in {env.go, 0}
        /\ env' \in Envs
    BY <1>2 DEF EndLoad, TypeOK, Envs
  <2>3. TypeOK'
    BY <1>0, <1>a, <2>1, <2>2, Forgotten, EmptyLayout DEF SwapEnds, TypeOK
  <2>4. SwapControl'
    <3>1. \A g \in go_files' : g <= starts'
      BY <2>1, <2>2 DEF Control, SwapControl
    <3>2. 0 \notin go_files'
      BY <2>2 DEF TypeOK, Loads
    <3>3. ~pooled => env'.go = 0
      BY <2>2 DEF Control, SwapControl
    <3> QED BY <1>0, <2>1, <3>1, <3>2, <3>3 DEF SwapEnds, SwapControl
  <2>5. OnePut'
    BY <2>1, Forgotten DEF Control, OnePut
  <2>6. \A j \in Loads : EnvControl(j)' /\ LoadControl(j)'
    <3> TAKE j \in Loads
    <3>1. CASE j = swap
      BY <2>1, <3>1, Forgotten DEF EnvControl, LoadControl
    <3>2. CASE j # swap
      <4>1. UNCHANGED <<target[j], inherited[j], sub[j], listed[j], weights[j],
                        spawn_task[j], hit[j], reading[j]>>
        BY <2>1, <3>2, Forgotten
      <4>2. EnvControl(j)'
        BY <1>0, <2>1, <2>2, <3>2, <4>1 DEF Control, EnvControl, Loads
      <4>3. LoadControl(j)'
        BY <1>0, <3>2, <4>1 DEF Control, LoadControl
      <4> QED BY <4>2, <4>3
    <3> QED BY <3>1, <3>2
  <2> QED BY <1>b, <2>3, <2>4, <2>5, <2>6 DEF Control
<1>3. CASE LeaveOrphan
  <2>1. SwapEnds /\ UNCHANGED <<release, loader, spawning, starts>> /\ swap \notin go_files
    BY <1>3 DEF LeaveOrphan, Control, SwapControl
  <2>2. TypeOK'
    BY <1>0, <1>a, <2>1, EmptyLayout DEF SwapEnds, loader, spawning, TypeOK
  <2>3. SwapControl'
    <3>1. \A g \in go_files' : g <= starts'
      BY <2>1 DEF Control, SwapControl
    <3>2. 0 \notin go_files'
      BY <2>1 DEF TypeOK, Loads
    <3>3. ~pooled => env'.go = 0
      BY <2>1 DEF Control, SwapControl
    <3> QED BY <1>0, <2>1, <3>1, <3>2, <3>3 DEF SwapEnds, SwapControl
  <2>4. OnePut'
    BY <2>1 DEF Control, OnePut, spawning
  <2>5. \A j \in Loads : EnvControl(j)' /\ LoadControl(j)'
    <3> TAKE j \in Loads
    <3>1. j \notin go_files => EnvControl(j)'
      BY <1>0, <2>1 DEF Control, EnvControl, loader, spawning
    <3>2. j # swap => EnvControl(j)'
      BY <1>0, <2>1 DEF Control, EnvControl, loader, spawning
    <3>3. LoadControl(j)'
      BY <1>0, <1>3, <2>1 DEF LeaveOrphan, Control, LoadControl, loader, spawning
    <3> QED BY <2>1, <3>1, <3>2, <3>3
  <2> QED BY <1>b, <2>2, <2>3, <2>4, <2>5 DEF Control
<1>4. ASSUME NEW k \in Loads, OrphanEnds(k) PROVE Typed'
  <2>1. Forget(k) /\ k # swap /\ UNCHANGED <<env, go_files, swap, loading, pool_task, fill, starts>>
    BY <1>4 DEF OrphanEnds
  <2>2. TypeOK'
    BY <1>0, <1>a, <2>1, Forgotten DEF TypeOK
  <2>3. SwapControl'
    <3>1. swap # 0 => UNCHANGED <<target[swap], spawn_task[swap]>>
      BY <2>1, Forgotten DEF TypeOK
    <3> QED BY <1>0, <2>1, <3>1 DEF Control, SwapControl
  <2>4. OnePut'
    BY <2>1, Forgotten DEF Control, OnePut
  <2>5. \A j \in Loads : EnvControl(j)' /\ LoadControl(j)'
    <3> TAKE j \in Loads
    <3>1. CASE j = k
      BY <2>1, <3>1, Forgotten DEF EnvControl, LoadControl
    <3>2. CASE j # k
      BY <1>0, <2>1, <3>2, Forgotten, OthersKept
    <3> QED BY <3>1, <3>2
  <2> QED BY <1>b, <2>2, <2>3, <2>4, <2>5 DEF Control
<1> QED BY <1>1, <1>2, <1>3, <1>4

LEMMA TypedCrash ==
  ASSUME Typed, Restart \/ Reboot
  PROVE  Typed'
<1> USE DEF Typed
<1>0. NewProcess
  BY DEF Restart, Reboot
<1>1. NoEnv \in Envs /\ NoLayout \in Layouts /\ {} \in Cache!Contents
  BY EmptyLayout DEF NoEnv, Envs, Cache!Contents
<1>2. /\ pool' \in [Slots -> Cells] /\ driver' \in Drivers
      /\ Cache!CacheTypeOK'
  <2>1. CASE Restart
    BY <2>1 DEF Restart, files, TypeOK, Cache!CacheTypeOK
  <2>2. CASE Reboot
    BY <2>2 DEF Reboot, TypeOK, Cells, Cache!HostLoses, Cache!CacheTypeOK, Cache!Contents
  <2> QED BY <2>1, <2>2
<1>3. crashes' \in 0..MaxCrashes /\ layouts' \in [Models -> Layouts] /\ UNCHANGED <<hub, starts>>
  BY <1>0, <1>1, CrashAssumption DEF NewProcess, NoLayouts, TypeOK
<1>4. TypeOK'
  BY <1>0, <1>1, <1>2, <1>3 DEF NewProcess, SwapEnds, hub, TypeOK
<1>5. Control'
  <2>1. SwapControl' /\ OnePut'
    BY <1>0 DEF NewProcess, SwapEnds, SwapControl, OnePut, Loads, NoEnv
  <2>2. \A k \in Loads : EnvControl(k)' /\ LoadControl(k)'
    BY <1>0 DEF NewProcess, EnvControl, LoadControl
  <2> QED BY <1>3, <2>1, <2>2 DEF Control, hub
<1> QED BY <1>4, <1>5

\* The next-state relation, sorted as the lemmas above are.
LEMMA Steps ==
  Next <=> \/ HandoverFrame /\ (\/ PopulatePool \/ TouchGo \/ ReadFails
                               \/ \E m \in Models : Update(m) \/ FetchShard(m))
           \/ \E k \in Loads : HandoverFrame /\ Loader(k)
           \/ \E k \in Loads : SpawnTask(k) \/ Dies(k)
           \/ EndLoad \/ LeaveOrphan \/ \E k \in Loads : OrphanEnds(k)
           \/ \E m \in Models : StartLoad(m)
           \/ Restart \/ Reboot
BY DEF Next, HandoverStep

LEMMA TypedStep == Typed /\ [Next]_vars => Typed'
<1> SUFFICES ASSUME Typed, [Next]_vars PROVE Typed'
  OBVIOUS
<1>1. CASE Next
  BY <1>1, Steps, TypedPool, TypedLoader, TypedSpawn, TypedSwap, TypedCrash
<1>2. CASE UNCHANGED vars
  <2>1. TypeOK'
    BY <1>2 DEF vars, handover, hub, label, fill, current, release, loader, spawning, files,
                Typed, TypeOK, Cache!CacheTypeOK
  <2>2. Control'
    BY <1>2 DEF vars, handover, hub, label, fill, current, release, loader, spawning, files,
                Typed, Control, SwapControl, OnePut, EnvControl, LoadControl
  <2> QED BY <2>1, <2>2 DEF Typed
<1> QED BY <1>1, <1>2

(* Every variable keeps to its range, whatever crashes, in whatever order   *)
(* models are loaded and however many orphans there are: no shard is ever   *)
(* placed outside the pool, and no step of put() or of the loader acts on a *)
(* load that is not there.                                                  *)
THEOREM TypeCorrect == Spec => []TypeOK
<1>1. Typed => TypeOK
  BY DEF Typed
<1> QED BY <1>1, TypedInit, TypedStep, PTL DEF Spec
-----------------------------------------------------------------------------
(* The weights.                                                            *)

\* The shards that have been read are where the layout puts them, each in a
\* slot of its own.
Filled ==
  pool_task = "fill" =>
    /\ \A b, c \in DOMAIN layout : layout[b] = layout[c] => b = c
    /\ \A b \in DOMAIN layout \ pending : pool[layout[b]] = <<loading, revision, b>>

\* Unless reads fail, the label is wrong only while the pool is being filled.
Labelled ==
  /\ "read" \notin Faults /\ pool_task # "fill" => LabelTellsContents
  /\ pool_task \in {"write", "ok"} => loaded_model = loading
  /\ pool_task = "ok" => layouts[loading] = loaded_layout

\* What a loader has taken, unless it is that of an orphan that forked late.
Took(k) ==
  Own(k) =>
    /\ sub[k] \in {"read", "up"} =>
         /\ \A w \in weights[k] : w[1] \in Files[target[k]][listed[k]]
         /\ pooled => view[k] = layouts[target[k]]
         /\ pooled => \A w \in weights[k] : w[1] \in DOMAIN view[k] /\ w[2] = pool[view[k][w[1]]]
         /\ ~pooled => \A w \in weights[k] : w[2] = <<target[k], listed[k], w[1]>>
    /\ sub[k] = "up" => \A b \in Files[target[k]][listed[k]] : \E w \in weights[k] : w[1] = b

AllTook == \A k \in Loads : Took(k)
Handed == Filled /\ Labelled /\ AllTook

LEMMA HandedInit == Init => Handed
BY DEF Init, Handed, Filled, Labelled, AllTook, Took, LabelTellsContents

\* What a loader has taken does not depend on the rest.
LEMMA TookKept ==
  ASSUME NEW k \in Loads, Took(k),
         UNCHANGED <<pooled, target[k], inherited[k], listed[k], view[k], weights[k]>>,
         sub'[k] \in {sub[k], "none", "barrier", "list", "open", "dead"},
         sub[k] \in {"read", "up"} /\ pooled /\ inherited[k].go = k => UNCHANGED <<pool, layouts>>
  PROVE  Took(k)'
<1>1. Own(k)' = Own(k)
  BY DEF Own
<1>2. CASE Own(k) /\ sub'[k] \in {"read", "up"}
  <2>1. sub'[k] = sub[k]
    BY <1>2
  <2>2. pooled => UNCHANGED <<pool, layouts>>
    BY <1>2, <2>1 DEF Own
  <2> QED BY <1>1, <1>2, <2>1, <2>2 DEF Took
<1>3. CASE ~(Own(k) /\ sub'[k] \in {"read", "up"})
  BY <1>1, <1>3 DEF Took
<1> QED BY <1>2, <1>3

LEMMA HandedPool ==
  ASSUME Typed, Handed, HandoverFrame,
         \/ PopulatePool \/ TouchGo \/ ReadFails
         \/ \E m \in Models : Update(m) \/ FetchShard(m)
  PROVE  Handed'
<1> USE DEF HandoverFrame, hub, label, fill, loader, current, PoolFrame, Handed
<1>0. /\ UNCHANGED <<pooled, swap, loading, target, inherited, sub, listed, view, weights>>
      /\ pool_task \in {"ok", "skipped"} => UNCHANGED <<pool, layouts>>
  BY DEF PopulatePool, TouchGo, ReadFails, NoShards, Reuse, TooBig, BeginFill,
         ReadIntoPool, FillDone, WriteLayout, Update, FetchShard
<1>1. AllTook'
  <2> SUFFICES ASSUME NEW k \in Loads PROVE Took(k)'
    BY DEF AllTook
  <2>1. sub[k] \in {"read", "up"} /\ pooled /\ inherited[k].go = k => UNCHANGED <<pool, layouts>>
    BY <1>0 DEF Typed, Control, LoadControl
  <2> QED BY <1>0, <2>1, TookKept DEF AllTook
<1>2. CASE TouchGo \/ \E m \in Models : Update(m) \/ FetchShard(m)
  <2>1. UNCHANGED <<pool, loaded_model, loaded_layout, layouts, loading, pool_task, revision,
                    layout, pending>>
    BY <1>2 DEF TouchGo, Update, FetchShard
  <2> QED BY <1>1, <2>1 DEF Filled, Labelled, LabelTellsContents, Describes
<1>4. CASE NoShards \/ Reuse \/ TooBig \/ WriteLayout
  <2>1. Filled'
    BY <1>4 DEF NoShards, Reuse, TooBig, WriteLayout, Filled
  <2>2. Labelled'
    BY <1>4 DEF NoShards, Reuse, TooBig, WriteLayout, Held, Labelled, LabelTellsContents,
                Describes, Typed, TypeOK, Control, SwapControl
  <2> QED BY <1>1, <2>1, <2>2
<1>5. CASE BeginFill
  <2>1. Filled'
    <3>1. ShardPaths(loading) \in SUBSET Shards /\ DOMAIN layout' = ShardPaths(loading)
      BY <1>5 DEF BeginFill, ShardPaths, LayoutOf
    <3>2. \A b, c \in ShardPaths(loading) : layout'[b] = layout'[c] => b = c
      BY <1>5, <3>1, LayoutInjective DEF BeginFill
    <3> QED BY <1>5, <3>1, <3>2 DEF BeginFill, Filled
  <2>2. Labelled'
    BY <1>5 DEF BeginFill, Labelled
  <2> QED BY <1>1, <2>1, <2>2
<1>6. ASSUME NEW b \in pending, ReadIntoPool(b) PROVE Handed'
  <2>1. Filled'
    <3>1. b \in DOMAIN layout /\ layout[b] \in Slots
      BY <1>6 DEF ReadIntoPool, Typed, TypeOK, Control, SwapControl, Layouts
    <3>2. pool'[layout[b]] = <<loading, revision, b>>
      BY <1>6, <3>1 DEF ReadIntoPool, Typed, TypeOK
    <3>3. \A c \in DOMAIN layout \ pending : pool'[layout[c]] = pool[layout[c]]
      BY <1>6, <3>1 DEF ReadIntoPool, Filled, Typed, TypeOK, Layouts
    <3> QED BY <1>6, <3>2, <3>3 DEF ReadIntoPool, Filled
  <2>2. Labelled'
    BY <1>6 DEF ReadIntoPool, Labelled
  <2> QED BY <1>1, <2>1, <2>2
<1>7. CASE FillDone
  <2>1. Filled'
    BY <1>7 DEF FillDone, Filled
  <2>2. \A b \in DOMAIN layout : pool[layout[b]] = <<loading, revision, b>>
    BY <1>7 DEF FillDone, Filled
  <2>3. revision \in Revisions
    BY <1>7 DEF FillDone, Typed, Control, SwapControl
  <2>4. Labelled'
    BY <1>7, <2>2, <2>3 DEF FillDone, Labelled, LabelTellsContents, Describes
  <2> QED BY <1>1, <2>1, <2>4
<1>8. CASE ReadFails
  BY <1>1, <1>8 DEF ReadFails, Filled, Labelled
<1> QED BY <1>2, <1>4, <1>5, <1>6, <1>7, <1>8 DEF PopulatePool

LEMMA HandedLoader ==
  ASSUME Typed, Handed, HandoverFrame, NEW k \in Loads, Loader(k)
  PROVE  Handed'
<1> USE DEF hub, label, fill, current, LoaderFrame, LoaderStep, Handed
<1>0. UNCHANGED <<pooled, pool, loaded_model, loaded_layout, layouts, loading, pool_task,
                  revision, layout, pending, target, inherited>>
  BY DEF Loader, Cross, ListFiles, OpenLayout, OpenPrivatePool, TakeShard, LoaderRaises, Loaded
<1>1. Filled' /\ Labelled'
  BY <1>0 DEF Filled, Labelled, LabelTellsContents, Describes
<1>2. \A j \in Loads : j # k => Took(j)'
  <2> TAKE j \in Loads
  <2> HAVE j # k
  <2>1. UNCHANGED <<sub[j], listed[j], view[j], weights[j]>>
    BY DEF Loader, Cross, ListFiles, OpenLayout, OpenPrivatePool, TakeShard, LoaderRaises, Loaded,
           Typed, TypeOK
  <2> QED BY <1>0, <2>1, TookKept DEF AllTook
<1>3. Own(k)' = Own(k) /\ Took(k)
  BY <1>0 DEF Own, AllTook
<1>4. Took(k)'
  <2>1. CASE Cross(k) \/ ListFiles(k) \/ LoaderRaises(k)
    <3>1. sub'[k] \in {"list", "open", "dead"}
      BY <2>1 DEF Cross, ListFiles, LoaderRaises, Typed, TypeOK
    <3> QED BY <3>1 DEF Took
  <2>2. CASE OpenLayout(k) \/ OpenPrivatePool(k)
    <3>1. /\ weights'[k] = {} /\ sub'[k] = "read"
          /\ pooled => view'[k] = LayoutFile(k)
      BY <2>2 DEF OpenLayout, OpenPrivatePool, Typed, TypeOK, Control, LoadControl
    <3>2. pooled /\ Own(k) => LayoutFile(k) = layouts[target[k]]
      BY <2>2 DEF OpenLayout, OpenPrivatePool, LayoutFile, Own, Typed, Control, EnvControl
    <3> QED BY <1>0, <1>3, <3>1, <3>2 DEF Took
  <2>3. ASSUME NEW b \in Unread(k), TakeShard(k, b) PROVE Took(k)'
    <3>1. /\ b \in Files[target[k]][listed[k]] /\ sub[k] = "read"
          /\ UNCHANGED <<sub, listed, view>>
      BY <2>3 DEF Unread, TakeShard
    <3>2. CASE pooled
      <4>1. weights'[k] = weights[k] \cup {<<b, pool[view[k][b]]>>} /\ b \in DOMAIN view[k]
        BY <2>3, <3>2 DEF TakeShard, InLayout, InPool, Typed, TypeOK
      <4> QED BY <1>0, <1>3, <3>1, <3>2, <4>1 DEF Took
    <3>3. CASE ~pooled
      <4>1. weights'[k] = weights[k] \cup {<<b, <<target[k], listed[k], b>> >>}
        BY <2>3, <3>3 DEF TakeShard, Typed, TypeOK
      <4> QED BY <1>0, <1>3, <3>1, <3>3, <4>1 DEF Took
    <3> QED BY <3>2, <3>3
  <2>4. CASE Loaded(k)
    <3>1. sub[k] = "read" /\ Unread(k) = {} /\ UNCHANGED <<listed, view, weights>>
      BY <2>4 DEF Loaded
    <3>2. \A b \in Files[target[k]][listed[k]] : \E w \in weights[k] : w[1] = b
      BY <3>1 DEF Unread
    <3> QED BY <1>0, <1>3, <3>1, <3>2 DEF Took
  <2> QED BY <2>1, <2>2, <2>3, <2>4 DEF Loader
<1> QED BY <1>1, <1>2, <1>4 DEF AllTook

LEMMA HandedSpawn ==
  ASSUME Typed, Handed, NEW k \in Loads, SpawnTask(k) \/ Dies(k)
  PROVE  Handed'
<1> USE DEF hub, label, fill, current, loader, SpawnFrame, SpawnStep, Handed
<1>1. UNCHANGED <<pooled, pool, loaded_model, loaded_layout, layouts, loading, pool_task,
                  revision, layout, pending, target, listed, view, weights>>
  BY DEF SpawnTask, Dies, Lookup, Fork, Install, OpenEntry, DumpEntry, RenameEntry,
         NotSaved, SpawnFails
<1>2. Filled' /\ Labelled'
  BY <1>1 DEF Filled, Labelled, LabelTellsContents, Describes
<1>3. ASSUME NEW j \in Loads PROVE Took(j)'
  <2>1. CASE j = k /\ Fork(k)
    <3>1. sub'[j] = "barrier"
      BY <2>1 DEF Fork, Typed, TypeOK
    <3> QED BY <3>1 DEF Took
  <2>2. CASE ~(j = k /\ Fork(k))
    <3>1. sub'[j] \in {sub[j], "dead"} /\ UNCHANGED <<inherited[j]>>
      BY <2>2 DEF SpawnTask, Dies, Lookup, Fork, Install, OpenEntry, DumpEntry, RenameEntry,
                  NotSaved, SpawnFails, Typed, TypeOK
    <3> QED BY <1>1, <3>1, TookKept DEF AllTook
  <2> QED BY <2>1, <2>2
<1> QED BY <1>2, <1>3 DEF AllTook

LEMMA HandedSwap ==
  ASSUME Typed, Handed,
         \/ EndLoad \/ LeaveOrphan \/ \E k \in Loads : OrphanEnds(k)
         \/ \E m \in Models : StartLoad(m)
  PROVE  Handed'
<1> USE DEF hub, label, fill, current, loader, SwapFrame, SwapEnds, Idle, Handed
<1>1. /\ UNCHANGED <<pooled, pool, loaded_model, loaded_layout, layouts>>
      /\ pool_task' \in {pool_task, "none", "resolve"}
      /\ pool_task' \in {"fill", "write", "ok"} =>
           UNCHANGED <<loading, pool_task, revision, layout, pending>>
  BY DEF EndLoad, LeaveOrphan, OrphanEnds, StartLoad
<1>2. pool_task = "fill" => pool_task' = "fill"
  BY DEF EndLoad, LeaveOrphan, OrphanEnds, StartLoad, Typed, Control, SwapControl
<1>3. Filled' /\ Labelled'
  BY <1>1, <1>2 DEF Filled, Labelled, LabelTellsContents, Describes
<1>4. ASSUME NEW j \in Loads PROVE Took(j)'
  <2>1. CASE sub'[j] = "none"
    BY <2>1 DEF Took
  <2>2. CASE UNCHANGED <<target[j], inherited[j], sub[j], listed[j], view[j], weights[j]>>
    BY <1>1, <2>2, TookKept DEF AllTook
  <2>3. ASSUME NEW m \in Models, StartLoad(m) PROVE Took(j)'
    <3>1. UNCHANGED <<inherited, sub, listed, view, weights>>
      BY <2>3 DEF StartLoad
    <3>2. CASE j = starts + 1
      <4>1. sub[j] = "none"
        BY <3>2 DEF Typed, TypeOK, Control, EnvControl, LoadControl, Loads
      <4> QED BY <2>1, <3>1, <4>1
    <3>3. CASE j # starts + 1
      <4>1. UNCHANGED <<target[j]>>
        BY <2>3, <3>3 DEF StartLoad, Typed, TypeOK
      <4> QED BY <2>2, <3>1, <4>1
    <3> QED BY <3>2, <3>3
  <2>4. ASSUME NEW k \in Loads, Forget(k) PROVE Took(j)'
    BY <2>1, <2>2, <2>4, Forgotten DEF Typed
  <2>5. CASE LeaveOrphan
    BY <2>2, <2>5 DEF LeaveOrphan
  <2>6. EndLoad => swap \in Loads
    BY DEF EndLoad, Typed, TypeOK
  <2> QED BY <2>3, <2>4, <2>5, <2>6 DEF EndLoad, OrphanEnds
<1> QED BY <1>3, <1>4 DEF AllTook

LEMMA HandedStep == Typed /\ Handed /\ [Next]_vars => Handed'
<1> SUFFICES ASSUME Typed, Handed, [Next]_vars PROVE Handed'
  OBVIOUS
<1>1. CASE Next
  <2>1. CASE Restart \/ Reboot
    BY <2>1 DEF Restart, Reboot, NewProcess, SwapEnds, Handed, Filled, Labelled, AllTook, Took,
                LabelTellsContents
  <2> QED BY <1>1, <2>1, Steps, HandedPool, HandedLoader, HandedSpawn, HandedSwap
<1>2. CASE UNCHANGED vars
  <2>1. UNCHANGED <<pooled, pool, label, layouts, current, fill, loader>>
    BY <1>2 DEF vars, handover
  <2> QED BY <2>1 DEF label, current, fill, loader, Handed, Filled, Labelled, AllTook, Took, Own,
                      LabelTellsContents, Describes
<1> QED BY <1>1, <1>2

\* The label is enough, because the loader's view of the pool is the label.
LEMMA HandedWeights == Typed /\ Handed => WeightsOfOneRevision
<1> SUFFICES ASSUME Typed, Handed, NEW k \in Loads, sub[k] = "up", Own(k),
                    pooled => pool_task = "ok" /\ ("read" \in Faults => LabelTellsContents)
             PROVE  EngineIsWhole(k)
  BY DEF WeightsOfOneRevision
<1>0. Took(k)
  BY DEF Handed, AllTook
<1>1. {w[1] : w \in weights[k]} = Files[target[k]][listed[k]]
  BY <1>0 DEF Took
<1>2. target[k] \in Models /\ listed[k] \in Revisions
  BY FilesType DEF Typed, Control, EnvControl, LoadControl
<1>3. CASE pooled
  <2>0. k = swap /\ target[k] = loading
    BY <1>3 DEF Own, Typed, TypeOK, Control, SwapControl, LoadControl, Loads
  <2>1. loaded_model = target[k] /\ view[k] = loaded_layout /\ LabelTellsContents
    BY <1>0, <1>3, <2>0 DEF Handed, Labelled, Took
  <2>2. PICK r \in Revisions : \A b \in DOMAIN view[k] : pool[view[k][b]] = <<target[k], r, b>>
    BY <1>2, <2>1, ModelAssumption DEF LabelTellsContents, Describes
  <2>3. \A w \in weights[k] : w[2] = <<target[k], r, w[1]>>
    BY <1>0, <1>3, <2>2 DEF Took
  <2> QED BY <1>1, <1>2, <2>3 DEF EngineIsWhole
<1>4. CASE ~pooled
  BY <1>0, <1>1, <1>2, <1>4 DEF Took, EngineIsWhole
<1> QED BY <1>3, <1>4

(* An engine that comes up has all the shards of the revision that vLLM     *)
(* listed, each of its own model and all of one revision: always when it    *)
(* filled a private pool, and with the shared pool whenever it waited for   *)
(* its own go-file, the parent's task found shards and no read failed.      *)
THEOREM WeightsAreOfOneRevision == Spec => []WeightsOfOneRevision
<1>1. Init => Typed /\ Handed
  BY TypedInit, HandedInit
<1>2. Typed /\ Handed /\ [Next]_vars => (Typed /\ Handed)'
  BY TypedStep, HandedStep
<1> QED BY <1>1, <1>2, HandedWeights, PTL DEF Spec

(* As long as a subprocess takes its weights out of the pool, the pool and  *)
(* the layout files stay as they are: the barrier keeps it out until the    *)
(* parent's task has ended, and the next swap awaits it.  An orphan passes  *)
(* the barrier only if it forked after its swap had ended.                  *)
THEOREM PoolIsStableWhileRead == Spec => PoolStableWhileRead
<1>1. Typed /\ [Next]_vars =>
        [\A k \in Loads : sub[k] = "read" /\ sub'[k] = "read" /\ Own(k)
           => UNCHANGED <<pool, layouts>>]_vars
  <2> SUFFICES ASSUME Typed, Next, NEW k \in Loads, sub[k] = "read", sub'[k] = "read", Own(k)
               PROVE  UNCHANGED <<pool, layouts>>
    OBVIOUS
  <2>0. pool_task \in {"ok", "skipped", "none"}
    BY DEF Own, Typed, Control, SwapControl, LoadControl
  <2>1. CASE PopulatePool \/ TouchGo \/ ReadFails \/ \E m \in Models : Update(m) \/ FetchShard(m)
    BY <2>0, <2>1 DEF PopulatePool, TouchGo, NoShards, Reuse, TooBig, BeginFill, ReadIntoPool,
                FillDone, WriteLayout, ReadFails, Update, FetchShard
  <2>2. CASE \E j \in Loads : Loader(j) \/ SpawnTask(j) \/ Dies(j) \/ OrphanEnds(j)
    BY <2>2 DEF Loader, LoaderFrame, Cross, ListFiles, OpenLayout, OpenPrivatePool, TakeShard,
                LoaderRaises, Loaded, SpawnTask, Dies, SpawnFrame, Lookup, Fork, Install,
                OpenEntry, DumpEntry, RenameEntry, NotSaved, SpawnFails, OrphanEnds, SwapFrame
  <2>3. CASE EndLoad \/ LeaveOrphan \/ \E m \in Models : StartLoad(m)
    BY <2>3 DEF EndLoad, LeaveOrphan, StartLoad, SwapFrame
  <2>4. CASE Restart \/ Reboot
    BY <2>4 DEF Restart, Reboot, NewProcess
  <2> QED BY <2>1, <2>2, <2>3, <2>4, Steps
<1> QED BY <1>1, TypedInit, TypedStep, PTL DEF Spec, PoolStableWhileRead
-----------------------------------------------------------------------------
(* The profile cache.                                                      *)

\* What is filed under a key was measured under it.
Kept ==
  /\ \A e \in Cache!Keys : \A p \in entries[e] \cup tmp[e] :
       /\ p.model = e[1] /\ p.reading = e[2]
       /\ p.reading # Unknown => p.driver = p.reading
  /\ \A k \in Loads : spawn_task[k] = "rename" => tmp[Entry(k)] # {}
  /\ OverrideWasMeasured

LEMMA KeptInit == Init => Kept
BY DEF Init, Kept, Cache!CacheInit, OverrideWasMeasured

LEMMA EntryIsKey ==
  ASSUME Typed, NEW k \in Loads, spawn_task[k] \in {"dump", "rename"}
  PROVE  Entry(k) = <<target[k], reading[k]>> /\ Entry(k) \in Cache!Keys
BY DEF Typed, TypeOK, Control, EnvControl, LoadControl, Entry, Cache!Key, Cache!Keys, Cache!Readings

LEMMA KeptSpawn ==
  ASSUME Typed, Kept, NEW k \in Loads, SpawnTask(k)
  PROVE  Kept'
<1> USE DEF spawning, files, SpawnFrame, SpawnStep
<1>0. UNCHANGED <<target, driver>>
  BY DEF SpawnTask, Lookup, Fork, Install, OpenEntry, DumpEntry, RenameEntry, NotSaved, SpawnFails
<1>a. ASSUME UNCHANGED hit PROVE OverrideWasMeasured'
  BY <1>0, <1>a DEF Kept, OverrideWasMeasured
<1>b. ASSUME UNCHANGED <<reading, tmp>>, spawn_task'[k] # "rename",
             \A j \in Loads : j # k => UNCHANGED <<spawn_task[j]>>
      PROVE  \A j \in Loads : spawn_task'[j] = "rename" => tmp'[Entry(j)'] # {}
  BY <1>0, <1>b DEF Kept, Entry
<1>1. CASE Lookup(k)
  <2>1. PICK r \in Readings : hit' = [hit EXCEPT ![k] = entries[<<target[k], r>>]]
    BY <1>1 DEF Lookup, Cache!Get, Cache!Key
  <2>2. <<target[k], r>> \in Cache!Keys
    BY <1>1, <2>1 DEF Lookup, Readings, Cache!Keys, Cache!Readings, Typed, TypeOK, Control, EnvControl
  <2>3. r = Unknown \/ r = driver
    BY <2>1 DEF Readings
  <2>4. \A p \in hit'[k] : p.model = target[k] /\ (p.reading # Unknown => p.driver = driver)
    BY <2>1, <2>2, <2>3 DEF Kept, Typed, TypeOK
  <2>5. OverrideWasMeasured'
    BY <1>0, <2>1, <2>4 DEF Kept, OverrideWasMeasured, Typed, TypeOK
  <2>6. /\ spawn_task'[k] # "rename" /\ UNCHANGED <<reading, entries, tmp>>
        /\ \A j \in Loads : j # k => UNCHANGED <<spawn_task[j]>>
    BY <1>1 DEF Lookup, Typed, TypeOK
  <2> QED BY <1>b, <2>5, <2>6 DEF Kept
<1>2. CASE Fork(k) \/ Install(k) \/ NotSaved(k) \/ SpawnFails(k)
  <2>1. /\ spawn_task'[k] # "rename" /\ UNCHANGED <<hit, reading, entries, tmp>>
        /\ \A j \in Loads : j # k => UNCHANGED <<spawn_task[j]>>
    BY <1>2 DEF Fork, Install, NotSaved, SpawnFails, Typed, TypeOK
  <2> QED BY <1>a, <1>b, <2>1 DEF Kept
<1>3. CASE OpenEntry(k)
  <2>1. entries' = entries /\ hit' = hit /\ \A e \in Cache!Keys : tmp'[e] \subseteq tmp[e]
    BY <1>3 DEF OpenEntry, Cache!PutOpen, Typed, TypeOK, Cache!CacheTypeOK
  <2>2. \A j \in Loads : spawn_task'[j] # "rename"
    BY <1>3 DEF OpenEntry, Typed, TypeOK
  <2> QED BY <1>a, <2>1, <2>2 DEF Kept
<1>4. CASE DumpEntry(k)
  <2>1. /\ entries' = entries /\ hit' = hit /\ reading' = reading
        /\ tmp' = [tmp EXCEPT ![Entry(k)] = {Measured(k)}]
        /\ Entry(k) = <<target[k], reading[k]>> /\ Entry(k) \in Cache!Keys
    BY <1>4, EntryIsKey DEF DumpEntry, Cache!PutDump
  <2>2. \A e \in Cache!Keys : tmp'[e] = IF e = Entry(k) THEN {Measured(k)} ELSE tmp[e]
    BY <2>1 DEF Typed, TypeOK, Cache!CacheTypeOK
  <2>3. /\ Measured(k).model = target[k] /\ Measured(k).reading = reading[k]
        /\ reading[k] # Unknown => Measured(k).driver = reading[k]
    BY <1>4 DEF Measured, DumpEntry, Typed, Control, LoadControl
  <2>4. \A e \in Cache!Keys : \A p \in entries'[e] \cup tmp'[e] :
          /\ p.model = e[1] /\ p.reading = e[2]
          /\ p.reading # Unknown => p.driver = p.reading
    BY <2>1, <2>2, <2>3 DEF Kept
  <2>5. ASSUME NEW j \in Loads, spawn_task'[j] = "rename" PROVE tmp'[Entry(j)'] # {}
    <3>1. j = k
      <4>1. j # k => spawn_task[j] = "rename"
        BY <1>4, <2>5 DEF DumpEntry, Typed, TypeOK
      <4> QED BY <1>4, <4>1 DEF DumpEntry, Typed, Control, OnePut
    <3>2. Entry(k)' = Entry(k)
      BY <1>0, <2>1 DEF Entry
    <3> QED BY <2>1, <2>2, <3>1, <3>2
  <2> QED BY <1>a, <2>1, <2>4, <2>5 DEF Kept
<1>5. CASE RenameEntry(k)
  <2>1. Entry(k) \in Cache!Keys /\ UNCHANGED <<hit, reading>>
    BY <1>5, EntryIsKey DEF RenameEntry
  <2>2. \A e \in Cache!Keys : entries'[e] \cup tmp'[e] \subseteq entries[e] \cup tmp[e]
    BY <1>5, <2>1 DEF RenameEntry, Cache!PutRename, Typed, TypeOK, Cache!CacheTypeOK
  <2>3. \A j \in Loads : spawn_task'[j] # "rename"
    BY <1>5 DEF RenameEntry, Typed, TypeOK, Control, OnePut
  <2> QED BY <1>a, <2>1, <2>2, <2>3 DEF Kept
<1> QED BY <1>1, <1>2, <1>3, <1>4, <1>5 DEF SpawnTask

LEMMA KeptSwap ==
  ASSUME Typed, Kept,
         \/ EndLoad \/ LeaveOrphan \/ \E k \in Loads : OrphanEnds(k)
         \/ \E m \in Models : StartLoad(m)
  PROVE  Kept'
<1>0. UNCHANGED <<entries, tmp, driver>>
  BY DEF EndLoad, LeaveOrphan, OrphanEnds, StartLoad, SwapFrame, files
<1>1. ASSUME NEW j \in Loads
      PROVE  /\ spawn_task'[j] = "rename" => tmp'[Entry(j)'] # {}
             /\ \A p \in hit'[j] : p.model = target'[j] /\ (p.reading # Unknown => p.driver = driver)
  <2>1. CASE UNCHANGED <<target[j], spawn_task[j], hit[j], reading[j]>>
    BY <1>0, <2>1 DEF Kept, OverrideWasMeasured, Entry
  <2>2. CASE spawn_task'[j] \in {"none", "lookup"} /\ hit'[j] = {}
    BY <2>2
  <2>3. ASSUME NEW m \in Models, StartLoad(m)
        PROVE  \/ UNCHANGED <<target[j], spawn_task[j], hit[j], reading[j]>>
               \/ spawn_task'[j] = "lookup" /\ hit'[j] = {}
    <3>1. CASE j = starts + 1
      <4>1. spawn_task[j] = "none"
        BY <3>1 DEF Typed, TypeOK, Control, EnvControl, Loads
      <4> QED BY <2>3, <3>1, <4>1 DEF StartLoad, Typed, TypeOK, Control, LoadControl
    <3>2. CASE j # starts + 1
      BY <2>3, <3>2 DEF StartLoad, Typed, TypeOK
    <3> QED BY <3>1, <3>2
  <2>4. ASSUME NEW k \in Loads, Forget(k)
        PROVE  \/ UNCHANGED <<target[j], spawn_task[j], hit[j], reading[j]>>
               \/ spawn_task'[j] = "none" /\ hit'[j] = {}
    BY <2>4, Forgotten DEF Typed
  <2>5. CASE LeaveOrphan
    BY <2>1, <2>5 DEF LeaveOrphan, loader, spawning
  <2>6. EndLoad => swap \in Loads
    BY DEF EndLoad, Idle, Typed, TypeOK
  <2> QED BY <2>1, <2>2, <2>3, <2>4, <2>5, <2>6 DEF EndLoad, OrphanEnds
<1> QED BY <1>0, <1>1 DEF Kept, OverrideWasMeasured

LEMMA KeptStep == Typed /\ Kept /\ [Next]_vars => Kept'
<1> SUFFICES ASSUME Typed, Kept, [Next]_vars PROVE Kept'
  OBVIOUS
<1>1. ASSUME UNCHANGED <<target, spawning, driver, files>> PROVE Kept'
  BY <1>1 DEF spawning, files, Kept, Entry, OverrideWasMeasured
<1>2. CASE HandoverFrame /\ (PopulatePool \/ TouchGo \/ ReadFails \/ \E k \in Loads : Loader(k))
  <2>1. UNCHANGED target
    BY <1>2 DEF PoolFrame, LoaderFrame, PopulatePool, TouchGo, ReadFails, NoShards, Reuse, TooBig,
         BeginFill, ReadIntoPool, FillDone, WriteLayout, Loader, Cross, ListFiles, OpenLayout,
         OpenPrivatePool, TakeShard, LoaderRaises, Loaded, loader
  <2> QED BY <1>1, <1>2, <2>1 DEF HandoverFrame
<1>3. CASE (\E m \in Models : Update(m) \/ FetchShard(m)) /\ HandoverFrame
  BY <1>1, <1>3 DEF Update, FetchShard, HandoverFrame, loader
<1>4. CASE \E k \in Loads : Dies(k)
  BY <1>1, <1>4 DEF Dies, SpawnFrame
<1>6. CASE Restart
  BY <1>6 DEF Restart, NewProcess, files, Kept, OverrideWasMeasured
<1>7. CASE Reboot
  <2>1. \A e \in Cache!Keys : entries'[e] \cup tmp'[e] \subseteq entries[e] \cup tmp[e]
    BY <1>7 DEF Reboot, Cache!HostLoses
  <2> QED BY <1>7, <2>1 DEF Reboot, NewProcess, Kept, OverrideWasMeasured
<1>8. CASE UNCHANGED vars
  BY <1>1, <1>8 DEF vars, handover, loader
<1> QED BY <1>2, <1>3, <1>4, <1>6, <1>7, <1>8, KeptSpawn, KeptSwap, Steps

(* A number of blocks is only ever reused for the model it was measured     *)
(* for, and under the driver it was measured under unless the saved key     *)
(* says that nvidia-smi did not answer; orphans save their profiles too.    *)
THEOREM OverridesWereMeasured == Spec => []OverrideWasMeasured
<1>1. Init => Typed /\ Kept
  BY TypedInit, KeptInit
<1>2. Typed /\ Kept /\ [Next]_vars => (Typed /\ Kept)'
  BY TypedStep, KeptStep
<1>3. Kept => OverrideWasMeasured
  BY DEF Kept
<1> QED BY <1>1, <1>2, <1>3, PTL DEF Spec

(* No step of put(), no crash of the gateway and no restart makes a saved   *)
(* profile unreadable: only a crash of the host does, and only one that was *)
(* written since the host booted.                                           *)
THEOREM SavedEntriesStay == Spec => EntriesStayComplete
<1>1. Typed /\ Kept /\ [Next]_vars =>
        [\A k \in Cache!Keys : entries[k] # {} /\ entries'[k] = {} =>
           k \in unsynced /\ unsynced' = {}]_vars
  <2> SUFFICES ASSUME Typed, Kept, Next, NEW e \in Cache!Keys, entries[e] # {}, entries'[e] = {}
               PROVE  e \in unsynced /\ unsynced' = {}
    OBVIOUS
  <2>1. ASSUME NEW k \in Loads, RenameEntry(k) PROVE entries'[e] # {}
    <3>1. tmp[Entry(k)] # {} /\ Entry(k) \in Cache!Keys
      BY <2>1, EntryIsKey DEF RenameEntry, SpawnStep, Kept
    <3> QED BY <2>1, <3>1 DEF RenameEntry, Cache!PutRename, Typed, TypeOK, Cache!CacheTypeOK
  <2>2. CASE Reboot
    BY <2>2 DEF Reboot, Cache!HostLoses
  <2>3. ASSUME NEW k \in Loads, SpawnTask(k), ~RenameEntry(k) PROVE entries' = entries
    BY <2>3 DEF SpawnTask, files, Lookup, Fork, Install, OpenEntry, DumpEntry, NotSaved,
                SpawnFails, Cache!PutOpen, Cache!PutDump
  <2>4. CASE \/ HandoverFrame \/ EndLoad \/ LeaveOrphan \/ Restart
             \/ \E k \in Loads : Dies(k) \/ OrphanEnds(k)
             \/ \E m \in Models : StartLoad(m)
    BY <2>4 DEF HandoverFrame, files, Dies, EndLoad, LeaveOrphan, OrphanEnds, SwapFrame, Restart,
                StartLoad
  <2> QED BY <2>1, <2>2, <2>3, <2>4, Steps
<1>2. Init => Typed /\ Kept
  BY TypedInit, KeptInit
<1>3. Typed /\ Kept /\ [Next]_vars => (Typed /\ Kept)'
  BY TypedStep, KeptStep
<1> QED BY <1>1, <1>2, <1>3, PTL DEF Spec, EntriesStayComplete
-----------------------------------------------------------------------------
(* All files are there, every model fits the pool and all reads succeed.   *)

\* What the code picks out of the snapshots of a model is one of them.
LEMMA PickedSnapshots ==
  ASSUME NEW m \in Models, Snapshots(m) # {}
  PROVE  /\ LastByName(m) \in Snapshots(m)
         /\ Newest(m) \in Snapshots(m)
<1>1. Snapshots(m) \in SUBSET Revisions /\ IsFiniteSet(Snapshots(m))
  BY RevisionAssumption, FS_Subset DEF Snapshots
<1>2. LastByName(m) \in Snapshots(m)
  <2>1. Hash[m] \in [Revisions -> Nat]
    BY RevisionAssumption
  <2>2. \E r \in Snapshots(m) : \A s \in Snapshots(m) : Hash[m][s] <= Hash[m][r]
    BY <1>1, <2>1, FiniteMaximum
  <2> QED BY <2>2 DEF LastByName
<1>3. Newest(m) \in Snapshots(m)
  <2> DEFINE number == [r \in Revisions |-> r]
  <2>1. number \in [Revisions -> Nat]
    BY RevisionAssumption
  <2>2. \A r \in Revisions : number[r] = r
    OBVIOUS
  <2> HIDE DEF number
  <2>3. \E r \in Snapshots(m) : \A s \in Snapshots(m) : number[s] <= number[r]
    BY <1>1, <2>1, FiniteMaximum
  <2>4. \E r \in Snapshots(m) : \A s \in Snapshots(m) : s <= r
    BY <1>1, <2>2, <2>3
  <2> QED BY <2>4 DEF Newest
<1> QED BY <1>2, <1>3

\* Every model was downloaded before the gateway starts, and has weights.
AllDownloaded ==
  \A m \in Models : /\ \E r \in Revisions : <<m, r>> \in Local
                    /\ \A r \in DOMAIN Files[m] : Files[m][r] # {}

AllFit == \A m \in Models : \A r \in DOMAIN Files[m] : Fits(Files[m][r])

\* Then a load finds shards, no layout is empty and no pool task raises, so
\* there are no orphans.
Found ==
  /\ \A m \in Models : Snapshots(m) # {}
  /\ \A d \in dirs : Whole(d[1], d[2]) \subseteq fetched
  /\ \A m \in Models, r \in Revisions, b \in Shards :
       <<m, r, b>> \in fetched => r \in DOMAIN Files[m] /\ b \in Files[m][r]
  /\ pool_task \notin {"skipped", "err"}
  /\ pool_task = "fill" => layout # NoLayout
  /\ loaded_model # None => loaded_layout # NoLayout

NoOrphan ==
  \A k \in Loads : spawn_task[k] # "none" => k = swap /\ (sub[k] # "none" => Own(k))

LEMMA FoundInit == AllDownloaded /\ Init => Found /\ NoOrphan
<1> SUFFICES ASSUME AllDownloaded, Init PROVE Found /\ NoOrphan
  OBVIOUS
<1>1. \A m \in Models : Snapshots(m) # {}
  BY DEF Init, AllDownloaded, Snapshots
<1>2. \A d \in dirs : Whole(d[1], d[2]) \subseteq fetched
  BY DEF Init
<1>3. \A m \in Models, r \in Revisions, b \in Shards :
        <<m, r, b>> \in fetched => r \in DOMAIN Files[m] /\ b \in Files[m][r]
  <2> SUFFICES ASSUME NEW m \in Models, NEW r \in Revisions, NEW b \in Shards,
                      NEW d \in Local, <<m, r, b>> \in Whole(d[1], d[2])
               PROVE  r \in DOMAIN Files[m] /\ b \in Files[m][r]
    BY DEF Init
  <2>1. m = d[1] /\ r = d[2] /\ b \in Files[d[1]][d[2]]
    BY DEF Whole
  <2> QED BY <2>1, ShardAssumption
<1> QED BY <1>1, <1>2, <1>3 DEF Init, Found, NoOrphan

LEMMA ShardsFound ==
  ASSUME AllDownloaded, AllFit, Typed, Found, loading \in Models
  PROVE  /\ ShardPaths(loading) # {}
         /\ LayoutOf(ShardPaths(loading)) # NoLayout
         /\ Fits(ShardPaths(loading))
<1> DEFINE r == LastByName(loading)
<1>1. r \in Snapshots(loading)
  BY PickedSnapshots DEF Found
<1>2. r \in Revisions /\ <<loading, r>> \in dirs
  BY <1>1 DEF Snapshots
<1>3. r \in DOMAIN Files[loading]
  BY <1>2 DEF Typed, Control
<1>4. PICK b \in Files[loading][r] : TRUE
  BY <1>3 DEF AllDownloaded
<1>5. <<loading, r, b>> \in fetched /\ b \in Shards
  <2>1. <<loading, r, b>> \in Whole(loading, r)
    BY <1>4 DEF Whole
  <2> QED BY <1>2, <1>3, <1>4, <2>1, FilesType DEF Found
<1>6. b \in ShardPaths(loading)
  BY <1>1, <1>5 DEF ShardPaths
<1>7. DOMAIN LayoutOf(ShardPaths(loading)) = ShardPaths(loading)
  BY DEF LayoutOf
<1>8. Fits(ShardPaths(loading))
  <2>1. ShardPaths(loading) \subseteq Files[loading][r]
    BY <1>2 DEF ShardPaths, Found
  <2>2. IsFiniteSet(Files[loading][r])
    BY <1>3, FilesType, ShardAssumption, FS_Subset
  <2>3. Cardinality(ShardPaths(loading)) <= Cardinality(Files[loading][r]) /\ IsFiniteSet(ShardPaths(loading))
    BY <2>1, <2>2, FS_Subset
  <2>4. Cardinality(ShardPaths(loading)) \in Nat /\ Cardinality(Files[loading][r]) \in Nat
    BY <2>2, <2>3, FS_CardinalityType
  <2> QED BY <1>3, <2>3, <2>4, ShardAssumption DEF AllFit, Fits
<1> QED BY <1>6, <1>7, <1>8, EmptyLayout

LEMMA FoundStep ==
  ASSUME "download" \notin Faults, "read" \notin Faults, AllDownloaded, AllFit, Typed, Found,
         [Next]_vars
  PROVE  Found'
<1> USE DEF hub, label, fill, loader, current
<1>0. ASSUME UNCHANGED dirs PROVE \A m \in Models : Snapshots(m)' = Snapshots(m)
  BY <1>0 DEF Snapshots
<1>1. ASSUME NEW m \in Models, NEW r \in DOMAIN Files[m],
             dirs' = dirs \cup {<<m, r>>}, fetched' = fetched \cup Whole(m, r)
      PROVE  /\ \A n \in Models : Snapshots(n)' # {}
             /\ \A d \in dirs' : Whole(d[1], d[2]) \subseteq fetched'
             /\ \A n \in Models, s \in Revisions, b \in Shards :
                  <<n, s, b>> \in fetched' => s \in DOMAIN Files[n] /\ b \in Files[n][s]
  <2>1. \A n \in Models : Snapshots(n)' # {}
    BY <1>1 DEF Snapshots, Found
  <2>2. \A d \in dirs' : Whole(d[1], d[2]) \subseteq fetched'
    BY <1>1 DEF Found
  <2>3. ASSUME NEW n \in Models, NEW s \in Revisions, NEW b \in Shards, <<n, s, b>> \in Whole(m, r)
        PROVE  s \in DOMAIN Files[n] /\ b \in Files[n][s]
    BY <2>3 DEF Whole
  <2> QED BY <1>1, <2>1, <2>2, <2>3 DEF Found
<1>2. ASSUME UNCHANGED hub, UNCHANGED <<label, layout>>, pool_task' \in {pool_task, "none", "resolve"}
      PROVE  Found'
  BY <1>0, <1>2 DEF Found
<1>3. ASSUME NEW m \in Models, Update(m), HandoverFrame PROVE Found'
  <2>1. PICK r \in DOMAIN Files[m] : dirs' = dirs \cup {<<m, r>>} /\ fetched' = fetched \cup Whole(m, r)
    BY <1>3 DEF Update
  <2>2. UNCHANGED <<pool_task, layout, loaded_model, loaded_layout>>
    BY <1>3 DEF Update
  <2> QED BY <1>1, <2>1, <2>2 DEF Found
<1>4. ASSUME NEW m \in Models, FetchShard(m) PROVE Found'
  BY <1>4 DEF FetchShard
<1>5. CASE PopulatePool
  <2>1. pool_task # "none" => loading \in Models
    BY DEF Typed, Control, SwapControl
  <2>2. ~NoShards /\ ~TooBig
    BY <2>1, ShardsFound DEF NoShards, TooBig
  <2>3. CASE BeginFill
    BY <1>0, <2>1, <2>3, ShardsFound DEF BeginFill, PoolFrame, Found
  <2>4. CASE Reuse \/ FillDone \/ WriteLayout \/ \E b \in pending : ReadIntoPool(b)
    BY <1>0, <2>4 DEF Reuse, FillDone, WriteLayout, ReadIntoPool, PoolFrame, Found
  <2> QED BY <1>5, <2>2, <2>3, <2>4 DEF PopulatePool
<1>6. CASE TouchGo
  BY <1>2, <1>6 DEF TouchGo
<1>7. ASSUME NEW k \in Loads, ListFiles(k) PROVE Found'
  <2>1. target[k] \in Models
    BY <1>7 DEF ListFiles, LoaderStep, Typed, Control, EnvControl, LoadControl
  <2>2. PICK r \in DOMAIN Files[target[k]] :
          dirs' = dirs \cup {<<target[k], r>>} /\ fetched' = fetched \cup Whole(target[k], r)
    BY <1>7 DEF ListFiles
  <2>3. UNCHANGED <<pool_task, layout, loaded_model, loaded_layout>>
    BY <1>7 DEF ListFiles, LoaderFrame
  <2> QED BY <1>1, <2>1, <2>2, <2>3 DEF Found
<1>8. ASSUME NEW k \in Loads, Loader(k), ~ListFiles(k) PROVE Found'
  BY <1>2, <1>8 DEF Loader, LoaderFrame, Cross, OpenLayout, OpenPrivatePool, TakeShard,
                    LoaderRaises, Loaded
<1>9. ASSUME NEW k \in Loads, SpawnTask(k) \/ Dies(k) PROVE Found'
  BY <1>2, <1>9 DEF SpawnTask, Dies, SpawnFrame, Lookup, Fork, Install, OpenEntry, DumpEntry,
                    RenameEntry, NotSaved, SpawnFails
<1>10. ASSUME NEW m \in Models, StartLoad(m) PROVE Found'
  BY <1>2, <1>10 DEF StartLoad
<1>11. CASE EndLoad \/ LeaveOrphan \/ Restart \/ Reboot
  BY <1>0, <1>11 DEF EndLoad, LeaveOrphan, SwapFrame, SwapEnds, Restart, Reboot, NewProcess, Found
<1>12. ASSUME NEW k \in Loads, OrphanEnds(k) PROVE Found'
  BY <1>2, <1>12 DEF OrphanEnds, SwapFrame
<1>13. CASE UNCHANGED vars
  BY <1>2, <1>13 DEF vars, handover
<1>14. ~ReadFails
  BY DEF ReadFails
<1> QED BY <1>3, <1>4, <1>5, <1>6, <1>7, <1>8, <1>9, <1>10, <1>11, <1>12, <1>13, <1>14, Steps

LEMMA NoOrphanStep ==
  ASSUME Typed, Found, NoOrphan, [Next]_vars
  PROVE  NoOrphan'
<1> USE DEF loader, current, spawning
<1>1. ASSUME UNCHANGED <<pooled, swap, inherited>>,
             \A k \in Loads : /\ sub'[k] # "none" => sub[k] # "none"
                              /\ spawn_task'[k] # "none" => spawn_task[k] # "none"
      PROVE  NoOrphan'
  BY <1>1 DEF NoOrphan, Own
<1>2. CASE \/ HandoverFrame /\ (PopulatePool \/ TouchGo \/ ReadFails)
           \/ HandoverFrame /\ \E m \in Models : Update(m) \/ FetchShard(m)
           \/ UNCHANGED vars
  <2>1. UNCHANGED <<pooled, swap, inherited, sub, spawn_task>>
    BY <1>2 DEF HandoverFrame, PopulatePool, PoolFrame, TouchGo, ReadFails, NoShards, Reuse, TooBig,
         BeginFill, ReadIntoPool, FillDone, WriteLayout, Update, FetchShard, vars, handover
  <2> QED BY <1>1, <2>1
<1>3. ASSUME NEW k \in Loads, HandoverFrame, Loader(k) PROVE NoOrphan'
  <2>1. sub[k] # "none" /\ UNCHANGED <<pooled, swap, inherited, spawn_task>>
    BY <1>3 DEF HandoverFrame, Loader, LoaderFrame, LoaderStep, Cross, ListFiles, OpenLayout,
         OpenPrivatePool, TakeShard, LoaderRaises, Loaded
  <2>2. \A j \in Loads : j # k => UNCHANGED <<sub[j]>>
    BY <1>3 DEF Loader, LoaderStep, Cross, ListFiles, OpenLayout, OpenPrivatePool, TakeShard,
         LoaderRaises, Loaded, Typed, TypeOK
  <2> QED BY <1>1, <2>1, <2>2
<1>4. ASSUME NEW k \in Loads, Fork(k) PROVE NoOrphan'
  <2>1. spawn_task[k] # "none" /\ inherited'[k] = env /\ UNCHANGED <<pooled, swap>>
    BY <1>4 DEF Fork, SpawnStep, SpawnFrame, Typed, TypeOK
  <2>2. \A j \in Loads : j # k => UNCHANGED <<inherited[j], sub[j], spawn_task[j]>>
    BY <1>4 DEF Fork, SpawnStep, Typed, TypeOK
  <2>3. k = swap /\ k # 0
    BY <2>1 DEF NoOrphan, Loads
  <2>4. Own(k)'
    BY <2>1, <2>3 DEF Own, Typed, Control, SwapControl
  <2> QED BY <2>1, <2>2, <2>3, <2>4 DEF NoOrphan, Own
<1>5. ASSUME NEW k \in Loads, SpawnTask(k) \/ Dies(k), ~Fork(k) PROVE NoOrphan'
  <2>1. UNCHANGED <<pooled, swap, inherited>>
    BY <1>5 DEF SpawnTask, Dies, SpawnFrame, Lookup, Install, OpenEntry, DumpEntry,
                RenameEntry, NotSaved, SpawnFails
  <2>2. ASSUME NEW j \in Loads
        PROVE  /\ sub'[j] # "none" => sub[j] # "none"
               /\ spawn_task'[j] # "none" => spawn_task[j] # "none"
    BY <1>5 DEF SpawnTask, Dies, SpawnStep, Lookup, Install, OpenEntry, DumpEntry,
                RenameEntry, NotSaved, SpawnFails, Typed, TypeOK, Control, LoadControl
  <2> QED BY <1>1, <2>1, <2>2
<1>6. ASSUME NEW m \in Models, StartLoad(m) PROVE NoOrphan'
  <2>1. \A j \in Loads : spawn_task[j] = "none" /\ sub[j] = "none"
    BY <1>6 DEF StartLoad, Idle, NoOrphan, Loads, Typed, Control, LoadControl
  <2> QED BY <1>6, <2>1 DEF StartLoad, NoOrphan, Typed, TypeOK
<1>7. ASSUME NEW k \in Loads, Forget(k), UNCHANGED <<pooled, swap>> \/ k = swap PROVE NoOrphan'
  <2>1. CASE k = swap
    BY <1>7, <2>1, Forgotten DEF NoOrphan, Typed
  <2>2. CASE k # swap
    BY <1>7, <2>2, Forgotten DEF NoOrphan, Own, Typed
  <2> QED BY <2>1, <2>2
<1>8. EndLoad => swap \in Loads
  BY DEF EndLoad, Idle, Typed, TypeOK
<1>9. ~LeaveOrphan
  BY DEF LeaveOrphan, Found
<1>10. CASE Restart \/ Reboot
  BY <1>10 DEF Restart, Reboot, NewProcess, NoOrphan
<1> QED BY <1>2, <1>3, <1>4, <1>5, <1>6, <1>7, <1>8, <1>9, <1>10, Steps
        DEF EndLoad, OrphanEnds, SwapFrame

(* What the code's comments say of the shared pool is true as long as every *)
(* model is in the HF cache with all its files, each of its revisions fits  *)
(* the pool and no read fails: whenever the gateway has a pool, a           *)
(* subprocess finds it populated with a layout and the shards of its own    *)
(* model, after any loads, updates and restarts.                            *)
THEOREM PoolIsPopulated ==
  ASSUME "download" \notin Faults, "read" \notin Faults, AllDownloaded, AllFit
  PROVE  Spec => []SharedPoolIsPopulated
<1>1. Init => Typed /\ Handed /\ Found /\ NoOrphan
  BY TypedInit, HandedInit, FoundInit
<1>2. Typed /\ Handed /\ Found /\ NoOrphan /\ [Next]_vars => (Typed /\ Handed /\ Found /\ NoOrphan)'
  BY TypedStep, HandedStep, FoundStep, NoOrphanStep
<1>3. Typed /\ Handed /\ Found /\ NoOrphan => SharedPoolIsPopulated
  <2> SUFFICES ASSUME Typed, Handed, Found, NoOrphan, NEW k \in Loads, pooled, sub[k] = "list"
               PROVE  LayoutFile(k) # NoLayout /\ Describes(LayoutFile(k), target[k])
    BY DEF SharedPoolIsPopulated
  <2>1. spawn_task[k] # "none" /\ k = swap /\ inherited[k].go = k
    BY DEF Typed, Control, LoadControl, NoOrphan, Own
  <2>2. inherited[k].layout = target[k] /\ target[k] = loading /\ loading \in Models
    BY <2>1 DEF Typed, Control, SwapControl, EnvControl, Loads
  <2>3. pool_task = "ok"
    BY <2>1 DEF Typed, Control, LoadControl, Found
  <2>4. loaded_model = loading /\ layouts[loading] = loaded_layout /\ LabelTellsContents
    BY <2>3 DEF Handed, Labelled
  <2> QED BY <2>2, <2>4, ModelAssumption DEF Found, LabelTellsContents, LayoutFile
<1> QED BY <1>1, <1>2, <1>3, PTL DEF Spec

(* Under the same conditions the exceptions of WeightsOfOneRevision never   *)
(* occur: there are no orphans, and every engine that comes up is whole.    *)
THEOREM EveryEngineIsWhole ==
  ASSUME "download" \notin Faults, "read" \notin Faults, AllDownloaded, AllFit
  PROVE  Spec => [](\A k \in Loads : sub[k] = "up" => EngineIsWhole(k))
<1>1. Init => Typed /\ Handed /\ Found /\ NoOrphan
  BY TypedInit, HandedInit, FoundInit
<1>2. Typed /\ Handed /\ Found /\ NoOrphan /\ [Next]_vars => (Typed /\ Handed /\ Found /\ NoOrphan)'
  BY TypedStep, HandedStep, FoundStep, NoOrphanStep
<1>3. Typed /\ Handed /\ Found /\ NoOrphan => \A k \in Loads : sub[k] = "up" => EngineIsWhole(k)
  <2> SUFFICES ASSUME Typed, Handed, Found, NoOrphan, NEW k \in Loads, sub[k] = "up"
               PROVE  EngineIsWhole(k)
    OBVIOUS
  <2>1. Own(k)
    BY DEF Typed, Control, LoadControl, NoOrphan
  <2>2. pooled => pool_task = "ok"
    BY <2>1 DEF Own, Typed, Control, LoadControl, Found
  <2> QED BY <2>1, <2>2, HandedWeights DEF WeightsOfOneRevision
<1> QED BY <1>1, <1>2, <1>3, PTL DEF Spec
-----------------------------------------------------------------------------
(* When no newer revision is downloaded.                                   *)

OfNewest(p) == Snapshots(p.model) # {} /\ p.revision = Newest(p.model)

\* Then there is one revision of each model, that of its loads and profiles.
OneRevision ==
  /\ \A k \in Loads : sub[k] \in {"open", "read", "up"} =>
       Snapshots(target[k]) # {} /\ listed[k] = Newest(target[k])
  /\ \A e \in Cache!Keys : \A p \in entries[e] \cup tmp[e] : OfNewest(p)
  /\ \A k \in Loads : \A p \in hit[k] : OfNewest(p)

LEMMA SnapshotsStay ==
  ASSUME "update" \notin Faults, Typed, [Next]_vars,
         NEW m \in Models, Snapshots(m) # {}
  PROVE  Snapshots(m)' = Snapshots(m)
<1> USE DEF hub
<1>1. ASSUME NEW k \in Loads, ListFiles(k) PROVE Snapshots(m)' = Snapshots(m)
  <2>1. PICK r \in DOMAIN Files[target[k]] :
          /\ Snapshots(target[k]) # {} => r = Newest(target[k])
          /\ dirs' = dirs \cup {<<target[k], r>>}
    BY <1>1 DEF ListFiles
  <2>2. CASE m # target[k]
    BY <2>1, <2>2 DEF Snapshots
  <2>3. CASE m = target[k]
    <3>1. r \in Snapshots(m)
      BY <2>1, <2>3, PickedSnapshots
    <3> QED BY <2>1, <2>3, <3>1 DEF Snapshots
  <2> QED BY <2>2, <2>3
<1>2. CASE UNCHANGED dirs
  BY <1>2 DEF Snapshots
<1>3. CASE \A k \in Loads : ~ListFiles(k)
  <2>1. \A n \in Models : ~Update(n)
    BY DEF Update
  <2>2. UNCHANGED dirs
    <3>1. CASE PopulatePool \/ TouchGo \/ ReadFails \/ \E n \in Models : FetchShard(n)
      BY <3>1 DEF PopulatePool, TouchGo, PoolFrame, NoShards, Reuse, TooBig, BeginFill,
                  ReadIntoPool, FillDone, WriteLayout, ReadFails, FetchShard
    <3>2. ASSUME NEW k \in Loads, Loader(k) PROVE UNCHANGED dirs
      BY <1>3, <3>2 DEF Loader, Cross, OpenLayout, OpenPrivatePool, TakeShard, LoaderRaises, Loaded
    <3>3. CASE \E k \in Loads : SpawnTask(k) \/ Dies(k)
      BY <3>3 DEF SpawnTask, Dies, SpawnFrame, Lookup, Fork, Install, OpenEntry, DumpEntry,
                  RenameEntry, NotSaved, SpawnFails
    <3>4. CASE \/ EndLoad \/ LeaveOrphan \/ \E k \in Loads : OrphanEnds(k)
               \/ \E n \in Models : StartLoad(n)
      BY <3>4 DEF EndLoad, LeaveOrphan, OrphanEnds, SwapFrame, StartLoad
    <3>5. CASE Restart \/ Reboot
      BY <3>5 DEF Restart, Reboot, NewProcess
    <3>6. CASE UNCHANGED vars
      BY <3>6 DEF vars, handover
    <3> QED BY <2>1, <3>1, <3>2, <3>3, <3>4, <3>5, <3>6, Steps
  <2> QED BY <1>2, <2>2
<1> QED BY <1>1, <1>3

LEMMA NewestStays ==
  ASSUME "update" \notin Faults, Typed, [Next]_vars,
         NEW m \in Models, Snapshots(m) # {}
  PROVE  Snapshots(m)' # {} /\ Newest(m)' = Newest(m)
<1>1. Snapshots(m)' = Snapshots(m)
  BY SnapshotsStay
<1> QED BY <1>1 DEF Newest

LEMMA OneRevisionInit == Init => OneRevision
BY DEF Init, OneRevision, Cache!CacheInit

\* What the subprocesses have listed, and the profiles in the cache.
LEMMA ListedStep ==
  ASSUME "update" \notin Faults, Typed, OneRevision, [Next]_vars,
         NEW k \in Loads, sub'[k] \in {"open", "read", "up"}
  PROVE  Snapshots(target[k])' # {} /\ listed'[k] = Newest(target[k])'
<1> USE DEF loader, spawning
<1>1. CASE sub[k] \in {"open", "read", "up"} /\ UNCHANGED <<target[k], listed[k]>>
  <2>1. target[k] \in Models
    BY <1>1 DEF Typed, Control, EnvControl, LoadControl
  <2> QED BY <1>1, <2>1, NewestStays DEF OneRevision
<1>2. CASE ListFiles(k)
  <2>1. target[k] \in Models
    BY <1>2 DEF ListFiles, LoaderStep, Typed, Control, EnvControl, LoadControl
  <2>2. PICK r \in DOMAIN Files[target[k]] :
          /\ Snapshots(target[k]) # {} => r = Newest(target[k])
          /\ dirs' = dirs \cup {<<target[k], r>>}
          /\ listed'[k] = r /\ target' = target
    BY <1>2 DEF ListFiles, LoaderFrame, Typed, TypeOK
  <2>3. CASE Snapshots(target[k]) # {}
    BY <2>1, <2>2, <2>3, NewestStays
  <2>4. CASE Snapshots(target[k]) = {}
    <3>1. r \in Revisions
      BY <2>1, FilesType
    <3>2. Snapshots(target[k])' = {r}
      BY <2>2, <2>4, <3>1 DEF Snapshots
    <3>3. Newest(target[k])' = r
      BY <2>2, <3>1, <3>2, RevisionAssumption DEF Newest
    <3> QED BY <2>2, <3>2, <3>3
  <2> QED BY <2>3, <2>4
<1>3. ASSUME NEW j \in Loads, Loader(j) PROVE \/ sub[k] \in {"open", "read", "up"} /\ UNCHANGED <<target[k], listed[k]>>
                                       \/ ListFiles(k)
  BY <1>3 DEF Loader, LoaderFrame, LoaderStep, Cross, ListFiles, OpenLayout, OpenPrivatePool,
              TakeShard, LoaderRaises, Loaded, Typed, TypeOK
<1>4. CASE PopulatePool \/ TouchGo \/ ReadFails \/ \E m \in Models : Update(m) \/ FetchShard(m)
  BY <1>1, <1>4 DEF PopulatePool, TouchGo, PoolFrame, NoShards, Reuse, TooBig, BeginFill,
                    ReadIntoPool, FillDone, WriteLayout, ReadFails, Update, FetchShard
<1>5. ASSUME NEW j \in Loads, SpawnTask(j) \/ Dies(j)
      PROVE  sub[k] \in {"open", "read", "up"} /\ UNCHANGED <<target[k], listed[k]>>
  BY <1>5 DEF SpawnTask, Dies, SpawnFrame, Lookup, Fork, Install, OpenEntry, DumpEntry,
              RenameEntry, NotSaved, SpawnFails, Typed, TypeOK
<1>6. ASSUME NEW m \in Models, StartLoad(m)
      PROVE  sub[k] \in {"open", "read", "up"} /\ UNCHANGED <<target[k], listed[k]>>
  <2>1. spawn_task[k] # "none"
    BY <1>6 DEF StartLoad, Typed, Control, LoadControl
  <2>2. k # swap'
    BY <1>6, <2>1 DEF StartLoad, Typed, TypeOK, Control, EnvControl
  <2> QED BY <1>6, <2>2 DEF StartLoad, Typed, TypeOK
<1>7. ASSUME NEW j \in Loads, Forget(j)
      PROVE  sub[k] \in {"open", "read", "up"} /\ UNCHANGED <<target[k], listed[k]>>
  BY <1>7, Forgotten DEF Typed
<1>8. CASE Restart \/ Reboot
  BY <1>8 DEF Restart, Reboot, NewProcess
<1>9. CASE LeaveOrphan \/ UNCHANGED vars
  BY <1>1, <1>9 DEF LeaveOrphan, vars, handover
<1>10. EndLoad => swap \in Loads
  BY DEF EndLoad, Idle, Typed, TypeOK
<1> QED BY <1>1, <1>2, <1>3, <1>4, <1>5, <1>6, <1>7, <1>8, <1>9, <1>10, Steps
        DEF EndLoad, OrphanEnds

LEMMA ProfilesStep ==
  ASSUME "update" \notin Faults, Typed, OneRevision, [Next]_vars
  PROVE  /\ \A e \in Cache!Keys : \A p \in entries'[e] \cup tmp'[e] : OfNewest(p)'
         /\ \A k \in Loads : \A p \in hit'[k] : OfNewest(p)'
<1> USE DEF spawning, files
<1>1. ASSUME NEW p, p.model \in Models, OfNewest(p) PROVE OfNewest(p)'
  BY <1>1, NewestStays DEF OfNewest
<1>2. /\ \A e \in Cache!Keys : \A p \in entries[e] \cup tmp[e] : p.model \in Models
      /\ \A k \in Loads : \A p \in hit[k] : p.model \in Models
  BY DEF Typed, TypeOK, Cache!CacheTypeOK, Cache!Contents, Cache!Profiles
<1>3. ASSUME \A e \in Cache!Keys : entries'[e] \cup tmp'[e] \subseteq entries[e] \cup tmp[e]
      PROVE  \A e \in Cache!Keys : \A p \in entries'[e] \cup tmp'[e] : OfNewest(p)'
  BY <1>1, <1>2, <1>3 DEF OneRevision
<1>4. ASSUME \A k \in Loads : hit'[k] \in {hit[k], {}}
      PROVE  \A k \in Loads : \A p \in hit'[k] : OfNewest(p)'
  BY <1>1, <1>2, <1>4 DEF OneRevision
<1>5. ASSUME NEW k \in Loads, Lookup(k)
      PROVE  \A j \in Loads : \A p \in hit'[j] : OfNewest(p)'
  <2>1. PICK r \in Readings : hit' = [hit EXCEPT ![k] = entries[<<target[k], r>>]]
    BY <1>5 DEF Lookup, Cache!Get, Cache!Key
  <2>2. <<target[k], r>> \in Cache!Keys
    BY <1>5, <2>1 DEF Lookup, SpawnStep, Readings, Cache!Keys, Cache!Readings, Typed, TypeOK,
                      Control, EnvControl
  <2>3. \A j \in Loads : \A p \in hit'[j] : OfNewest(p) /\ p.model \in Models
    BY <1>2, <2>1, <2>2 DEF OneRevision, Typed, TypeOK
  <2> QED BY <1>1, <2>3
<1>6. ASSUME NEW k \in Loads, DumpEntry(k)
      PROVE  \A e \in Cache!Keys : \A p \in entries'[e] \cup tmp'[e] : OfNewest(p)'
  <2>1. /\ entries' = entries /\ tmp' = [tmp EXCEPT ![Entry(k)] = {Measured(k)}]
        /\ spawn_task[k] = "dump"
    BY <1>6 DEF DumpEntry, SpawnStep, Cache!PutDump
  <2>2. Entry(k) \in Cache!Keys
    BY <2>1, EntryIsKey
  <2>3. \A e \in Cache!Keys : entries'[e] \cup tmp'[e] \subseteq entries[e] \cup tmp[e] \cup {Measured(k)}
    BY <2>1, <2>2 DEF Typed, TypeOK, Cache!CacheTypeOK
  <2>4. OfNewest(Measured(k)) /\ Measured(k).model \in Models
    <3>1. sub[k] = "up" /\ target[k] \in Models
      BY <2>1 DEF Typed, Control, EnvControl, LoadControl
    <3> QED BY <3>1 DEF OneRevision, OfNewest, Measured
  <2> QED BY <1>1, <1>2, <2>3, <2>4 DEF OneRevision
<1>7. ASSUME NEW k \in Loads, SpawnTask(k), ~DumpEntry(k)
      PROVE  \A e \in Cache!Keys : entries'[e] \cup tmp'[e] \subseteq entries[e] \cup tmp[e]
  <2>1. CASE RenameEntry(k)
    BY <2>1, EntryIsKey
       DEF RenameEntry, SpawnStep, Cache!PutRename, Typed, TypeOK, Cache!CacheTypeOK
  <2>2. CASE OpenEntry(k)
    BY <2>2 DEF OpenEntry, Cache!PutOpen, Typed, TypeOK, Cache!CacheTypeOK
  <2>3. CASE Lookup(k) \/ Fork(k) \/ Install(k) \/ NotSaved(k) \/ SpawnFails(k)
    BY <2>3 DEF Lookup, Fork, Install, NotSaved, SpawnFails
  <2> QED BY <1>7, <2>1, <2>2, <2>3 DEF SpawnTask
<1>8. ASSUME NEW k \in Loads, SpawnTask(k), ~Lookup(k) PROVE UNCHANGED hit
  BY <1>8 DEF SpawnTask, Fork, Install, OpenEntry, DumpEntry, RenameEntry, NotSaved, SpawnFails
<1>9. CASE \E k \in Loads : SpawnTask(k)
  BY <1>3, <1>4, <1>5, <1>6, <1>7, <1>8, <1>9 DEF DumpEntry, Lookup
<1>10. ASSUME UNCHANGED files, \A k \in Loads : hit'[k] \in {hit[k], {}}
       PROVE  /\ \A e \in Cache!Keys : \A p \in entries'[e] \cup tmp'[e] : OfNewest(p)'
              /\ \A k \in Loads : \A p \in hit'[k] : OfNewest(p)'
  BY <1>3, <1>4, <1>10
<1>11. ASSUME NEW k \in Loads, Forget(k), UNCHANGED files
       PROVE  \A j \in Loads : hit'[j] \in {hit[j], {}}
  BY <1>11, Forgotten DEF Typed
<1>12. EndLoad => swap \in Loads
  BY DEF EndLoad, Idle, Typed, TypeOK
<1>13. CASE EndLoad \/ \E k \in Loads : OrphanEnds(k)
  BY <1>10, <1>11, <1>12, <1>13 DEF EndLoad, OrphanEnds, SwapFrame
<1>14. CASE \/ HandoverFrame \/ LeaveOrphan \/ (\E k \in Loads : Dies(k))
            \/ (\E m \in Models : StartLoad(m)) \/ UNCHANGED vars
  BY <1>10, <1>14 DEF HandoverFrame, LeaveOrphan, SwapFrame, Dies, SpawnFrame, StartLoad, vars
<1>15. CASE Restart \/ Reboot
  <2>1. \A e \in Cache!Keys : entries'[e] \cup tmp'[e] \subseteq entries[e] \cup tmp[e]
    BY <1>15 DEF Restart, Reboot, Cache!HostLoses
  <2>2. \A k \in Loads : hit'[k] = {}
    BY <1>15 DEF Restart, Reboot, NewProcess
  <2> QED BY <1>3, <1>4, <2>1, <2>2
<1> QED BY <1>9, <1>13, <1>14, <1>15, Steps

LEMMA OneRevisionStep ==
  ASSUME "update" \notin Faults, Typed, OneRevision, [Next]_vars
  PROVE  OneRevision'
BY ListedStep, ProfilesStep DEF OneRevision

(* As long as no newer revision of a model is downloaded, a profile that is *)
(* used was measured with the revision that is loaded, although the key     *)
(* does not name it; also when the first load is the one that downloads,    *)
(* and when an orphan saved it.                                             *)
THEOREM ProfilesFitRevision ==
  ASSUME "update" \notin Faults
  PROVE  Spec => []HitsAreOfThisRevision
<1>1. Init => Typed /\ Kept /\ OneRevision
  BY TypedInit, KeptInit, OneRevisionInit
<1>2. Typed /\ Kept /\ OneRevision /\ [Next]_vars => (Typed /\ Kept /\ OneRevision)'
  BY TypedStep, KeptStep, OneRevisionStep
<1>3. Typed /\ Kept /\ OneRevision => HitsAreOfThisRevision
  BY DEF Kept, OverrideWasMeasured, OneRevision, OfNewest, HitsAreOfThisRevision
<1> QED BY <1>1, <1>2, <1>3, PTL DEF Spec
=============================================================================
