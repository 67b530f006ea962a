--------------------------- MODULE WeightHandover ---------------------------
(***************************************************************************)
(* How the weights get from the HF cache through the shared pool into an   *)
(* engine: _resolve_shard_paths() and _populate_pool() of                  *)
(* blitzinfer/api/server.py, load_shards() of SharedPool seen shard by     *)
(* shard, the layout file, and blitzinfer/loader/pinned_loader.py in the   *)
(* engine's subprocess.                                                    *)
(*                                                                         *)
(* A shard file is <<model, revision, name>>; the same names occur in many *)
(* models and revisions.  Names and revisions are numbers: names in their  *)
(* alphabetical order, revisions in the order they are published, while    *)
(* Hash gives the order of the commit hashes that name their directories.  *)
(* All shards have the size of one slot of the pool.                       *)
(*                                                                         *)
(* Loads are numbered as they start.  One swap is under way at a time, but *)
(* the spawn task of a load outlives its swap when the pool task raises:   *)
(* it is then an orphan, beside whatever is loaded next.                   *)
(***************************************************************************)
EXTENDS Naturals, FiniteSets

CONSTANTS
  Models,
  None,          \* no model
  Revisions,
  Hash,
  Shards,        \* base names of safetensors files
  Files,         \* per model its revisions, and the shards of each
  Local,         \* the snapshots that are in the HF cache from the start
  PoolSlots,
  MaxLoads,      \* bound on the loads: of this model, not of the code
  Faults         \* "update", "download", "read", and those of ColdStart

ASSUME ModelAssumption == None \notin Models
ASSUME RevisionAssumption ==
  /\ Revisions \subseteq Nat /\ IsFiniteSet(Revisions)
  /\ Hash \in [Models -> [Revisions -> Nat]]
  /\ \A m \in Models : \A r, s \in Revisions : Hash[m][r] = Hash[m][s] => r = s
ASSUME ShardAssumption ==
  /\ Shards \subseteq Nat /\ IsFiniteSet(Shards)
  /\ DOMAIN Files = Models
  /\ \A m \in Models : Files[m] \in UNION {[R -> SUBSET Shards] : R \in SUBSET Revisions}
  /\ Local \subseteq Models \X Revisions /\ \A d \in Local : d[2] \in DOMAIN Files[d[1]]
  /\ PoolSlots \in Nat
ASSUME LoadsAssumption == MaxLoads \in Nat

VARIABLES
  \* ~/.cache/huggingface/hub
  dirs,          \* the snapshot directories, <<model, revision>>
  fetched,       \* the shards that are in them
  \* the pool and its label in the gateway's memory
  pooled,        \* main() could open the pool
  pool,          \* per slot the shard it holds
  loaded_model,
  loaded_layout,
  layouts,       \* the layout files in /tmp under names of this process
  \* what a subprocess inherits, and waits for
  env,           \* BLITZ_SHARDS_LAYOUT and BLITZ_GPU_GO_FILE
  go_files,      \* the go-files in /tmp, by the load they were made for
  \* the swap under way
  swap,          \* its load, or 0
  loading,       \* its model, or None
  pool_task,     \* where _populate_pool() stands; "skipped": no shards found
  revision,      \* the snapshot whose shards it reads
  layout,        \* where it puts them
  pending,       \* those it has not read yet
  \* per load, its subprocess and the loader in it
  target,        \* its model, or None
  inherited,     \* env, as it was when it was forked
  sub,           \* where it stands
  listed,        \* the revision whose files vLLM lists
  view,          \* the layout it has read
  weights        \* <<name, shard>>: the shard that was taken for each name

hub      == <<dirs, fetched>>
label    == <<loaded_model, loaded_layout>>
fill     == <<revision, layout, pending>>
release  == <<env, go_files>>
current  == <<swap, loading, pool_task>>
loader   == <<target, inherited, sub, listed, view, weights>>
handover == <<hub, pooled, pool, label, layouts, release, current, fill, loader>>

Loads == 1..MaxLoads
NoEnv == [layout |-> None, go |-> 0]

Blank == <<None, 0, 0>>
Torn  == <<None, 0, 1>>            \* of a shard that was not read to its end
Slots == 0..(PoolSlots - 1)
Cells == (Models \X Revisions \X Shards) \cup {Blank, Torn}

SlotFromOne(B, b) == Cardinality({c \in B : c <= b})           \* mutant
Slot(B, b)  == Cardinality({c \in B : c < b})
LayoutOf(B) == [b \in B |-> Slot(B, b)]
Fits(B)     == Cardinality(B) <= PoolSlots
NoLayout    == LayoutOf({})        \* a file that does not exist
NoLayouts   == [m \in Models |-> NoLayout]
-----------------------------------------------------------------------------
(* The HF cache.                                                           *)

Snapshots(m) == {r \in Revisions : <<m, r>> \in dirs}
Newest(m)    == CHOOSE r \in Snapshots(m) : \A s \in Snapshots(m) : s <= r
Whole(m, r)  == {<<m, r, b>> : b \in Files[m][r]}

\* _resolve_shard_paths(): the last directory by name, and the shards that
\* are in it by now.
LastByName(m) == CHOOSE r \in Snapshots(m) : \A s \in Snapshots(m) : Hash[m][s] <= Hash[m][r]
ShardPaths(m) == {b \in Shards : /\ Snapshots(m) # {}
                                 /\ <<m, LastByName(m), b>> \in fetched}

\* A newer revision is downloaded; its files may take a while to follow.
Update(m) ==
  /\ "update" \in Faults
  /\ \E r \in DOMAIN Files[m] :
       /\ \A s \in Snapshots(m) : s < r
       /\ dirs' = dirs \cup {<<m, r>>}
       /\ \/ fetched' = fetched \cup Whole(m, r)
          \/ "download" \in Faults /\ UNCHANGED fetched
  /\ UNCHANGED <<pooled, pool, label, layouts, release, current, fill, loader>>

FetchShard(m) ==
  /\ "download" \in Faults
  /\ \E r \in Snapshots(m) : \E b \in Files[m][r] :
       /\ <<m, r, b>> \notin fetched
       /\ fetched' = fetched \cup {<<m, r, b>>}
  /\ UNCHANGED <<dirs, pooled, pool, label, layouts, release, current, fill, loader>>
-----------------------------------------------------------------------------
(* _populate_pool().                                                       *)

PoolFrame == UNCHANGED <<hub, pooled, release, swap, loading, loader>>

NoShards ==
  /\ pool_task = "resolve" /\ ShardPaths(loading) = {}
  /\ pool_task' = "skipped"
  /\ UNCHANGED <<pool, label, layouts, fill>> /\ PoolFrame

\* The pool already holds this model, whatever the shards are now.
HeldAnything == loaded_model # None                            \* mutant
Held == loaded_model = loading
Reuse ==
  /\ pool_task = "resolve" /\ ShardPaths(loading) # {}
  /\ Held
  /\ pool_task' = "write"
  /\ UNCHANGED <<pool, label, layouts, fill>> /\ PoolFrame

TooBig ==
  /\ pool_task = "resolve" /\ ShardPaths(loading) # {}
  /\ ~Held /\ ~Fits(ShardPaths(loading))
  /\ pool_task' = "err"
  /\ UNCHANGED <<pool, label, layouts, fill>> /\ PoolFrame

BeginFill ==
  /\ pool_task = "resolve" /\ ShardPaths(loading) # {}
  /\ ~Held /\ Fits(ShardPaths(loading))
  /\ pool_task' = "fill"
  /\ revision' = LastByName(loading)
  /\ layout' = LayoutOf(ShardPaths(loading))
  /\ pending' = ShardPaths(loading)
  /\ UNCHANGED <<pool, label, layouts>> /\ PoolFrame

ReadIntoPool(b) ==
  /\ pool_task = "fill" /\ b \in pending
  /\ pool' = [pool EXCEPT ![layout[b]] = <<loading, revision, b>>]
  /\ pending' = pending \ {b}
  /\ UNCHANGED <<pool_task, label, layouts, revision, layout>> /\ PoolFrame

\* One read fails; shards that were being read at the same time may have begun
\* to overwrite what was there.
ReadFails ==
  /\ "read" \in Faults
  /\ pool_task = "fill" /\ pending # {}
  /\ pool_task' = "err"
  /\ \E B \in SUBSET pending :
       pool' = [i \in Slots |-> IF \E b \in B : layout[b] = i THEN Torn ELSE pool[i]]
  /\ UNCHANGED <<label, layouts, fill>> /\ PoolFrame

FillDone ==
  /\ pool_task = "fill" /\ pending = {}
  /\ pool_task' = "write"
  /\ loaded_model' = loading /\ loaded_layout' = layout
  /\ UNCHANGED <<pool, layouts, fill>> /\ PoolFrame

\* The layout is written beside the file and moved over it.
WriteLayout ==
  /\ pool_task = "write"
  /\ pool_task' = "ok"
  /\ layouts' = [layouts EXCEPT ![loading] = loaded_layout]
  /\ UNCHANGED <<pool, label, fill>> /\ PoolFrame

PopulatePool == \/ NoShards \/ Reuse \/ TooBig \/ BeginFill
                \/ \E b \in pending : ReadIntoPool(b)
                \/ FillDone \/ WriteLayout
-----------------------------------------------------------------------------
(* The loader of load k.                                                   *)

LoaderFrame == UNCHANGED <<pooled, pool, label, layouts, release, current, fill,
                           target, inherited>>
LoaderStep(k, from, to) == sub[k] = from /\ sub' = [sub EXCEPT ![k] = to]

\* The gateway makes the go-file when _populate_pool() has returned.
TouchGo ==
  /\ pool_task \in {"ok", "skipped"} /\ swap \notin go_files
  /\ go_files' = go_files \cup {swap}
  /\ UNCHANGED <<hub, pooled, pool, label, layouts, env, current, fill, loader>>

\* The barrier waits for the go-file whose name was inherited, if there was one.
ReleasedAtOnce(k) == TRUE                                     \* mutant
Released(k) == inherited[k].go \in go_files \cup {0}
Cross(k) ==
  /\ LoaderStep(k, "barrier", "list") /\ Released(k)
  /\ UNCHANGED <<hub, listed, view, weights>> /\ LoaderFrame

\* vLLM lists the files of the newest revision it knows of, and downloads
\* what is missing.
ListFiles(k) ==
  /\ LoaderStep(k, "list", "open")
  /\ \E r \in DOMAIN Files[target[k]] :
       /\ Snapshots(target[k]) # {} => r = Newest(target[k])
       /\ dirs' = dirs \cup {<<target[k], r>>}
       /\ fetched' = fetched \cup Whole(target[k], r)
       /\ listed' = [listed EXCEPT ![k] = r]
  /\ UNCHANGED <<view, weights>> /\ LoaderFrame

\* BLITZ_SHARED_POOL and BLITZ_SHARDS_LAYOUT are set whenever the gateway has
\* a pool; otherwise the loader fills a pool of its own.
LayoutFile(k) == layouts[inherited[k].layout]
OpenLayout(k) ==
  /\ LoaderStep(k, "open", "read") /\ pooled
  /\ LayoutFile(k) # NoLayout
  /\ view' = [view EXCEPT ![k] = LayoutFile(k)]
  /\ UNCHANGED <<hub, listed, weights>> /\ LoaderFrame

OpenPrivatePool(k) ==
  /\ LoaderStep(k, "open", "read") /\ ~pooled
  /\ Fits(Files[target[k]][listed[k]])
  /\ UNCHANGED <<hub, listed, view, weights>> /\ LoaderFrame

Unread(k) == {b \in Files[target[k]][listed[k]] : \A w \in weights[k] : w[1] # b}
InLayout(k, b) == b \in DOMAIN view[k]
InPool(k, b) == pool[view[k][b]]

TakeShard(k, b) ==
  /\ sub[k] = "read"
  /\ pooled => InLayout(k, b) /\ InPool(k, b) # Blank
  /\ weights' = [weights EXCEPT ![k] = @ \cup
       {<<b, IF pooled THEN InPool(k, b) ELSE <<target[k], listed[k], b>> >>}]
  /\ UNCHANGED <<hub, sub, listed, view>> /\ LoaderFrame

\* A missing layout file, a model larger than the private pool, a shard that
\* is not in the layout, or one without a header, as a torn one may be.
NeverMissing(k, b) == FALSE                                   \* mutant
Missing(k, b) == pooled /\ (InLayout(k, b) => InPool(k, b) \in {Blank, Torn})
LoaderRaises(k) ==
  /\ \/ sub[k] = "open" /\ pooled /\ LayoutFile(k) = NoLayout
     \/ sub[k] = "open" /\ ~pooled /\ ~Fits(Files[target[k]][listed[k]])
     \/ sub[k] = "read" /\ \E b \in Unread(k) : Missing(k, b)
  /\ sub' = [sub EXCEPT ![k] = "dead"]
  /\ UNCHANGED <<hub, listed, view, weights>> /\ LoaderFrame

Loaded(k) ==
  /\ LoaderStep(k, "read", "up") /\ Unread(k) = {}
  /\ UNCHANGED <<hub, listed, view, weights>> /\ LoaderFrame

Loader(k) == \/ Cross(k) \/ ListFiles(k) \/ OpenLayout(k) \/ OpenPrivatePool(k)
             \/ sub[k] = "read" /\ \E b \in Unread(k) : TakeShard(k, b)
             \/ LoaderRaises(k) \/ Loaded(k)
=============================================================================
