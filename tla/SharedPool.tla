----------------------------- MODULE SharedPool ------------------------------
(***************************************************************************)
(* SharedPool of blitzinfer/loader/shared_pool.py: one region of memory    *)
(* that holds the shards of one model, read in place by parallel chunk     *)
(* threads, and the label (_loaded_model, _loaded_layout) by which a later *)
(* load of the same model is answered without reading anything.            *)
(*                                                                         *)
(* The pool is mapped byte by byte; a byte of a shard is named by its      *)
(* model, shard and place in the file, and Blank is what fresh memory      *)
(* holds.  _lock is held for all of load_shards() and close(): loading is  *)
(* the model of the call that holds it.                                    *)
(***************************************************************************)
EXTENDS ShardChunks, Sequences, FiniteSets

CONSTANTS
  Models,
  None,              \* no model
  Sizes,             \* for each model the sizes of its shard files
  PoolSize,
  ChunksPerShard,
  ShardsInParallel,
  Faults             \* what may happen: "read" errors, "reopen" of the pool

ASSUME SizesAssumption == None \notin Models /\ Sizes \in [Models -> Seq(Nat)]
ASSUME ParametersAssumption == /\ PoolSize \in Nat
                               /\ ChunksPerShard \in Nat \ {0}
                               /\ ShardsInParallel \in Nat \ {0}

VARIABLES
  mapped,            \* _addr is not None
  pool,              \* the bytes of the pool
  loaded_model,
  loaded_layout,     \* per shard its byte_offset and byte_size
  loading,           \* the model of the call inside load_shards(), or None
  started,           \* how many of its shards have been given a thread
  pos,               \* per chunk thread the next byte of the file to read
  broken,            \* the chunk threads that ended with an exception
  result             \* what the last call of load_shards() returned or raised

label  == <<loaded_model, loaded_layout>>
reads  == <<started, pos, broken>>
vars   == <<mapped, pool, label, loading, reads, result>>

Blank == <<None, 0, 0>>
Raised == [model |-> None, reused |-> FALSE, layout |-> <<>>]
Returned(m, r, l) == [model |-> m, reused |-> r, layout |-> l]

Shards(m) == DOMAIN Sizes[m]
\* The loop over sizes: where each shard begins, and last the sum of them all.
Offsets(m) == LET cur[i \in 0..Len(Sizes[m])] ==
                    IF i = 0 THEN 0 ELSE cur[i - 1] + Sizes[m][i]
              IN  cur
Offset(m, i) == Offsets(m)[i - 1]
Total(m)     == Offsets(m)[Len(Sizes[m])]
Layout(m) == [i \in Shards(m) |-> [byte_offset |-> Offset(m, i),
                                   byte_size |-> Sizes[m][i]]]

\* The chunk threads of a model's shards, <<shard, chunk>>.
Threads(m) == UNION {{i} \X Chunks(Sizes[m][i], ChunksPerShard) : i \in Shards(m)}
First(m, t) == ChunkBegin(Sizes[m][t[1]], ChunksPerShard, t[2])
End(m, t)   == ChunkEnd(Sizes[m][t[1]], ChunksPerShard, t[2])

EndedWithoutError(t) == pos[t] = End(loading, t)               \* mutant
Ended(t)  == t \in broken \/ pos[t] = End(loading, t)
Running(i) == i <= started /\ \E t \in Threads(loading) : t[1] = i /\ ~Ended(t)
Failed(i) == \E t \in broken : t[1] = i

Init == /\ mapped = TRUE
        /\ pool = [a \in 0..(PoolSize - 1) |-> Blank]
        /\ loaded_model = None /\ loaded_layout = <<>>
        /\ loading = None
        /\ started = 0 /\ pos = <<>> /\ broken = {}
        /\ result = Raised
-----------------------------------------------------------------------------
\* open() after close(): a new file, whose pages are blank.
Open == /\ ~mapped
        /\ mapped' = TRUE
        /\ pool' = [a \in 0..(PoolSize - 1) |-> Blank]
        /\ UNCHANGED <<label, loading, reads, result>>

\* close(): unmap and unlink, which voids the layout returned last; the label
\* stays.
Close == /\ "reopen" \in Faults
         /\ loading = None /\ mapped
         /\ mapped' = FALSE
         /\ result' = Raised
         /\ UNCHANGED <<pool, label, loading, reads>>

\* load_shards() raises before it has read anything: the pool is closed or too
\* small, or a file cannot be found.
Refuse(m) == /\ loading = None
             /\ \/ ~mapped
                \/ loaded_model # m /\ (Total(m) > PoolSize \/ "read" \in Faults)
             /\ result' = Raised
             /\ UNCHANGED <<mapped, pool, label, loading, reads>>

\* The pool already holds this model.
Held(m) == loaded_model = m

Reuse(m) == /\ loading = None /\ mapped
            /\ Held(m)
            /\ result' = Returned(m, TRUE, loaded_layout)
            /\ UNCHANGED <<mapped, pool, label, loading, reads>>

Begin(m) == /\ loading = None /\ mapped
            /\ ~Held(m) /\ Total(m) <= PoolSize
            /\ loading' = m
            /\ started' = 0 /\ broken' = {}
            /\ pos' = [t \in Threads(m) |-> First(m, t)]
            /\ UNCHANGED <<mapped, pool, label, result>>

\* The outer executor starts the shards in order, a few at a time.
StartShard == /\ loading # None
              /\ started < Len(Sizes[loading])
              /\ Cardinality({i \in Shards(loading) : Running(i)}) < ShardsInParallel
              /\ started' = started + 1
              /\ UNCHANGED <<mapped, pool, label, loading, pos, broken, result>>

\* One preadv() of a chunk thread: n bytes, no more than it asked for.
WholeChunk(t) == End(loading, t) - First(loading, t)           \* mutant
Remaining(t)  == End(loading, t) - pos[t]
Place(t) == Offset(loading, t[1]) + pos[t]
ReadChunk(t, n) ==
  /\ t[1] <= started /\ t \notin broken
  /\ n <= Remaining(t)
  /\ pool' = [a \in DOMAIN pool |->
                IF a \in Place(t)..(Place(t) + n - 1)
                THEN <<loading, t[1], pos[t] + (a - Place(t))>> ELSE pool[a]]
  /\ pos' = [pos EXCEPT ![t] = @ + n]
  /\ UNCHANGED <<mapped, label, loading, started, broken, result>>

\* preadv() fails, or reads nothing because the file has become shorter.
ReadFails(t) ==
  /\ "read" \in Faults
  /\ t[1] <= started /\ ~Ended(t)
  /\ broken' = broken \cup {t}
  /\ UNCHANGED <<mapped, pool, label, loading, started, pos, result>>

\* Every thread has come to its end without an exception.
NoThreadLeft == /\ started = Len(Sizes[loading])              \* mutant
                /\ \A i \in Shards(loading) : ~Running(i)
AllRead == /\ started = Len(Sizes[loading])
           /\ broken = {}
           /\ \A i \in Shards(loading) : ~Running(i)

\* The label is set last.
LoadDone == /\ loading # None
            /\ AllRead
            /\ loaded_model' = loading /\ loaded_layout' = Layout(loading)
            /\ result' = Returned(loading, FALSE, Layout(loading))
            /\ loading' = None
            /\ UNCHANGED <<mapped, pool, reads>>

\* The exception of the first shard that failed is raised once the shards
\* before it are done; those that have no thread yet are cancelled, those that
\* run are waited for.
LoadFails == /\ loading # None
             /\ \E i \in Shards(loading) : Failed(i)
             /\ \A i \in Shards(loading) : ~Running(i)
             /\ loading' = None
             /\ result' = Raised
             /\ UNCHANGED <<mapped, pool, label, reads>>

Chunk(t) == ReadFails(t) \/ \E n \in 1..PoolSize : ReadChunk(t, n)

Next == \/ Open \/ Close
        \/ \E m \in Models : Refuse(m) \/ Reuse(m) \/ Begin(m)
        \/ StartShard \/ LoadDone \/ LoadFails
        \/ loading # None /\ \E t \in Threads(loading) : Chunk(t)

Spec == Init /\ [][Next]_vars

\* The threads of a load run, and preadv() comes back.
Fairness == /\ WF_vars(StartShard) /\ WF_vars(LoadDone) /\ WF_vars(LoadFails)
            /\ WF_vars(loading # None /\ \E t \in Threads(loading) : Chunk(t))
FairSpec == Spec /\ Fairness
-----------------------------------------------------------------------------
\* A byte of a file, a blank one, and a layout of shards.
Bytes  == (Models \cup {None}) \X Nat \X Nat
Places == [byte_offset : Nat, byte_size : Nat]

(* Every variable keeps to its range; during a load the pool is mapped and  *)
(* large enough, and no chunk thread is ever outside its own chunk.         *)
TypeOK ==
  /\ mapped \in BOOLEAN
  /\ pool \in [0..(PoolSize - 1) -> Bytes]
  /\ loaded_model \in Models \cup {None}
  /\ loaded_layout \in Seq(Places)
  /\ loading \in Models \cup {None}
  /\ started \in Nat
  /\ result \in [model : Models \cup {None}, reused : BOOLEAN, layout : Seq(Places)]
  /\ loading # None =>
       /\ mapped /\ Total(loading) <= PoolSize
       /\ started <= Len(Sizes[loading])
       /\ broken \subseteq Threads(loading)
       /\ pos \in [Threads(loading) -> Nat]
       /\ \A t \in Threads(loading) : pos[t] \in First(loading, t)..End(loading, t)

Holds(layout, m) ==
  \A i \in DOMAIN layout : \A b \in 0..(layout[i].byte_size - 1) :
    pool[layout[i].byte_offset + b] = <<m, i, b>>

(* While no load is under way, the bytes in the pool are those of the model *)
(* on the label, shard by shard at the offsets of the layout: two models    *)
(* never occupy the pool together.                                          *)
LabelTellsContents ==
  loading = None /\ mapped /\ loaded_model # None => Holds(loaded_layout, loaded_model)

(* A call that read the shards and returned a layout filled the pool with   *)
(* exactly the bytes of its model, whatever loads failed before it.         *)
FreshLoadsAreComplete ==
  loading = None /\ mapped /\ result.model # None /\ ~result.reused
    => Holds(result.layout, result.model)

(* A call reads into the bytes its model's layout describes and leaves the  *)
(* rest of the pool alone.                                                  *)
WritesInsideLayout ==
  [][loading # None => \A a \in DOMAIN pool : pool'[a] # pool[a] => a < Total(loading)]_vars

(* Every load comes to an end, with a layout or an exception.               *)
LoadEnds == loading # None ~> loading = None
=============================================================================
