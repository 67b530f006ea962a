-------------------------- MODULE SharedPoolProofs ---------------------------
(***************************************************************************)
(* Proofs about SharedPool, for any models, any numbers and sizes of their *)
(* shards, any pool, any number of chunks, and whatever fails.             *)
(***************************************************************************)
EXTENDS SharedPool, NaturalSets

-----------------------------------------------------------------------------
(* The chunks of a shard of any size: disjoint pieces that leave no byte   *)
(* out, for any number of chunks.                                          *)

\* What the integer division of two naturals returns.
LEMMA Division ==
  ASSUME NEW a \in Nat, NEW d \in Nat \ {0}
  PROVE  /\ a \div d \in Nat
         /\ d * (a \div d) <= a
         /\ a < d * (a \div d) + d
BY SMT

LEMMA MultiplyMonotone ==
  ASSUME NEW a \in Nat, NEW b \in Nat, NEW s \in Nat, a <= b
  PROVE  a * s <= b * s
BY SMT

\* A factor of a product that exceeds a multiple exceeds the other factor.
LEMMA MultiplyCancel ==
  ASSUME NEW a \in Nat, NEW b \in Nat, NEW s \in Nat, a * s < b * s
  PROVE  a < b
<1>1. CASE b <= a
  BY <1>1, MultiplyMonotone
<1>2. QED
  BY <1>1

\* Rounding up: n chunks of this size are enough for sz bytes, and only an
\* empty shard has chunks of size 0.
LEMMA ChunksSuffice ==
  ASSUME NEW sz \in Nat, NEW n \in Nat \ {0}
  PROVE  /\ ChunkSize(sz, n) \in Nat
         /\ sz <= n * ChunkSize(sz, n)
         /\ sz > 0 => ChunkSize(sz, n) > 0
<1> DEFINE s == ChunkSize(sz, n)
<1>1. sz + n - 1 \in Nat
  OBVIOUS
<1>2. s \in Nat /\ sz + n - 1 < n * s + n
  BY <1>1, Division DEF ChunkSize
<1>3. n * s \in Nat
  BY <1>2
<1>4. sz <= n * s
  BY <1>2, <1>3
<1>5. sz > 0 => s > 0
  <2>1. s = 0 => n * s = 0
    OBVIOUS
  <2>2. QED
    BY <1>2, <1>4, <2>1
<1>6. QED
  BY <1>2, <1>4, <1>5

\* Where a chunk begins and ends.
LEMMA ChunkBounds ==
  ASSUME NEW sz \in Nat, NEW n \in Nat \ {0}, NEW c \in 0..(n - 1)
  PROVE  /\ ChunkBegin(sz, n, c) \in Nat
         /\ ChunkEnd(sz, n, c) \in Nat
         /\ ChunkEnd(sz, n, c) <= sz
         /\ ChunkEnd(sz, n, c) <= ChunkBegin(sz, n, c) + ChunkSize(sz, n)
<1>1. ChunkSize(sz, n) \in Nat
  BY ChunksSuffice
<1>2. c * ChunkSize(sz, n) \in Nat
  BY <1>1
<1>3. QED
  BY <1>1, <1>2 DEF ChunkBegin, ChunkEnd

(* Every byte of a shard is read by some chunk thread, so that a load which *)
(* ends without an exception has filled the shard's place in the pool.      *)
THEOREM ChunksCover ==
  ASSUME NEW sz \in Nat, NEW n \in Nat \ {0}, NEW b \in 0..(sz - 1)
  PROVE  \E c \in Chunks(sz, n) : b \in ChunkBytes(sz, n, c)
<1> DEFINE s == ChunkSize(sz, n)
           c == b \div s
<1>1. s \in Nat \ {0} /\ sz <= n * s /\ b \in Nat /\ b < sz
  BY ChunksSuffice
<1>2. c \in Nat /\ s * c <= b /\ b < s * c + s
  BY <1>1, Division
<1>3. c \in 0..(n - 1)
  <2>1. c * s < n * s
    BY <1>1, <1>2
  <2>2. c < n
    BY <1>1, <1>2, <2>1, MultiplyCancel
  <2>3. QED
    BY <1>2, <2>2
<1>4. ChunkBegin(sz, n, c) = s * c
  BY <1>1, <1>2 DEF ChunkBegin
<1>5. b < ChunkEnd(sz, n, c)
  BY <1>1, <1>2, <1>4 DEF ChunkEnd
<1>6. b \in ChunkBytes(sz, n, c)
  BY <1>1, <1>2, <1>3, <1>4, <1>5, ChunkBounds DEF ChunkBytes
<1>7. c \in Chunks(sz, n)
  BY <1>1, <1>2, <1>3, <1>4, <1>5, ChunkBounds DEF Chunks
<1>8. QED
  BY <1>6, <1>7

(* No byte is read by two chunk threads, and none reads past the end of its *)
(* shard into the place of the next one.                                    *)
THEOREM ChunksDisjoint ==
  ASSUME NEW sz \in Nat, NEW n \in Nat \ {0},
         NEW c \in Chunks(sz, n), NEW d \in Chunks(sz, n)
  PROVE  /\ ChunkBytes(sz, n, c) \subseteq 0..(sz - 1)
         /\ c # d => ChunkBytes(sz, n, c) \cap ChunkBytes(sz, n, d) = {}
<1> DEFINE s == ChunkSize(sz, n)
<1>1. s \in Nat /\ c \in 0..(n - 1) /\ d \in 0..(n - 1)
  BY ChunksSuffice DEF Chunks
<1>2. \A x \in 0..(n - 1) : /\ ChunkBegin(sz, n, x) \in Nat
                            /\ ChunkEnd(sz, n, x) \in Nat
                            /\ ChunkEnd(sz, n, x) <= sz
                            /\ ChunkEnd(sz, n, x) <= ChunkBegin(sz, n, x) + s
  BY ChunkBounds
<1>3. ChunkBytes(sz, n, c) \subseteq 0..(sz - 1)
  BY <1>1, <1>2 DEF ChunkBytes
<1>4. ASSUME NEW x \in 0..(n - 1), NEW y \in 0..(n - 1), x < y
      PROVE  ChunkEnd(sz, n, x) <= ChunkBegin(sz, n, y)
  <2>1. x \in Nat /\ x + 1 \in Nat /\ y \in Nat /\ x + 1 <= y
    BY <1>4
  <2>2. (x + 1) * s <= y * s
    BY <1>1, <2>1, MultiplyMonotone
  <2>3. (x + 1) * s = x * s + s
    BY <1>1, <2>1
  <2>4. x * s \in Nat /\ y * s \in Nat
    BY <1>1, <2>1
  <2>5. QED
    BY <1>1, <1>2, <2>2, <2>3, <2>4 DEF ChunkBegin
<1>5. ASSUME NEW b \in ChunkBytes(sz, n, c), b \in ChunkBytes(sz, n, d), c # d
      PROVE  FALSE
  <2>1. /\ b \in Int
        /\ ChunkBegin(sz, n, c) <= b /\ b < ChunkEnd(sz, n, c)
        /\ ChunkBegin(sz, n, d) <= b /\ b < ChunkEnd(sz, n, d)
    BY <1>1, <1>2, <1>5 DEF ChunkBytes
  <2>2. CASE c < d
    BY <1>1, <1>2, <1>4, <2>1, <2>2
  <2>3. CASE d < c
    BY <1>1, <1>2, <1>4, <2>1, <2>3
  <2>4. QED
    BY <1>1, <1>5, <2>2, <2>3
<1>6. QED
  BY <1>3, <1>5
-----------------------------------------------------------------------------
(* The layout.                                                             *)

LEMMA SizesType ==
  ASSUME NEW m \in Models
  PROVE  /\ Len(Sizes[m]) \in Nat /\ Shards(m) = 1..Len(Sizes[m])
         /\ \A i \in Shards(m) : Sizes[m][i] \in Nat
BY SizesAssumption DEF Shards

\* The loop over the sizes of any number of shards ends with some list.
LEMMA OffsetsExist ==
  ASSUME NEW m \in Models
  PROVE  \E f : f = [i \in 0..Len(Sizes[m]) |->
                       IF i = 0 THEN 0 ELSE f[i - 1] + Sizes[m][i]]
<1> DEFINE s == Sizes[m]
           Loop(f, n) == f = [i \in 0..n |-> IF i = 0 THEN 0 ELSE f[i - 1] + s[i]]
           T == {n \in Nat : \E f : Loop(f, n)}
<1>1. 0 \in T
  <2>1. Loop([i \in 0..0 |-> 0], 0)
    OBVIOUS
  <2>2. QED
    BY <2>1
<1>2. ASSUME NEW n \in Nat, n \in T PROVE n + 1 \in T
  <2>1. PICK f : Loop(f, n)
    BY <1>2
  <2> DEFINE g == [i \in 0..(n + 1) |-> IF i = n + 1 THEN f[n] + s[n + 1] ELSE f[i]]
  <2>2. ASSUME NEW i \in 0..(n + 1) PROVE g[i] = IF i = 0 THEN 0 ELSE g[i - 1] + s[i]
    <3>1. CASE i = n + 1
      BY <3>1
    <3>2. CASE i \in 0..n
      BY <2>1, <3>2
    <3>3. QED
      BY <3>1, <3>2
  <2>3. Loop(g, n + 1)
    BY <2>2
  <2> HIDE DEF g
  <2>4. \E h : Loop(h, n + 1)
    BY <2>3
  <2>5. QED
    BY <2>4
<1>3. Len(s) \in Nat
  BY SizesType
<1>4. Len(s) \in T
  <2> HIDE DEF T
  <2>1. T \in SUBSET Nat
    BY DEF T
  <2>2. 0..Len(s) \subseteq T
    BY <1>1, <1>2, <1>3, <2>1, SetInduction
  <2>3. QED
    BY <1>3, <2>2
<1>5. QED
  BY <1>4

LEMMA OffsetsEquation ==
  ASSUME NEW m \in Models
  PROVE  Offsets(m) = [i \in 0..Len(Sizes[m]) |->
                         IF i = 0 THEN 0 ELSE Offsets(m)[i - 1] + Sizes[m][i]]
BY OffsetsExist DEF Offsets

\* A shard ends where the next one begins.
LEMMA OffsetsAdd ==
  ASSUME NEW m \in Models
  PROVE  /\ \A i \in 0..Len(Sizes[m]) : Offsets(m)[i] \in Nat
         /\ \A i \in Shards(m) : Offsets(m)[i] = Offset(m, i) + Sizes[m][i]
<1> DEFINE s   == Sizes[m]
           cur == Offsets(m)
           T   == {i \in 0..Len(s) : cur[i] \in Nat}
<1>1. Len(s) \in Nat /\ \A i \in 1..Len(s) : s[i] \in Nat
  BY SizesType
<1>2. cur[0] = 0 /\ \A i \in 1..Len(s) : cur[i] = cur[i - 1] + s[i]
  BY <1>1, OffsetsEquation
<1> HIDE DEF cur
<1>3. 0 \in T
  BY <1>1, <1>2
<1>4. ASSUME NEW i \in 0..(Len(s) - 1), i \in T PROVE i + 1 \in T
  <2>1. i + 1 \in 1..Len(s) /\ cur[i + 1] = cur[(i + 1) - 1] + s[i + 1] /\ (i + 1) - 1 = i
    BY <1>1, <1>2
  <2>2. QED
    BY <1>1, <1>4, <2>1
<1>5. 0..Len(s) \subseteq T
  <2> HIDE DEF T
  <2>1. T \in SUBSET Nat
    BY <1>1 DEF T
  <2>2. QED
    BY <1>1, <1>3, <1>4, <2>1, SetInduction
<1>6. QED
  BY <1>1, <1>2, <1>5, SizesType DEF cur, Offset

\* Shards lie one behind the other.
LEMMA OffsetsAscend ==
  ASSUME NEW m \in Models, NEW i \in 0..Len(Sizes[m]), NEW j \in i..Len(Sizes[m])
  PROVE  Offsets(m)[i] <= Offsets(m)[j]
<1> DEFINE len == Len(Sizes[m])
           cur == Offsets(m)
           T   == {k \in i..len : cur[i] <= cur[k]}
<1>1. /\ len \in Nat /\ \A k \in 0..len : cur[k] \in Nat
      /\ \A k \in 1..len : Sizes[m][k] \in Nat /\ cur[k] = cur[k - 1] + Sizes[m][k]
  BY SizesType, OffsetsAdd DEF Offset
<1> HIDE DEF cur
<1>2. i \in T
  BY <1>1
<1>3. ASSUME NEW k \in i..(len - 1), k \in T PROVE k + 1 \in T
  <2>1. k + 1 \in 1..len /\ (k + 1) - 1 = k /\ cur[k + 1] = cur[(k + 1) - 1] + Sizes[m][k + 1]
    BY <1>1
  <2>2. QED
    BY <1>1, <1>3, <2>1
<1>4. i..len \subseteq T
  <2> HIDE DEF T
  <2>1. T \in SUBSET Nat
    BY <1>1 DEF T
  <2>2. QED
    BY <1>1, <1>2, <1>3, <2>1, SetInduction
<1>5. QED
  BY <1>1, <1>4 DEF cur

LEMMA ShardPlaces ==
  ASSUME NEW m \in Models, NEW i \in Shards(m)
  PROVE  /\ Offset(m, i) \in Nat /\ Sizes[m][i] \in Nat /\ Total(m) \in Nat
         /\ Offset(m, i) + Sizes[m][i] <= Total(m)
         /\ \A j \in Shards(m) : i < j => Offset(m, i) + Sizes[m][i] <= Offset(m, j)
<1> DEFINE len == Len(Sizes[m])
<1>1. len \in Nat /\ i \in 1..len /\ Shards(m) = 1..len /\ Sizes[m][i] \in Nat
  BY SizesType
<1>2. /\ i - 1 \in 0..len /\ i \in 0..len /\ len \in i..len /\ len \in 0..len
      /\ \A j \in 1..len : i < j => j - 1 \in i..len
  BY <1>1
<1>3. Offset(m, i) \in Nat /\ Total(m) \in Nat
  BY <1>2, OffsetsAdd DEF Offset, Total
<1>4. Offset(m, i) + Sizes[m][i] = Offsets(m)[i]
  BY OffsetsAdd
<1>5. Offsets(m)[i] <= Total(m)
  BY <1>2, OffsetsAscend DEF Total
<1>6. \A j \in Shards(m) : i < j => Offsets(m)[i] <= Offset(m, j)
  BY <1>1, <1>2, OffsetsAscend DEF Offset
<1>7. QED
  BY <1>1, <1>3, <1>4, <1>5, <1>6

LEMMA TotalType ==
  ASSUME NEW m \in Models
  PROVE  Total(m) \in Nat
<1>1. Len(Sizes[m]) \in 0..Len(Sizes[m])
  BY SizesType
<1>2. QED
  BY <1>1, OffsetsAdd DEF Total

LEMMA LayoutType ==
  ASSUME NEW m \in Models
  PROVE  Layout(m) \in Seq(Places)
<1>1. /\ Len(Sizes[m]) \in Nat /\ Shards(m) = 1..Len(Sizes[m])
      /\ \A i \in Shards(m) : Offset(m, i) \in Nat /\ Sizes[m][i] \in Nat
  BY SizesType, ShardPlaces
<1>2. Layout(m) \in [1..Len(Sizes[m]) -> Places]
  BY <1>1 DEF Layout, Places
<1>3. QED
  BY <1>1, <1>2
-----------------------------------------------------------------------------
(* The chunk threads.                                                      *)

LEMMA ThreadPlaces ==
  ASSUME NEW m \in Models, NEW t \in Threads(m)
  PROVE  /\ t = <<t[1], t[2]>> /\ t[1] \in Shards(m)
         /\ t[2] \in Chunks(Sizes[m][t[1]], ChunksPerShard)
         /\ First(m, t) \in Nat /\ End(m, t) \in Nat
         /\ First(m, t) < End(m, t) /\ End(m, t) <= Sizes[m][t[1]]
         /\ First(m, t)..(End(m, t) - 1)
              = ChunkBytes(Sizes[m][t[1]], ChunksPerShard, t[2])
<1>1. /\ t = <<t[1], t[2]>> /\ t[1] \in Shards(m)
      /\ t[2] \in Chunks(Sizes[m][t[1]], ChunksPerShard)
  BY DEF Threads
<1>2. Sizes[m][t[1]] \in Nat
  BY <1>1, SizesType
<1>3. t[2] \in 0..(ChunksPerShard - 1) /\ First(m, t) < End(m, t)
  BY <1>1 DEF Chunks, First, End
<1>4. QED
  BY <1>1, <1>2, <1>3, ChunkBounds, ParametersAssumption DEF First, End, ChunkBytes

\* No two threads read into the same byte of the pool.
LEMMA ThreadsApart ==
  ASSUME NEW m \in Models, NEW t \in Threads(m), NEW u \in Threads(m),
         NEW b \in First(m, t)..(End(m, t) - 1), NEW c \in First(m, u)..(End(m, u) - 1),
         Offset(m, t[1]) + b = Offset(m, u[1]) + c
  PROVE  t = u
<1>1. /\ b \in Nat /\ b < Sizes[m][t[1]]
      /\ c \in Nat /\ c < Sizes[m][u[1]]
  <2>1. Sizes[m][t[1]] \in Nat /\ Sizes[m][u[1]] \in Nat
    BY ThreadPlaces, SizesType
  <2>2. QED
    BY <2>1, ThreadPlaces
<1>2. /\ t[1] \in Shards(m) /\ u[1] \in Shards(m) /\ t[1] \in Nat /\ u[1] \in Nat
  BY ThreadPlaces, SizesType
<1>3. ~ (t[1] < u[1]) /\ ~ (u[1] < t[1])
  BY <1>1, <1>2, ShardPlaces
<1>4. t[1] = u[1]
  BY <1>2, <1>3
<1>5. b = c
  BY <1>1, <1>2, <1>4, ShardPlaces
<1>6. t[2] = u[2]
  <2>1. /\ b \in ChunkBytes(Sizes[m][t[1]], ChunksPerShard, t[2])
        /\ b \in ChunkBytes(Sizes[m][t[1]], ChunksPerShard, u[2])
        /\ t[2] \in Chunks(Sizes[m][t[1]], ChunksPerShard)
        /\ u[2] \in Chunks(Sizes[m][t[1]], ChunksPerShard)
    BY <1>4, <1>5, ThreadPlaces
  <2>2. Sizes[m][t[1]] \in Nat
    BY <1>2, SizesType
  <2>3. QED
    BY <2>1, <2>2, ChunksDisjoint, ParametersAssumption
<1>7. QED
  BY <1>4, <1>6, ThreadPlaces

\* Every byte of every shard has its thread.
LEMMA ThreadsCover ==
  ASSUME NEW m \in Models, NEW i \in Shards(m), NEW b \in 0..(Sizes[m][i] - 1)
  PROVE  \E t \in Threads(m) : t[1] = i /\ b \in First(m, t)..(End(m, t) - 1)
<1>1. Sizes[m][i] \in Nat
  BY SizesType
<1>2. PICK c \in Chunks(Sizes[m][i], ChunksPerShard) :
        b \in ChunkBytes(Sizes[m][i], ChunksPerShard, c)
  BY <1>1, ChunksCover, ParametersAssumption
<1> DEFINE t == <<i, c>>
<1>3. t \in Threads(m) /\ t[1] = i /\ t[2] = c
  BY DEF Threads
<1>4. b \in First(m, t)..(End(m, t) - 1)
  BY <1>2, <1>3, ThreadPlaces
<1>5. QED
  BY <1>3, <1>4

(* Each byte of each shard is read by exactly one chunk thread, and no other *)
(* thread of the load writes to its place in the pool, whatever the sizes of *)
(* the shards and the number of chunks.                                      *)
THEOREM OneThreadPerByte ==
  ASSUME NEW m \in Models, NEW i \in Shards(m), NEW b \in 0..(Sizes[m][i] - 1)
  PROVE  \E t \in Threads(m) :
           /\ t[1] = i /\ b \in First(m, t)..(End(m, t) - 1)
           /\ \A u \in Threads(m) : \A c \in First(m, u)..(End(m, u) - 1) :
                Offset(m, u[1]) + c = Offset(m, i) + b => u = t
<1>1. PICK t \in Threads(m) : t[1] = i /\ b \in First(m, t)..(End(m, t) - 1)
  BY ThreadsCover
<1>2. ASSUME NEW u \in Threads(m), NEW c \in First(m, u)..(End(m, u) - 1),
             Offset(m, u[1]) + c = Offset(m, i) + b
      PROVE  u = t
  BY <1>1, <1>2, ThreadsApart
<1>3. QED
  BY <1>1, <1>2
-----------------------------------------------------------------------------
(* Type correctness.                                                       *)

LEMMA TypeInit == Init => TypeOK
<1>1. <<>> \in Seq(Places)
  OBVIOUS
<1>2. Blank \in Bytes
  BY DEF Blank, Bytes
<1>3. QED
  BY <1>1, <1>2, SizesAssumption DEF Init, TypeOK, Raised

\* What a chunk thread asks for lies in its chunk, and its shard in the pool.
LEMMA ChunkInPool ==
  ASSUME TypeOK, loading \in Models, NEW t \in Threads(loading),
         NEW n \in 1..PoolSize, n <= Remaining(t)
  PROVE  /\ pos[t] \in Nat /\ n \in Nat /\ Place(t) \in Nat
         /\ Offset(loading, t[1]) \in Nat /\ Place(t) = Offset(loading, t[1]) + pos[t]
         /\ First(loading, t) <= pos[t] /\ pos[t] + n <= End(loading, t)
         /\ First(loading, t) \in Nat /\ End(loading, t) \in Nat
         /\ Place(t) + n <= Total(loading)
         /\ Total(loading) \in Nat /\ Total(loading) <= PoolSize
<1>1. loading # None
  BY SizesAssumption
<1>2. /\ pos[t] \in Nat /\ pos[t] \in First(loading, t)..End(loading, t)
      /\ Total(loading) <= PoolSize
  BY <1>1 DEF TypeOK
<1>3. /\ First(loading, t) \in Nat /\ End(loading, t) \in Nat
      /\ t[1] \in Shards(loading) /\ End(loading, t) <= Sizes[loading][t[1]]
  BY ThreadPlaces
<1>4. /\ Offset(loading, t[1]) \in Nat /\ Sizes[loading][t[1]] \in Nat
      /\ Offset(loading, t[1]) + Sizes[loading][t[1]] <= Total(loading)
      /\ Total(loading) \in Nat
  BY <1>3, ShardPlaces
<1>5. PoolSize \in Nat
  BY ParametersAssumption
<1>6. QED
  BY <1>2, <1>3, <1>4, <1>5 DEF Remaining, Place

LEMMA TypeReadChunk ==
  ASSUME TypeOK, loading \in Models, NEW t \in Threads(loading),
         NEW n \in 1..PoolSize, ReadChunk(t, n)
  PROVE  TypeOK'
<1>0. loading # None
  BY SizesAssumption
<1>1. n <= Remaining(t)
  BY DEF ReadChunk
<1>2. /\ pos[t] \in Nat /\ n \in Nat /\ Place(t) \in Nat
      /\ First(loading, t) <= pos[t] /\ pos[t] + n <= End(loading, t)
      /\ First(loading, t) \in Nat /\ End(loading, t) \in Nat
  BY <1>1, ChunkInPool
<1>3. pool' \in [0..(PoolSize - 1) -> Bytes]
  <2>1. t[1] \in Nat
    BY ThreadPlaces, SizesType
  <2>2. ASSUME NEW a \in 0..(PoolSize - 1), a \in Place(t)..(Place(t) + n - 1)
        PROVE  <<loading, t[1], pos[t] + (a - Place(t))>> \in Bytes
    <3>1. pos[t] + (a - Place(t)) \in Nat
      BY <1>2, <2>2
    <3>2. QED
      BY <2>1, <3>1 DEF Bytes
  <2>3. pool \in [0..(PoolSize - 1) -> Bytes]
    BY DEF TypeOK
  <2>4. QED
    BY <2>2, <2>3 DEF ReadChunk
<1>4. pos' = [pos EXCEPT ![t] = @ + n] /\ pos \in [Threads(loading) -> Nat]
  BY <1>0 DEF ReadChunk, TypeOK
<1>5. pos' \in [Threads(loading) -> Nat]
  BY <1>2, <1>4
<1>6. ASSUME NEW u \in Threads(loading)
      PROVE  pos'[u] \in First(loading, u)..End(loading, u)
  <2>1. CASE u = t
    BY <1>2, <1>4, <2>1
  <2>2. CASE u # t
    BY <1>0, <1>4, <2>2 DEF TypeOK
  <2>3. QED
    BY <2>1, <2>2
<1>7. UNCHANGED <<mapped, label, loading, started, broken, result>>
  BY DEF ReadChunk
<1>8. QED
  BY <1>0, <1>3, <1>5, <1>6, <1>7 DEF TypeOK, label

LEMMA TypeStep == TypeOK /\ [Next]_vars => TypeOK'
<1> SUFFICES ASSUME TypeOK, [Next]_vars PROVE TypeOK'
  OBVIOUS
<1>0. None \notin Models /\ <<>> \in Seq(Places) /\ Raised.layout = <<>>
  BY SizesAssumption DEF Raised
<1>1. ASSUME Open PROVE TypeOK'
  <2>1. Blank \in Bytes
    BY DEF Blank, Bytes
  <2>2. pool' \in [0..(PoolSize - 1) -> Bytes]
    BY <1>1, <2>1 DEF Open
  <2>3. QED
    BY <1>1, <2>2 DEF Open, TypeOK, label, reads
<1>2. ASSUME Close PROVE TypeOK'
  BY <1>0, <1>2 DEF Close, TypeOK, label, reads, Raised
<1>3. ASSUME NEW m \in Models, Refuse(m) PROVE TypeOK'
  BY <1>0, <1>3 DEF Refuse, TypeOK, label, reads, Raised
<1>4. ASSUME NEW m \in Models, Reuse(m) PROVE TypeOK'
  BY <1>0, <1>4 DEF Reuse, TypeOK, label, reads, Returned
<1>5. ASSUME NEW m \in Models, Begin(m) PROVE TypeOK'
  <2>1. \A t \in Threads(m) : First(m, t) \in Nat /\ First(m, t) \in First(m, t)..End(m, t)
    BY ThreadPlaces
  <2>2. /\ pos' \in [Threads(m) -> Nat]
        /\ \A t \in Threads(m) : pos'[t] \in First(m, t)..End(m, t)
    BY <1>5, <2>1 DEF Begin
  <2>3. 0 <= Len(Sizes[m])
    BY SizesType
  <2>4. QED
    BY <1>5, <2>2, <2>3 DEF Begin, TypeOK, label
<1>6. ASSUME StartShard PROVE TypeOK'
  <2>1. loading \in Models /\ started \in Nat /\ started < Len(Sizes[loading])
    BY <1>6 DEF StartShard, TypeOK
  <2>2. started + 1 \in Nat /\ started + 1 <= Len(Sizes[loading])
    BY <2>1, SizesType
  <2>3. QED
    BY <1>6, <2>2 DEF StartShard, TypeOK, label
<1>7. ASSUME LoadDone PROVE TypeOK'
  <2>1. loading \in Models
    BY <1>7 DEF LoadDone, TypeOK
  <2>2. Layout(loading) \in Seq(Places)
    BY <2>1, LayoutType
  <2>3. QED
    BY <1>0, <1>7, <2>1, <2>2 DEF LoadDone, TypeOK, reads, Returned
<1>8. ASSUME LoadFails PROVE TypeOK'
  BY <1>0, <1>8 DEF LoadFails, TypeOK, label, reads, Raised
<1>9. ASSUME loading # None, NEW t \in Threads(loading), Chunk(t) PROVE TypeOK'
  <2>1. loading \in Models
    BY <1>9 DEF TypeOK
  <2>2. ASSUME NEW n \in 1..PoolSize, ReadChunk(t, n) PROVE TypeOK'
    BY <2>1, <2>2, TypeReadChunk
  <2>3. ASSUME ReadFails(t) PROVE TypeOK'
    BY <1>9, <2>3 DEF ReadFails, TypeOK, label
  <2>4. QED
    BY <1>9, <2>2, <2>3 DEF Chunk
<1>10. ASSUME UNCHANGED vars PROVE TypeOK'
  BY <1>10 DEF TypeOK, vars, label, reads
<1>11. QED
  BY <1>1, <1>2, <1>3, <1>4, <1>5, <1>6, <1>7, <1>8, <1>9, <1>10 DEF Next

(* Whatever fails and however often the pool is reopened, every variable    *)
(* keeps to its range, and no chunk thread ever leaves its own chunk.       *)
THEOREM PoolTypeCorrect == Spec => []TypeOK
BY TypeInit, TypeStep, PTL DEF Spec
-----------------------------------------------------------------------------
(* What the pool holds.                                                    *)

\* What a chunk thread has read so far is in the pool, at the shard's offset.
ReadSoFar ==
  loading # None =>
    \A t \in Threads(loading) : \A b \in First(loading, t)..(pos[t] - 1) :
      pool[Offset(loading, t[1]) + b] = <<loading, t[1], b>>

\* The layout returned last is void once the pool is closed.
ClosedPoolHasNoLayout == ~mapped => result.model = None

PoolInvariant == /\ TypeOK
                 /\ ReadSoFar
                 /\ ClosedPoolHasNoLayout
                 /\ FreshLoadsAreComplete

LEMMA PoolInit == Init => PoolInvariant
<1>1. Init => TypeOK
  BY TypeInit
<1>2. QED
  BY <1>1 DEF Init, PoolInvariant, ReadSoFar, ClosedPoolHasNoLayout,
              FreshLoadsAreComplete, Raised

\* A thread writes the bytes of its own chunk, where nobody else reads.
LEMMA ReadSoFarReadChunk ==
  ASSUME TypeOK, ReadSoFar, loading \in Models, NEW t \in Threads(loading),
         NEW n \in 1..PoolSize, ReadChunk(t, n)
  PROVE  ReadSoFar'
<1>0. loading # None /\ loading' = loading
  BY SizesAssumption DEF ReadChunk
<1>1. n <= Remaining(t)
  BY DEF ReadChunk
<1>2. /\ pos[t] \in Nat /\ n \in Nat
      /\ Offset(loading, t[1]) \in Nat /\ Place(t) = Offset(loading, t[1]) + pos[t]
      /\ First(loading, t) <= pos[t] /\ pos[t] + n <= End(loading, t)
      /\ First(loading, t) \in Nat /\ End(loading, t) \in Nat
      /\ Total(loading) \in Nat /\ Total(loading) <= PoolSize
  BY <1>1, ChunkInPool
<1>3. /\ pos \in [Threads(loading) -> Nat] /\ pos' = [pos EXCEPT ![t] = @ + n]
      /\ pool \in [0..(PoolSize - 1) -> Bytes]
      /\ pool' = [a \in DOMAIN pool |->
                    IF a \in Place(t)..(Place(t) + n - 1)
                    THEN <<loading, t[1], pos[t] + (a - Place(t))>> ELSE pool[a]]
  BY <1>0 DEF ReadChunk, TypeOK
<1>4. SUFFICES ASSUME NEW u \in Threads(loading),
                      NEW b \in First(loading, u)..(pos'[u] - 1)
               PROVE  pool'[Offset(loading, u[1]) + b] = <<loading, u[1], b>>
  BY <1>0 DEF ReadSoFar
<1> DEFINE a == Offset(loading, u[1]) + b
<1>5. /\ First(loading, u) \in Nat /\ End(loading, u) \in Nat
      /\ u[1] \in Shards(loading) /\ End(loading, u) <= Sizes[loading][u[1]]
  BY ThreadPlaces
<1>6. /\ Offset(loading, u[1]) \in Nat /\ Sizes[loading][u[1]] \in Nat
      /\ Offset(loading, u[1]) + Sizes[loading][u[1]] <= Total(loading)
  BY <1>5, ShardPlaces
<1>7. pos[u] <= End(loading, u) /\ pos[u] \in Nat
  <2>1. pos[u] \in First(loading, u)..End(loading, u) /\ pos[u] \in Nat
    BY <1>0 DEF TypeOK
  <2>2. QED
    BY <1>5, <2>1
<1>8. b \in Nat /\ b < End(loading, u)
  <2>1. CASE u = t
    BY <1>2, <1>3, <2>1
  <2>2. CASE u # t
    BY <1>3, <1>5, <1>7, <2>2
  <2>3. QED
    BY <2>1, <2>2
<1>9. a \in 0..(PoolSize - 1)
  BY <1>2, <1>5, <1>6, <1>8, ParametersAssumption
<1>10. CASE a \in Place(t)..(Place(t) + n - 1)
  <2> DEFINE c == a - Offset(loading, t[1])
  <2>1. c \in First(loading, t)..(End(loading, t) - 1)
    BY <1>2, <1>6, <1>8, <1>10
  <2>2. b \in First(loading, u)..(End(loading, u) - 1)
    BY <1>5, <1>8
  <2>3. Offset(loading, u[1]) + b = Offset(loading, t[1]) + c
    BY <1>2, <1>6, <1>8
  <2>4. u = t
    <3> HIDE DEF a, c
    <3>1. QED
      BY <2>1, <2>2, <2>3, ThreadsApart
  <2>5. pos[t] + (a - Place(t)) = b
    BY <1>2, <1>6, <1>8, <2>4
  <2>6. pool'[a] = <<loading, t[1], pos[t] + (a - Place(t))>>
    <3> HIDE DEF a
    <3>1. QED
      BY <1>3, <1>9, <1>10
  <2>7. QED
    BY <2>4, <2>5, <2>6
<1>11. CASE a \notin Place(t)..(Place(t) + n - 1)
  <2>1. pool'[a] = pool[a]
    <3> HIDE DEF a
    <3>1. QED
      BY <1>3, <1>9, <1>11
  <2>2. b \in First(loading, u)..(pos[u] - 1)
    <3>1. CASE u # t
      BY <1>3, <3>1
    <3>2. CASE u = t
      <4>1. b < pos[t] + n /\ First(loading, u) <= b
        BY <1>2, <1>3, <3>2
      <4>2. b < pos[t]
        BY <1>2, <1>8, <1>11, <3>2, <4>1
      <4>3. QED
        BY <1>2, <1>8, <3>2, <4>1, <4>2
    <3>3. QED
      BY <3>1, <3>2
  <2>3. pool[a] = <<loading, u[1], b>>
    BY <1>0, <2>2 DEF ReadSoFar
  <2>4. QED
    BY <2>1, <2>3
<1>12. QED
  BY <1>10, <1>11

\* When all chunk threads of all shards have come to their end, the pool holds
\* the whole model.
LEMMA AllReadFillsPool ==
  ASSUME TypeOK, ReadSoFar, loading \in Models, AllRead
  PROVE  Holds(Layout(loading), loading)
<1>0. loading # None
  BY SizesAssumption
<1>1. ASSUME NEW i \in Shards(loading), NEW b \in 0..(Sizes[loading][i] - 1)
      PROVE  pool[Offset(loading, i) + b] = <<loading, i, b>>
  <2>1. PICK t \in Threads(loading) :
          t[1] = i /\ b \in First(loading, t)..(End(loading, t) - 1)
    BY <1>1, ThreadsCover
  <2>2. i <= started
    BY <1>1, SizesType DEF AllRead
  <2>3. pos[t] = End(loading, t)
    BY <2>1, <2>2 DEF AllRead, Running, Ended
  <2>4. QED
    BY <1>0, <2>1, <2>3 DEF ReadSoFar
<1>2. /\ DOMAIN Layout(loading) = Shards(loading)
      /\ \A i \in Shards(loading) : /\ Layout(loading)[i].byte_offset = Offset(loading, i)
                                    /\ Layout(loading)[i].byte_size = Sizes[loading][i]
  BY DEF Layout
<1>3. QED
  BY <1>1, <1>2 DEF Holds

LEMMA PoolStep == PoolInvariant /\ [Next]_vars => PoolInvariant'
<1> SUFFICES ASSUME PoolInvariant, [Next]_vars PROVE PoolInvariant'
  OBVIOUS
<1> DEFINE Contents == ReadSoFar /\ ClosedPoolHasNoLayout /\ FreshLoadsAreComplete
<1> USE DEF PoolInvariant
<1>0. TypeOK' /\ Raised.model = None /\ None \notin Models
  BY TypeStep, SizesAssumption DEF Raised
<1>1. ASSUME Open PROVE Contents'
  BY <1>1 DEF Open, TypeOK, ReadSoFar, ClosedPoolHasNoLayout, FreshLoadsAreComplete
<1>2. ASSUME Close PROVE Contents'
  BY <1>0, <1>2 DEF Close, ReadSoFar, ClosedPoolHasNoLayout, FreshLoadsAreComplete
<1>3. ASSUME NEW m \in Models, Refuse(m) PROVE Contents'
  BY <1>0, <1>3 DEF Refuse, ReadSoFar, ClosedPoolHasNoLayout, FreshLoadsAreComplete
<1>4. ASSUME NEW m \in Models, Reuse(m) PROVE Contents'
  BY <1>0, <1>4 DEF Reuse, Returned, ReadSoFar, ClosedPoolHasNoLayout,
                    FreshLoadsAreComplete
<1>5. ASSUME NEW m \in Models, Begin(m) PROVE Contents'
  <2>1. loading' = m /\ mapped /\ mapped' = mapped
    BY <1>5 DEF Begin
  <2>2. ASSUME NEW t \in Threads(m), NEW b \in First(m, t)..(pos'[t] - 1)
        PROVE  FALSE
    <3>1. pos'[t] = First(m, t) /\ First(m, t) \in Nat
      BY <1>5, ThreadPlaces DEF Begin
    <3>2. QED
      BY <2>2, <3>1
  <2>3. QED
    BY <1>0, <2>1, <2>2 DEF ReadSoFar, ClosedPoolHasNoLayout, FreshLoadsAreComplete
<1>6. ASSUME StartShard PROVE Contents'
  BY <1>6 DEF StartShard, TypeOK, ReadSoFar, ClosedPoolHasNoLayout, FreshLoadsAreComplete
<1>7. ASSUME LoadDone PROVE Contents'
  <2>1. loading \in Models /\ mapped /\ mapped' = mapped
    BY <1>7 DEF LoadDone, TypeOK
  <2>2. loading' = None /\ pool' = pool /\ result' = Returned(loading, FALSE, Layout(loading))
    BY <1>7 DEF LoadDone
  <2>3. Holds(Layout(loading), loading)
    BY <1>7, <2>1, AllReadFillsPool DEF LoadDone
  <2>4. Holds(Layout(loading), loading) => Holds(result.layout, result.model)'
    BY <2>2 DEF Holds, Returned
  <2>5. QED
    BY <2>1, <2>2, <2>3, <2>4 DEF ReadSoFar, ClosedPoolHasNoLayout, FreshLoadsAreComplete
<1>8. ASSUME LoadFails PROVE Contents'
  BY <1>0, <1>8 DEF LoadFails, ReadSoFar, ClosedPoolHasNoLayout, FreshLoadsAreComplete
<1>9. ASSUME loading # None, NEW t \in Threads(loading), Chunk(t) PROVE Contents'
  <2>1. loading \in Models
    BY <1>9 DEF TypeOK
  <2>2. ASSUME NEW n \in 1..PoolSize, ReadChunk(t, n) PROVE Contents'
    <3>1. ReadSoFar'
      BY <2>1, <2>2, ReadSoFarReadChunk
    <3>2. QED
      BY <1>9, <2>2, <3>1 DEF ReadChunk, ClosedPoolHasNoLayout, FreshLoadsAreComplete
  <2>3. ASSUME ReadFails(t) PROVE Contents'
    BY <1>9, <2>3 DEF ReadFails, ReadSoFar, ClosedPoolHasNoLayout, FreshLoadsAreComplete
  <2>4. QED
    BY <1>9, <2>2, <2>3 DEF Chunk
<1>10. ASSUME UNCHANGED vars PROVE Contents'
  BY <1>10 DEF vars, label, reads, ReadSoFar, ClosedPoolHasNoLayout,
               FreshLoadsAreComplete, Holds
<1>11. QED
  BY <1>0, <1>1, <1>2, <1>3, <1>4, <1>5, <1>6, <1>7, <1>8, <1>9, <1>10 DEF Next

(* A layout returned by a call that has read the shards describes exactly   *)
(* the bytes of its model, for any sizes of the shards, any number of       *)
(* chunks, any order of their reads, and whatever loads failed before.      *)
THEOREM FreshLayoutsAreComplete == Spec => []FreshLoadsAreComplete
<1>1. PoolInvariant => FreshLoadsAreComplete
  BY DEF PoolInvariant
<1>2. QED
  BY PoolInit, PoolStep, <1>1, PTL DEF Spec
-----------------------------------------------------------------------------
LEMMA StepWritesInside ==
  ASSUME TypeOK, [Next]_vars, loading # None,
         NEW a \in DOMAIN pool, pool'[a] # pool[a]
  PROVE  a < Total(loading)
<1>1. loading \in Models /\ a \in 0..(PoolSize - 1)
  BY DEF TypeOK
<1>2. PICK t \in Threads(loading), n \in 1..PoolSize : ReadChunk(t, n)
  BY DEF Next, vars, Open, Close, Refuse, Reuse, Begin, StartShard, LoadDone,
         LoadFails, Chunk, ReadFails, TypeOK
<1>3. a \in Place(t)..(Place(t) + n - 1)
  BY <1>2 DEF ReadChunk
<1>4. n <= Remaining(t)
  BY <1>2 DEF ReadChunk
<1>5. /\ Place(t) \in Nat /\ n \in Nat /\ Total(loading) \in Nat
      /\ Place(t) + n <= Total(loading)
  BY <1>1, <1>4, ChunkInPool
<1>6. QED
  BY <1>1, <1>3, <1>5

(* No step of a load touches a byte behind the last shard of its model.     *)
THEOREM LoadsWriteInsideLayout == Spec => WritesInsideLayout
<1>1. TypeOK /\ [Next]_vars
        => [loading # None => \A a \in DOMAIN pool :
              pool'[a] # pool[a] => a < Total(loading)]_vars
  BY StepWritesInside
<1>2. QED
  BY PoolTypeCorrect, <1>1, PTL DEF Spec, WritesInsideLayout
-----------------------------------------------------------------------------
(* Without read errors and without a reopened pool.                         *)

Undisturbed == mapped /\ broken = {}

LEMMA LabelStep ==
  ASSUME "read" \notin Faults, "reopen" \notin Faults,
         PoolInvariant, Undisturbed, LabelTellsContents, [Next]_vars
  PROVE  Undisturbed' /\ LabelTellsContents'
<1>1. ASSUME LoadDone PROVE Undisturbed' /\ LabelTellsContents'
  <2>1. loading \in Models /\ pool' = pool
        /\ loaded_model' = loading /\ loaded_layout' = Layout(loading)
    BY <1>1 DEF LoadDone, PoolInvariant, TypeOK
  <2>2. Holds(Layout(loading), loading)
    BY <1>1, <2>1, AllReadFillsPool DEF LoadDone, PoolInvariant
  <2>3. Holds(Layout(loading), loading) => Holds(loaded_layout, loaded_model)'
    BY <2>1 DEF Holds
  <2>4. QED
    BY <1>1, <2>2, <2>3 DEF LoadDone, reads, Undisturbed, LabelTellsContents
<1>2. ASSUME NEW m \in Models, Refuse(m) \/ Reuse(m)
      PROVE  Undisturbed' /\ LabelTellsContents'
  BY <1>2 DEF Refuse, Reuse, label, reads, Undisturbed, LabelTellsContents, Holds
<1>3. ASSUME NEW m \in Models, Begin(m) PROVE Undisturbed' /\ LabelTellsContents'
  BY <1>3, SizesAssumption DEF Begin, Undisturbed, LabelTellsContents
<1>4. ASSUME StartShard PROVE Undisturbed' /\ LabelTellsContents'
  BY <1>4 DEF StartShard, Undisturbed, LabelTellsContents
<1>5. ASSUME loading # None, NEW t \in Threads(loading), Chunk(t)
      PROVE  Undisturbed' /\ LabelTellsContents'
  BY <1>5 DEF Chunk, ReadChunk, ReadFails, Undisturbed, LabelTellsContents
<1>6. ASSUME UNCHANGED vars PROVE Undisturbed' /\ LabelTellsContents'
  BY <1>6 DEF vars, label, reads, Undisturbed, LabelTellsContents, Holds
<1>7. ~Open /\ ~Close /\ ~LoadFails
  BY DEF Open, Close, LoadFails, Failed, Undisturbed
<1>8. QED
  BY <1>1, <1>2, <1>3, <1>4, <1>5, <1>6, <1>7 DEF Next

(* As long as no read fails and the pool is never closed and opened again,  *)
(* the label tells the contents of the pool, and a load answered from the   *)
(* label is as good as one that reads: both hypotheses are needed, as the   *)
(* torn label shows.                                                        *)
THEOREM LabelTellsContentsUndisturbed ==
  ASSUME "read" \notin Faults, "reopen" \notin Faults
  PROVE  Spec => []LabelTellsContents
<1>1. Init => Undisturbed /\ LabelTellsContents
  BY DEF Init, Undisturbed, LabelTellsContents
<1>2. PoolInvariant /\ Undisturbed /\ LabelTellsContents /\ [Next]_vars
        => PoolInvariant' /\ Undisturbed' /\ LabelTellsContents'
  BY PoolStep, LabelStep
<1>3. QED
  BY PoolInit, <1>1, <1>2, PTL DEF Spec
=============================================================================
