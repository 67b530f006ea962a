----------------------------- MODULE ShardChunks -----------------------------
(***************************************************************************)
(* The arithmetic of _read_one_shard() in blitzinfer/loader/shared_pool.py:*)
(* how a shard of sz bytes is cut into n chunks that are read in parallel. *)
(* A chunk c of 0..n-1 covers the bytes ChunkBegin to ChunkEnd - 1; one    *)
(* that would be empty is not submitted.                                   *)
(***************************************************************************)
EXTENDS Integers

ChunkSize(sz, n)  == (sz + n - 1) \div n
ChunkBegin(sz, n, c) == c * ChunkSize(sz, n)
ChunkEndUnclipped(sz, n, c) == (c + 1) * ChunkSize(sz, n)     \* mutant
ChunkEnd(sz, n, c) ==
  LET end == ChunkBegin(sz, n, c) + ChunkSize(sz, n)
  IN  IF end <= sz THEN end ELSE sz
Chunks(sz, n) == {c \in 0..(n - 1) : ChunkBegin(sz, n, c) < ChunkEnd(sz, n, c)}

ChunkBytes(sz, n, c) == ChunkBegin(sz, n, c)..(ChunkEnd(sz, n, c) - 1)
=============================================================================
