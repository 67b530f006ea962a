----------------------------- MODULE MCSharedPool -----------------------------
(***************************************************************************)
(* A pool of five bytes for TLC, and three models: one that fills it, one  *)
(* with an empty shard and a shard of one byte, one that does not fit.     *)
(***************************************************************************)
EXTENDS SharedPool

CONSTANTS fills, ragged, tooBig

AllModels == {fills, ragged, tooBig}
ShardSizes == [m \in AllModels |-> CASE m = fills  -> <<2, 3>>
                                     [] m = ragged -> <<1, 0, 3>>
                                     [] OTHER      -> <<3, 3>>]
NoFault     == {}
ReadFault   == {"read"}
AnyFault    == {"read", "reopen"}
=============================================================================
