----------------------------- MODULE MCColdStart -----------------------------
(***************************************************************************)
(* Small instances of ColdStart for TLC: three models with shards of the   *)
(* same names.  a is published again, with a shard less and under a commit *)
(* hash that sorts after the first; c is too large for the pool.           *)
(***************************************************************************)
EXTENDS ColdStart

CONSTANTS a, b, c, d1, d2

ThreeModels == {a, b, c}
ShardFiles == [m \in ThreeModels |-> CASE m = a -> <<{1, 2}, {1}>>
                                       [] m = b -> <<{1}>>
                                       [] OTHER -> <<{1, 2, 3}>>]
HashOrder == [m \in ThreeModels |-> <<1, 2>>]
FirstSnapshots == {<<a, 1>>, <<b, 1>>, <<c, 1>>}
NoSnapshot == {}
TwoDrivers == {d1, d2}

NoFault == {}
AnyFault == {"update", "download", "read", "spawn", "smi", "disk", "restart", "reboot"}
=============================================================================
