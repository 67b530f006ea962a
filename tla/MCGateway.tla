------------------------------ MODULE MCGateway ------------------------------
(***************************************************************************)
(* Small instances of Gateway for TLC: two or three models, two or three   *)
(* requests, one admin call, and the sets of faults that the runs allow.   *)
(***************************************************************************)
EXTENDS Gateway, TLC

CONSTANTS m1, m2, m3

\* The models, in the order of their names.
TwoModels   == {m1, m2}
ThreeModels == {m1, m2, m3}
NameOrder   == [m \in Models |-> CASE m = m1 -> 1 [] m = m2 -> 2 [] OTHER -> 3]

NoFault   == {}
LoadFault == {"spawn", "vram"}
AnyFault  == {"pool", "spawn", "vram", "gofile", "cancel"}
PoolFault == {"pool"}
SpawnFault == {"spawn"}
VramFault == {"vram"}
PoolVramFault == {"pool", "vram"}

\* Requests are alike; used in runs without liveness properties.
RequestSymmetry == Permutations(Requests)
=============================================================================
