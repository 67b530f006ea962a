---------------------------- MODULE ProfileCache ----------------------------
(***************************************************************************)
(* blitzinfer/loader/profile_cache.py: the directory that keeps, for each  *)
(* model and GPU, the num_gpu_blocks that a cold load measured, so that    *)
(* later loads need not measure it again.                                  *)
(*                                                                         *)
(* A number of blocks is told apart by the load that measured it.  What    *)
(* nvidia-smi and the registry contribute to the key is one value, the     *)
(* driver, or Unknown when nvidia-smi fails.  get() answers None for a     *)
(* file that is missing, torn or without num_gpu_blocks alike, so a file   *)
(* is the set of the profiles that can be read from it: none, or one.      *)
(***************************************************************************)
CONSTANTS
  Models,
  Revisions,     \* of a model in the HF hub
  Drivers,
  Unknown        \* _driver_version() when nvidia-smi fails

VARIABLES
  entries,       \* per key what can be read from <sha16>.json
  tmp,           \* the same for <sha16>.tmp
  unsynced       \* entries renamed into place since the host booted

Readings == Drivers \cup {Unknown}
\* Of a load, and what put() read and saved with it as part of "key".
Profiles == [model : Models, revision : Revisions, driver : Drivers, reading : Readings]
Keys == Models \X Readings
Contents == {{}} \cup {{p} : p \in Profiles}

KeyWithoutDriver(m, read) == <<m, Unknown>>                    \* mutant
Key(m, read) == <<m, read>>

CacheInit == /\ entries = [k \in Keys |-> {}]
             /\ tmp = [k \in Keys |-> {}]
             /\ unsynced = {}

Get(k) == entries[k]

\* put(): open <sha16>.tmp, which truncates what a crash may have left there,
\* fill it, and rename it over the entry.
OpenInPlace(k) == /\ entries' = [entries EXCEPT ![k] = {}]     \* mutant
                  /\ UNCHANGED <<tmp, unsynced>>
PutOpen(k) == /\ tmp' = [tmp EXCEPT ![k] = {}]
              /\ UNCHANGED <<entries, unsynced>>
PutDump(k, p) == /\ tmp' = [tmp EXCEPT ![k] = {p}]
                 /\ UNCHANGED <<entries, unsynced>>
PutRename(k) == /\ entries' = [entries EXCEPT ![k] = tmp[k]]
                /\ tmp' = [tmp EXCEPT ![k] = {}]
                /\ unsynced' = unsynced \cup {k}

\* The host goes down.  Nothing is fsynced, so an entry renamed since it
\* booted may come back with its name and without its contents.
HostLoses(lost) ==
  /\ lost \subseteq unsynced
  /\ entries' = [k \in Keys |-> IF k \in lost THEN {} ELSE entries[k]]
  /\ unsynced' = {}
  /\ UNCHANGED tmp

CacheTypeOK == /\ entries \in [Keys -> Contents]
               /\ tmp \in [Keys -> Contents]
               /\ unsynced \subseteq Keys
=============================================================================
