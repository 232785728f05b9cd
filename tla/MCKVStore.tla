----------------------------- MODULE MCKVStore -----------------------------
(* A small instance of KVStore.tla for TLC.                                *)
EXTENDS KVStore

CONSTANTS k1, k2, k3, s1, s2

\* k1 and k2 share a shard, k3 has its own.
ThreeKeys == [k \in Keys |-> IF k = k3 THEN s2 ELSE s1]
=============================================================================
