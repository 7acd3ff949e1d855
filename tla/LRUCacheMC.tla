----------------------------- MODULE LRUCacheMC -----------------------------
(* Four names in two buckets, so that chains hold up to two entries, and    *)
(* room for three.                                                          *)
EXTENDS LRUCache, TLC

MCHash == [k \in Keys |-> IF k \in {"a", "b"} THEN 1 ELSE 2]

NodeSymmetry == Permutations(Nodes)
=============================================================================
