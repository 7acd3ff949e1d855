----------------------------- MODULE RecencyList ----------------------------
(* What the metadata cache promises: the operations of Recency on one list. *)
EXTENDS Recency

CONSTANTS Keys, Values

VARIABLE entries

Init == entries = <<>>

Get(k)    == entries' = Touch(entries, k)
Put(k, d) == entries' = Store(entries, k, d)
Remove(k) == entries' = Drop(entries, k)

Next == \E k \in Keys : Get(k) \/ Remove(k) \/ \E d \in Values : Put(k, d)

Spec == Init /\ [][Next]_entries
=============================================================================
