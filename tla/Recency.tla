------------------------------- MODULE Recency ------------------------------
(***************************************************************************)
(* A list of at most Capacity entries with different keys, the most        *)
(* recently used first.  Using an entry moves it to the front, a new entry *)
(* pushes out the last one.                                                *)
(***************************************************************************)
EXTENDS Integers, Sequences

CONSTANT Capacity

ASSUME CapacityAssumption == Capacity \in Nat \ {0}

Cached(c, k) == \E i \in DOMAIN c : c[i].key = k
Position(c, k) == CHOOSE i \in DOMAIN c : c[i].key = k

Distinct(c) == \A i, j \in DOMAIN c : c[i].key = c[j].key => i = j

Without(c, i) == SubSeq(c, 1, i - 1) \o SubSeq(c, i + 1, Len(c))
ToFront(c, i, e) == <<e>> \o Without(c, i)

\* An entry that is read is now the most recent one.
Touch(c, k) ==
  IF Cached(c, k) THEN ToFront(c, Position(c, k), c[Position(c, k)]) ELSE c

Store(c, k, d) ==
  LET e == [key |-> k, data |-> d]
      n == IF Len(c) < Capacity THEN Len(c) ELSE Capacity - 1
  IN  IF Cached(c, k) THEN ToFront(c, Position(c, k), e)
                      ELSE <<e>> \o SubSeq(c, 1, n)

Drop(c, k) == IF Cached(c, k) THEN Without(c, Position(c, k)) ELSE c
=============================================================================
