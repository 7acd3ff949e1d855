------------------------------ MODULE LRUCache ------------------------------
(***************************************************************************)
(* The naming server's metadata cache: nodes on the heap in a doubly       *)
(* linked list and a chained hash table from file names to nodes.  Every   *)
(* call is made with trie_mutex held, so each operation is one step.       *)
(* Recency, extended here, says what the list promises.                    *)
(***************************************************************************)
EXTENDS Recency, FiniteSets

CONSTANTS Keys, Values,
          Nodes,      \* addresses calloc may return for a CacheNode
          Null,
          Buckets,    \* bucket numbers of the hash table
          Hash        \* hash_filename(key) % capacity

ASSUME CacheAssumption ==
  /\ IsFiniteSet(Nodes)
  /\ Cardinality(Nodes) > Capacity
  /\ Hash \in [Keys -> Buckets]
  /\ Null \notin Nodes \cup Keys \cup Values

VARIABLES
  live,          \* allocated nodes
  key, data,     \* fields of a node
  prev, next,
  head, tail, size,
  buckets        \* the chains of the hash table

list == <<prev, next, head, tail>>
vars == <<live, key, data, list, size, buckets>>

Links == Nodes \cup {Null}

Init ==
  /\ live = {}
  /\ key = [n \in Nodes |-> Null]
  /\ data = [n \in Nodes |-> Null]
  /\ prev = [n \in Nodes |-> Null]
  /\ next = [n \in Nodes |-> Null]
  /\ head = Null /\ tail = Null
  /\ size = 0
  /\ buckets = [b \in Buckets |-> <<>>]

----------------------------------------------------------------------------
(* The hash table *)

Chain(k) == buckets[Hash[k]]

InChain(c, k) == {i \in DOMAIN c : c[i].key = k}

\* ht_get: the first entry of the chain with this key.
Lookup(k) ==
  LET hits == InChain(Chain(k), k)
  IN  IF hits = {} THEN Null
      ELSE Chain(k)[CHOOSE i \in hits : \A j \in hits : i <= j].node

\* ht_put of a key that is not there: a new entry before the others.
HtPut(bs, k, n) ==
  [bs EXCEPT ![Hash[k]] = <<[key |-> k, node |-> n]>> \o @]

\* ht_remove: the first entry of the chain with this key.
\* Faulty variant: the rest of the chain is lost with it.
HtRemoveRest(bs, k) ==
  LET c == bs[Hash[k]]
      hits == InChain(c, k)
      p == CHOOSE i \in hits : \A j \in hits : i <= j
  IN  IF hits = {} THEN bs ELSE [bs EXCEPT ![Hash[k]] = SubSeq(c, 1, p - 1)]

HtRemove(bs, k) ==
  LET c == bs[Hash[k]]
      hits == InChain(c, k)
      p == CHOOSE i \in hits : \A j \in hits : i <= j
  IN  IF hits = {} THEN bs
      ELSE [bs EXCEPT ![Hash[k]] = Without(c, p)]

----------------------------------------------------------------------------
(* The linked list: a list is the record of its four parts *)

Current == [prev |-> prev, next |-> next, head |-> head, tail |-> tail]

Update(f, n, v) == IF n = Null THEN f ELSE [f EXCEPT ![n] = v]

\* detach_node.  Faulty variant: the tail is not moved.
DetachKeepingTail(l, n) ==
  [prev |-> [Update(l.prev, l.next[n], l.prev[n]) EXCEPT ![n] = Null],
   next |-> [Update(l.next, l.prev[n], l.next[n]) EXCEPT ![n] = Null],
   head |-> IF l.head = n THEN l.next[n] ELSE l.head,
   tail |-> l.tail]

Detach(l, n) ==
  [prev |-> [Update(l.prev, l.next[n], l.prev[n]) EXCEPT ![n] = Null],
   next |-> [Update(l.next, l.prev[n], l.next[n]) EXCEPT ![n] = Null],
   head |-> IF l.head = n THEN l.next[n] ELSE l.head,
   tail |-> IF l.tail = n THEN l.prev[n] ELSE l.tail]

AttachFront(l, n) ==
  [prev |-> [Update(l.prev, l.head, n) EXCEPT ![n] = Null],
   next |-> [l.next EXCEPT ![n] = l.head],
   head |-> n,
   tail |-> IF l.tail = Null THEN n ELSE l.tail]

Becomes(l) ==
  /\ prev' = l.prev
  /\ next' = l.next
  /\ head' = l.head
  /\ tail' = l.tail

----------------------------------------------------------------------------
(* cache_get, cache_put, cache_remove *)

Get(k) ==
  LET n == Lookup(k)
  IN  /\ n # Null
      /\ Becomes(AttachFront(Detach(Current, n), n))
      /\ UNCHANGED <<live, key, data, size, buckets>>

\* Faulty variant: new data, old place.
RefreshUnmoved(k, d) ==
  LET n == Lookup(k)
  IN  /\ n # Null
      /\ data' = [data EXCEPT ![n] = d]
      /\ UNCHANGED list
      /\ UNCHANGED <<live, key, size, buckets>>

Refresh(k, d) ==
  LET n == Lookup(k)
  IN  /\ n # Null
      /\ data' = [data EXCEPT ![n] = d]
      /\ Becomes(AttachFront(Detach(Current, n), n))
      /\ UNCHANGED <<live, key, size, buckets>>

\* A new node; when there is one too many the tail is evicted.
Insert(k, d, n) ==
  LET added  == AttachFront(Current, n)
      victim == added.tail
      evict  == size + 1 > Capacity /\ victim # Null
  IN  /\ Lookup(k) = Null
      /\ n \notin live
      /\ key' = [key EXCEPT ![n] = k]
      /\ data' = [data EXCEPT ![n] = d]
      /\ Becomes(IF evict THEN Detach(added, victim) ELSE added)
      /\ buckets' = IF evict THEN HtRemove(HtPut(buckets, k, n), key[victim])
                             ELSE HtPut(buckets, k, n)
      /\ live' = IF evict THEN (live \cup {n}) \ {victim} ELSE live \cup {n}
      /\ size' = IF evict THEN size ELSE size + 1

Remove(k) ==
  LET n == Lookup(k)
  IN  /\ n # Null
      /\ Becomes(Detach(Current, n))
      /\ buckets' = HtRemove(buckets, k)
      /\ live' = live \ {n}
      /\ size' = IF size > 0 THEN size - 1 ELSE size
      /\ UNCHANGED <<key, data>>

Next ==
  \E k \in Keys :
    \/ Get(k)
    \/ \E d \in Values : Refresh(k, d) \/ \E n \in Nodes : Insert(k, d, n)
    \/ Remove(k)

Spec == Init /\ [][Next]_vars

----------------------------------------------------------------------------
(* Properties *)

TypeOK ==
  /\ live \subseteq Nodes
  /\ key \in [Nodes -> Keys \cup {Null}]
  /\ data \in [Nodes -> Values \cup {Null}]
  /\ prev \in [Nodes -> Links] /\ next \in [Nodes -> Links]
  /\ head \in Links /\ tail \in Links
  /\ size \in 0..Capacity
  /\ buckets \in [Buckets -> Seq([key : Keys, node : Nodes])]

\* The links of the list agree with one another: detach_node and attach_front
\* leave no node that is reached from one side only, and none that was freed;
\* size counts the nodes, and an insertion into a full cache evicts one.
Linked ==
  /\ size = Cardinality(live) /\ size <= Capacity
  /\ \A n \in live : next[n] # Null => next[n] \in live /\ prev[next[n]] = n
  /\ \A n \in live : prev[n] # Null => prev[n] \in live /\ next[prev[n]] = n
  /\ \A n \in live : (prev[n] = Null <=> head = n) /\ (next[n] = Null <=> tail = n)
  /\ head \in live \cup {Null} /\ tail \in live \cup {Null}
  /\ (head = Null <=> live = {}) /\ (tail = Null <=> live = {})

\* The hash table finds exactly the nodes of the list, each under its name:
\* no entry of the table points to a node that cache_put or cache_remove freed.
MapExact ==
  /\ \A b \in Buckets : \A i \in DOMAIN buckets[b] :
       /\ buckets[b][i].node \in live
       /\ key[buckets[b][i].node] = buckets[b][i].key
  /\ \A n \in live : Lookup(key[n]) = n

\* The n nodes of a list, walked from its head.
Order(first, follows, n) ==
  LET at[i \in 1..n] == IF i = 1 THEN first ELSE follows[at[i - 1]]
  IN  at

\* The list as its nodes tell it.
Walk ==
  LET at == Order(head, next, size)
  IN  [i \in 1..size |-> [key |-> key[at[i]], data |-> data[at[i]]]]

Lru == INSTANCE RecencyList WITH entries <- Walk

\* Step for step: cache_get, cache_put and cache_remove each do to the list
\* what their counterparts promise, so a lookup counts as a use.
CallsAgree ==
  \A k \in Keys :
    /\ Get(k) => Lru!Get(k)
    /\ Remove(k) => Lru!Remove(k)
    /\ \A d \in Values :
         Refresh(k, d) \/ (\E n \in Nodes : Insert(k, d, n)) => Lru!Put(k, d)

\* The pointers implement the list in the order of use, each call by its own
\* counterpart: what is evicted is always what was used longest ago, and
\* nothing else ever disappears.
ImplementsRecency == Lru!Spec /\ [][CallsAgree]_vars
=============================================================================
