--------------------------- MODULE LRUCacheProofs ---------------------------
(***************************************************************************)
(* The metadata cache for any capacity, any names, values and addresses    *)
(* and any hash function: the links of the list agree with one another,    *)
(* the table finds exactly the nodes of the list, and the pointers         *)
(* implement the list in the order of use.                                 *)
(***************************************************************************)
EXTENDS LRUCache, FiniteSetTheorems, SequenceTheorems, NaturalsInduction, WellFoundedInduction, TLAPS

-----------------------------------------------------------------------------
(* Taking an entry out of a list and putting one at its front.               *)

\* The entry is one of the list's.
Listed(e, c) == \E i \in DOMAIN c : c[i] = e

LEMMA WithoutElements ==
  ASSUME NEW E, NEW c \in Seq(E), NEW i \in DOMAIN c
  PROVE  /\ Without(c, i) \in Seq(E)
         /\ Len(Without(c, i)) = Len(c) - 1
         /\ \A j \in 1..(Len(c) - 1) :
              Without(c, i)[j] = IF j < i THEN c[j] ELSE c[j + 1]
<1> DEFINE a == SubSeq(c, 1, i - 1)
           b == SubSeq(c, i + 1, Len(c))
<1>1. i \in 1..Len(c) /\ Len(c) \in Nat /\ \A j \in 1..Len(c) : c[j] \in E
  BY LenProperties, ElementOfSeq
<1>2. /\ a \in Seq(E) /\ Len(a) = i - 1
      /\ \A j \in 1..(i - 1) : a[j] = c[j]
  <2>1. \A j \in 1..(i - 1) : c[j] \in E
    BY <1>1
  <2> HIDE DEF a
  <2>2. /\ SubSeq(c, 1, i - 1) \in Seq(E)
        /\ Len(SubSeq(c, 1, i - 1)) = IF 1 <= i - 1 THEN i - 1 - 1 + 1 ELSE 0
        /\ \A j \in 1..(i - 1 - 1 + 1) : SubSeq(c, 1, i - 1)[j] = c[1 + j - 1]
    BY <1>1, <2>1, SubSeqProperties
  <2> QED
    BY <1>1, <2>2 DEF a
<1>3. /\ b \in Seq(E) /\ Len(b) = Len(c) - i
      /\ \A j \in 1..(Len(c) - i) : b[j] = c[i + j]
  <2>1. \A j \in (i + 1)..Len(c) : c[j] \in E
    BY <1>1
  <2>2. /\ SubSeq(c, i + 1, Len(c)) \in Seq(E)
        /\ Len(SubSeq(c, i + 1, Len(c))) = IF i + 1 <= Len(c) THEN Len(c) - (i + 1) + 1 ELSE 0
        /\ \A j \in 1..(Len(c) - (i + 1) + 1) : SubSeq(c, i + 1, Len(c))[j] = c[i + 1 + j - 1]
    BY <1>1, <2>1, SubSeqProperties
  <2> QED
    BY <1>1, <2>2
<1> HIDE DEF a, b
<1>4. /\ a \o b \in Seq(E)
      /\ Len(a \o b) = Len(a) + Len(b)
      /\ \A j \in 1..(Len(a) + Len(b)) :
           (a \o b)[j] = IF j <= Len(a) THEN a[j] ELSE b[j - Len(a)]
  BY <1>2, <1>3, ConcatProperties
<1>5. Without(c, i) = a \o b
  BY DEF Without, a, b
<1>6. ASSUME NEW j \in 1..(Len(c) - 1)
      PROVE  (a \o b)[j] = IF j < i THEN c[j] ELSE c[j + 1]
  <2>1. CASE j < i
    BY <1>1, <1>2, <1>3, <1>4, <2>1, SMTT(30)
  <2>2. CASE ~(j < i)
    <3>1. (a \o b)[j] = b[j - (i - 1)]
      <4>1. Len(a) = i - 1 /\ Len(b) = Len(c) - i
        BY <1>2, <1>3
      <4>2. j \in 1..(Len(a) + Len(b)) /\ ~(j <= Len(a))
        BY <1>1, <2>2, <4>1
      <4>3. (a \o b)[j] = b[j - Len(a)]
        BY <1>4, <4>2
      <4> QED
        BY <4>1, <4>3
    <3>2. b[j - (i - 1)] = c[i + (j - (i - 1))]
      BY <1>1, <1>3, <2>2
    <3> QED
      BY <1>1, <2>2, <3>1, <3>2
  <2> QED
    BY <2>1, <2>2
<1>7. Len(a \o b) = Len(c) - 1
  <2>1. Len(a) = i - 1 /\ Len(b) = Len(c) - i /\ Len(a \o b) = Len(a) + Len(b)
    BY <1>2, <1>3, <1>4
  <2> QED
    BY <1>1, <2>1
<1>8. a \o b \in Seq(E)
  BY <1>4
<1> QED
  BY <1>5, <1>6, <1>7, <1>8

\* A list without one of its entries.
LEMMA WithoutEntries ==
  ASSUME NEW E, NEW c \in Seq(E), Distinct(c), NEW i \in DOMAIN c
  PROVE  /\ Without(c, i) \in Seq(E)
         /\ Distinct(Without(c, i))
         /\ \A j \in DOMAIN Without(c, i) :
              /\ Listed(Without(c, i)[j], c)
              /\ Without(c, i)[j].key # c[i].key
<1> DEFINE w == Without(c, i)
           at(j) == IF j < i THEN j ELSE j + 1
<1>1. /\ w \in Seq(E) /\ Len(w) = Len(c) - 1
      /\ \A j \in 1..(Len(c) - 1) : w[j] = c[at(j)]
  BY WithoutElements
<1>2. i \in 1..Len(c) /\ Len(c) \in Nat /\ DOMAIN c = 1..Len(c) /\ DOMAIN w = 1..(Len(c) - 1)
  BY <1>1, LenProperties
<1>3. \A j \in DOMAIN w : w[j] = c[at(j)] /\ at(j) \in DOMAIN c /\ at(j) # i
  BY <1>1, <1>2
<1>4. \A j, k \in DOMAIN w : at(j) = at(k) => j = k
  BY <1>2
<1> HIDE DEF w, at
<1>5. Distinct(w)
  BY <1>3, <1>4 DEF Distinct
<1>6. \A j \in DOMAIN w : Listed(w[j], c) /\ w[j].key # c[i].key
  BY <1>2, <1>3 DEF Distinct, Listed
<1> QED
  BY <1>1, <1>5, <1>6 DEF w

\* One entry more at the front, with a key of its own.
LEMMA FrontEntries ==
  ASSUME NEW E, NEW w \in Seq(E), Distinct(w), NEW e \in E,
         \A j \in DOMAIN w : w[j].key # e.key
  PROVE  /\ <<e>> \o w \in Seq(E)
         /\ Distinct(<<e>> \o w)
         /\ \A j \in DOMAIN (<<e>> \o w) :
              (<<e>> \o w)[j] = e \/ Listed((<<e>> \o w)[j], w)
<1>1. <<e>> \in Seq(E) /\ Len(<<e>>) = 1 /\ <<e>>[1] = e
  OBVIOUS
<1> DEFINE r == <<e>> \o w
<1>2. /\ r \in Seq(E) /\ Len(r) = 1 + Len(w)
      /\ \A j \in 1..(1 + Len(w)) : r[j] = IF j <= 1 THEN <<e>>[j] ELSE w[j - 1]
  BY <1>1, ConcatProperties
<1>3. DOMAIN w = 1..Len(w) /\ Len(w) \in Nat /\ DOMAIN r = 1..(1 + Len(w))
  BY <1>2, LenProperties
<1>4. r[1] = e /\ \A j \in DOMAIN r : j # 1 => j - 1 \in DOMAIN w /\ r[j] = w[j - 1]
  BY <1>1, <1>2, <1>3
<1> HIDE DEF r
<1>5. \A j \in DOMAIN r : r[j] = e \/ Listed(r[j], w)
  BY <1>4 DEF Listed
<1>6. Distinct(r)
  <2> SUFFICES ASSUME NEW j \in DOMAIN r, NEW k \in DOMAIN r, r[j].key = r[k].key
               PROVE  j = k
    BY DEF Distinct
  <2>1. CASE j = 1 \/ k = 1
    BY <1>4, <2>1
  <2>2. CASE j # 1 /\ k # 1
    <3>1. j - 1 \in DOMAIN w /\ k - 1 \in DOMAIN w /\ w[j - 1].key = w[k - 1].key
      BY <1>4, <2>2
    <3>2. j - 1 = k - 1
      BY <3>1 DEF Distinct
    <3> QED
      BY <1>3, <3>2
  <2> QED
    BY <2>1, <2>2
<1> QED
  BY <1>2, <1>5, <1>6 DEF r

LEMMA PositionFound ==
  ASSUME NEW c, NEW k, Cached(c, k)
  PROVE  Position(c, k) \in DOMAIN c /\ c[Position(c, k)].key = k
BY DEF Cached, Position

-----------------------------------------------------------------------------
(* The list as a sequence.                                                  *)

\* The record l of links holds the nodes of q, in this order.
Lists(l, q) ==
  /\ q \in Seq(Nodes) /\ \A i, j \in DOMAIN q : q[i] = q[j] => i = j
  /\ l.prev \in [Nodes -> Links] /\ l.next \in [Nodes -> Links]
  /\ l.head = IF q = <<>> THEN Null ELSE q[1]
  /\ l.tail = IF q = <<>> THEN Null ELSE q[Len(q)]
  /\ \A i \in DOMAIN q :
       /\ l.prev[q[i]] = IF i = 1 THEN Null ELSE q[i - 1]
       /\ l.next[q[i]] = IF i = Len(q) THEN Null ELSE q[i + 1]

In(n, q) == \E i \in DOMAIN q : q[i] = n

LEMMA SeqRange ==
  ASSUME NEW E, NEW q \in Seq(E)
  PROVE  /\ DOMAIN q = 1..Len(q) /\ Len(q) \in Nat /\ \A i \in 1..Len(q) : q[i] \in E
         /\ q = <<>> <=> Len(q) = 0
BY LenProperties, ElementOfSeq, EmptySeq

\* A node in front of others.
LEMMA FrontElements ==
  ASSUME NEW E, NEW w \in Seq(E), NEW e \in E
  PROVE  /\ <<e>> \o w \in Seq(E) /\ Len(<<e>> \o w) = Len(w) + 1
         /\ (<<e>> \o w)[1] = e
         /\ \A i \in 1..Len(w) : (<<e>> \o w)[i + 1] = w[i]
         /\ \A i \in 2..(Len(w) + 1) : (<<e>> \o w)[i] = w[i - 1]
<1>1. <<e>> \in Seq(E) /\ Len(<<e>>) = 1 /\ <<e>>[1] = e
  OBVIOUS
<1>2. PICK s : s = <<e>>
  OBVIOUS
<1>3. /\ s \o w \in Seq(E) /\ Len(s \o w) = Len(s) + Len(w)
      /\ \A i \in 1..(Len(s) + Len(w)) : (s \o w)[i] = IF i <= Len(s) THEN s[i] ELSE w[i - Len(s)]
  BY <1>1, <1>2, ConcatProperties
<1>4. Len(s) = 1 /\ s[1] = e /\ Len(w) \in Nat
  BY <1>1, <1>2, SeqRange
<1>5. \A i \in 2..(Len(w) + 1) : (s \o w)[i] = w[i - 1]
  BY <1>3, <1>4
<1>6. \A i \in 1..Len(w) : (s \o w)[i + 1] = w[i]
  BY <1>3, <1>4
<1> QED
  BY <1>2, <1>3, <1>4, <1>5, <1>6

\* attach_front puts the node before the others.
LEMMA AttachLists ==
  ASSUME NEW l, NEW q, Lists(l, q), NEW n \in Nodes, ~In(n, q)
  PROVE  Lists(AttachFront(l, n), <<n>> \o q)
<1> DEFINE r == <<n>> \o q
           a == AttachFront(l, n)
<1>0. Null \notin Nodes
  BY CacheAssumption
<1>1. /\ q \in Seq(Nodes) /\ DOMAIN q = 1..Len(q) /\ Len(q) \in Nat
      /\ \A i \in 1..Len(q) : q[i] \in Nodes /\ q[i] # n
      /\ q = <<>> <=> Len(q) = 0
  BY SeqRange DEF Lists, In
<1>2. /\ r \in Seq(Nodes) /\ Len(r) = Len(q) + 1 /\ r[1] = n
      /\ \A i \in 2..(Len(q) + 1) : r[i] = q[i - 1]
      /\ DOMAIN r = 1..(Len(q) + 1) /\ r # <<>>
  <2>1. /\ r \in Seq(Nodes) /\ Len(r) = Len(q) + 1 /\ r[1] = n
        /\ \A i \in 2..(Len(q) + 1) : r[i] = q[i - 1]
    BY <1>1, FrontElements
  <2> HIDE DEF r
  <2> QED
    BY <1>1, <2>1, SeqRange
<1> HIDE DEF r
<1>3. \A i, j \in DOMAIN r : r[i] = r[j] => i = j
  <2> SUFFICES ASSUME NEW i \in 1..(Len(q) + 1), NEW j \in 1..(Len(q) + 1), r[i] = r[j]
               PROVE  i = j
    BY <1>2
  <2>1. CASE i = 1 \/ j = 1
    BY <1>1, <1>2, <2>1
  <2>2. CASE i # 1 /\ j # 1
    <3>1. i - 1 \in DOMAIN q /\ j - 1 \in DOMAIN q /\ q[i - 1] = q[j - 1]
      BY <1>1, <1>2, <2>2
    <3>2. i - 1 = j - 1
      BY <3>1 DEF Lists
    <3> QED
      BY <3>2
  <2> QED
    BY <2>1, <2>2
<1>4. a.head = r[1] /\ a.tail = r[Len(r)]
  BY <1>0, <1>1, <1>2 DEF AttachFront, Lists
<1>5. /\ a.prev = [Update(l.prev, l.head, n) EXCEPT ![n] = Null]
      /\ a.next = [l.next EXCEPT ![n] = l.head]
      /\ l.head \in Links /\ l.head # n
  BY <1>0, <1>1 DEF AttachFront, Lists, Links
<1>6. a.prev \in [Nodes -> Links] /\ a.next \in [Nodes -> Links]
  BY <1>5 DEF Lists, Update, Links
<1>7. ASSUME NEW i \in DOMAIN r
      PROVE  /\ a.prev[r[i]] = IF i = 1 THEN Null ELSE r[i - 1]
             /\ a.next[r[i]] = IF i = Len(r) THEN Null ELSE r[i + 1]
  <2>1. CASE i = 1
    <3>1. a.prev[n] = Null /\ a.next[n] = l.head
      BY <1>5 DEF Lists, Update
    <3>2. Len(q) # 0 => r[2] = q[1] /\ l.head = q[1]
      BY <1>1, <1>2 DEF Lists
    <3>3. Len(q) = 0 => l.head = Null
      BY <1>1 DEF Lists
    <3> QED
      BY <1>1, <1>2, <2>1, <3>1, <3>2, <3>3
  <2>2. CASE i = 2
    <3>1. r[2] = q[1] /\ 1 \in DOMAIN q /\ l.head = q[1] /\ q[1] \in Nodes /\ q[1] # n
      BY <1>1, <1>2, <2>2 DEF Lists
    <3>2. a.prev[q[1]] = n /\ a.next[q[1]] = l.next[q[1]]
      BY <1>0, <1>5, <3>1 DEF Lists, Update
    <3>3. l.next[q[1]] = IF 1 = Len(q) THEN Null ELSE q[1 + 1]
      BY <3>1 DEF Lists
    <3>4. Len(q) # 1 => r[3] = q[2]
      BY <1>1, <1>2, <3>1
    <3> QED
      BY <1>1, <1>2, <2>2, <3>1, <3>2, <3>3, <3>4
  <2>3. CASE i > 2
    <3>1. r[i] = q[i - 1] /\ i - 1 \in DOMAIN q /\ q[i - 1] \in Nodes /\ q[i - 1] # n
          /\ i \in 1..(Len(q) + 1) /\ 1 \in DOMAIN q /\ i - 1 # 1
      BY <1>1, <1>2, <2>3
    <3>2. l.head = q[1] /\ q[1] # q[i - 1]
      BY <1>1, <3>1 DEF Lists
    <3>3. a.prev[q[i - 1]] = l.prev[q[i - 1]] /\ a.next[q[i - 1]] = l.next[q[i - 1]]
      BY <1>5, <3>1, <3>2 DEF Lists, Update
    <3>4. /\ l.prev[q[i - 1]] = q[i - 1 - 1]
          /\ l.next[q[i - 1]] = IF i - 1 = Len(q) THEN Null ELSE q[i - 1 + 1]
      BY <3>1 DEF Lists
    <3>5. r[i - 1] = q[i - 1 - 1] /\ (i - 1 # Len(q) => r[i + 1] = q[i - 1 + 1])
      BY <1>1, <1>2, <2>3, <3>1
    <3> QED
      BY <1>1, <1>2, <2>3, <3>1, <3>3, <3>4, <3>5
  <2> QED
    BY <1>1, <1>2, <2>1, <2>2, <2>3
<1> HIDE DEF a
<1> QED
  BY <1>2, <1>3, <1>4, <1>6, <1>7 DEF Lists, r, a

\* Taking a node out leaves the others as they are.
LEMMA Remaining ==
  ASSUME NEW E, NEW q \in Seq(E), \A a, b \in DOMAIN q : q[a] = q[b] => a = b,
         NEW i \in DOMAIN q
  PROVE  /\ \A a, b \in DOMAIN Without(q, i) : Without(q, i)[a] = Without(q, i)[b] => a = b
         /\ \A n : In(n, Without(q, i)) <=> In(n, q) /\ n # q[i]
<1> DEFINE w == Without(q, i)
           at(j) == IF j < i THEN j ELSE j + 1
<1>1. DOMAIN q = 1..Len(q) /\ Len(q) \in Nat /\ i \in 1..Len(q)
  BY SeqRange
<1>2. /\ w \in Seq(E) /\ Len(w) = Len(q) - 1
      /\ \A j \in 1..(Len(q) - 1) : w[j] = IF j < i THEN q[j] ELSE q[j + 1]
  BY WithoutElements
<1> HIDE DEF w
<1>3. DOMAIN w = 1..(Len(q) - 1)
  BY <1>2, SeqRange
<1>4. \A j \in DOMAIN w : w[j] = q[at(j)] /\ at(j) \in DOMAIN q /\ at(j) # i
  BY <1>1, <1>2, <1>3
<1>5. \A a, b \in DOMAIN w : at(a) = at(b) => a = b
  BY <1>1, <1>3
<1>6. \A k \in DOMAIN q : k # i => \E j \in DOMAIN w : at(j) = k
  <2> SUFFICES ASSUME NEW k \in DOMAIN q, k # i PROVE \E j \in DOMAIN w : at(j) = k
    OBVIOUS
  <2>1. CASE k < i
    BY <1>1, <1>3, <2>1
  <2>2. CASE k > i
    <3>1. k - 1 \in DOMAIN w /\ at(k - 1) = k
      BY <1>1, <1>3, <2>2
    <3> QED
      BY <3>1
  <2> QED
    BY <1>1, <2>1, <2>2
<1> HIDE DEF at
<1>7. \A a, b \in DOMAIN w : w[a] = w[b] => a = b
  BY <1>4, <1>5
<1>8. \A n : In(n, w) <=> In(n, q) /\ n # q[i]
  BY <1>4, <1>6 DEF In
<1> QED
  BY <1>7, <1>8 DEF w

\* detach_node takes the node out from between its neighbours.
LEMMA DetachLists ==
  ASSUME NEW l, NEW q, Lists(l, q), NEW i \in DOMAIN q
  PROVE  Lists(Detach(l, q[i]), Without(q, i))
<1> DEFINE w == Without(q, i)
           d == Detach(l, q[i])
           p == IF i = 1 THEN Null ELSE q[i - 1]
           x == IF i = Len(q) THEN Null ELSE q[i + 1]
<1>0. Null \notin Nodes
  BY CacheAssumption
<1>1. /\ q \in Seq(Nodes) /\ DOMAIN q = 1..Len(q) /\ Len(q) \in Nat /\ i \in 1..Len(q)
      /\ \A k \in 1..Len(q) : q[k] \in Nodes
      /\ \A a, b \in 1..Len(q) : q[a] = q[b] => a = b
  BY SeqRange DEF Lists
<1>2. /\ w \in Seq(Nodes) /\ Len(w) = Len(q) - 1
      /\ \A j \in 1..(Len(q) - 1) : w[j] = IF j < i THEN q[j] ELSE q[j + 1]
  BY <1>1, WithoutElements
<1>3. \A a, b \in DOMAIN w : w[a] = w[b] => a = b
  BY <1>1, Remaining
<1> HIDE DEF w
<1>4. DOMAIN w = 1..(Len(q) - 1) /\ (w = <<>> <=> Len(q) = 1)
  BY <1>1, <1>2, SeqRange
<1>5. l.prev[q[i]] = p /\ l.next[q[i]] = x
  BY DEF Lists
<1>6. p \in Links /\ x \in Links
  BY <1>1 DEF Links
<1>7. /\ d.prev = [Update(l.prev, x, p) EXCEPT ![q[i]] = Null]
      /\ d.next = [Update(l.next, p, x) EXCEPT ![q[i]] = Null]
      /\ d.head = IF l.head = q[i] THEN x ELSE l.head
      /\ d.tail = IF l.tail = q[i] THEN p ELSE l.tail
  BY <1>5 DEF Detach
<1>8. d.prev \in [Nodes -> Links] /\ d.next \in [Nodes -> Links]
  <2> HIDE DEF p, x
  <2>1. l.prev \in [Nodes -> Links] /\ l.next \in [Nodes -> Links] /\ Null \in Links
    BY DEF Lists, Links
  <2>2. Update(l.prev, x, p) \in [Nodes -> Links] /\ Update(l.next, p, x) \in [Nodes -> Links]
    BY <1>6, <2>1 DEF Update
  <2> QED
    BY <1>7, <2>1, <2>2
<1>9. ASSUME NEW k \in 1..Len(q), k # i
      PROVE  /\ d.prev[q[k]] = IF k = i + 1 THEN p ELSE IF k = 1 THEN Null ELSE q[k - 1]
             /\ d.next[q[k]] = IF k = i - 1 THEN x ELSE IF k = Len(q) THEN Null ELSE q[k + 1]
  <2>1. q[k] \in Nodes /\ q[k] # q[i] /\ q[k] # Null
    BY <1>0, <1>1, <1>9
  <2>2. q[k] = x <=> k = i + 1
    BY <1>1, <2>1
  <2>3. q[k] = p <=> k = i - 1
    BY <1>1, <2>1
  <2>4. /\ l.prev[q[k]] = IF k = 1 THEN Null ELSE q[k - 1]
        /\ l.next[q[k]] = IF k = Len(q) THEN Null ELSE q[k + 1]
    BY <1>1 DEF Lists
  <2> HIDE DEF p, x
  <2>5. /\ d.prev[q[k]] = IF q[k] = x THEN p ELSE l.prev[q[k]]
        /\ d.next[q[k]] = IF q[k] = p THEN x ELSE l.next[q[k]]
    <3>1. /\ Update(l.prev, x, p) \in [Nodes -> Links] /\ Update(l.next, p, x) \in [Nodes -> Links]
          /\ Update(l.prev, x, p)[q[k]] = IF q[k] = x THEN p ELSE l.prev[q[k]]
          /\ Update(l.next, p, x)[q[k]] = IF q[k] = p THEN x ELSE l.next[q[k]]
      BY <1>6, <2>1 DEF Lists, Update
    <3> QED
      BY <1>7, <2>1, <3>1
  <2> QED
    BY <2>2, <2>3, <2>4, <2>5
<1>10. ASSUME NEW j \in DOMAIN w
       PROVE  /\ d.prev[w[j]] = IF j = 1 THEN Null ELSE w[j - 1]
              /\ d.next[w[j]] = IF j = Len(w) THEN Null ELSE w[j + 1]
  <2>0. j \in 1..(Len(q) - 1)
    BY <1>4
  <2>1. CASE j < i
    <3>1. w[j] = q[j] /\ j \in 1..Len(q) /\ j # i /\ j # i + 1
      BY <1>1, <1>2, <2>0, <2>1
    <3>2. j # 1 => w[j - 1] = q[j - 1]
      BY <1>1, <1>2, <2>0, <2>1
    <3>3. j # Len(q) - 1 => w[j + 1] = IF j = i - 1 THEN q[i + 1] ELSE q[j + 1]
      BY <1>1, <1>2, <2>0, <2>1
    <3> HIDE DEF d
    <3>4. d.prev[q[j]] = IF j = 1 THEN Null ELSE q[j - 1]
      BY <1>9, <3>1
    <3>5. d.next[q[j]] = IF j = i - 1 THEN x ELSE q[j + 1]
      <4> HIDE DEF x
      <4>1. d.next[q[j]] = IF j = i - 1 THEN x ELSE IF j = Len(q) THEN Null ELSE q[j + 1]
        BY <1>9, <3>1
      <4>2. j # Len(q)
        BY <1>1, <2>0
      <4> QED
        BY <4>1, <4>2
    <3>6. d.prev[w[j]] = IF j = 1 THEN Null ELSE w[j - 1]
      BY <3>1, <3>2, <3>4
    <3>7. d.next[w[j]] = IF j = Len(w) THEN Null ELSE w[j + 1]
      BY <1>1, <1>2, <2>0, <2>1, <3>1, <3>3, <3>5
    <3> QED
      BY <3>6, <3>7
  <2>2. CASE ~(j < i)
    <3>1. w[j] = q[j + 1] /\ j + 1 \in 1..Len(q) /\ j + 1 # i /\ j + 1 # i - 1 /\ j + 1 # 1
      BY <1>1, <1>2, <2>0, <2>2
    <3>2. j # 1 => w[j - 1] = IF j = i THEN q[i - 1] ELSE q[j]
      BY <1>1, <1>2, <2>0, <2>2
    <3>3. j # Len(q) - 1 => w[j + 1] = q[j + 1 + 1]
      BY <1>1, <1>2, <2>0, <2>2
    <3> HIDE DEF d
    <3>4. d.prev[q[j + 1]] = IF j + 1 = i + 1 THEN p ELSE q[j + 1 - 1]
      <4> HIDE DEF p
      <4>1. PICK k \in 1..Len(q) : k = j + 1
        BY <3>1
      <4>2. d.prev[q[k]] = IF k = i + 1 THEN p ELSE IF k = 1 THEN Null ELSE q[k - 1]
        BY <1>9, <3>1, <4>1
      <4>3. k # 1 /\ d.prev[q[k]] = IF k = i + 1 THEN p ELSE q[k - 1]
        BY <3>1, <4>1, <4>2
      <4> QED
        BY <4>1, <4>3
    <3>5. d.next[q[j + 1]] = IF j + 1 = Len(q) THEN Null ELSE q[j + 1 + 1]
      BY <1>9, <3>1
    <3>6. d.prev[w[j]] = IF j = 1 THEN Null ELSE w[j - 1]
      BY <1>1, <2>0, <2>2, <3>1, <3>2, <3>4
    <3>7. d.next[w[j]] = IF j = Len(w) THEN Null ELSE w[j + 1]
      BY <1>1, <1>2, <2>0, <3>1, <3>3, <3>5
    <3> QED
      BY <3>6, <3>7
  <2> QED
    BY <2>1, <2>2
<1>11. d.head = IF w = <<>> THEN Null ELSE w[1]
  <2>1. l.head = q[1] /\ (l.head = q[i] <=> i = 1)
    BY <1>1 DEF Lists
  <2>2. w # <<>> => w[1] = IF i = 1 THEN q[2] ELSE q[1]
    BY <1>1, <1>2, <1>4
  <2> QED
    BY <1>1, <1>4, <1>7, <2>1, <2>2
<1>12. d.tail = IF w = <<>> THEN Null ELSE w[Len(w)]
  <2>1. l.tail = q[Len(q)] /\ (l.tail = q[i] <=> i = Len(q))
    BY <1>1 DEF Lists
  <2>2. w # <<>> => w[Len(w)] = IF i = Len(q) THEN q[i - 1] ELSE q[Len(q)]
    BY <1>1, <1>2, <1>4
  <2> QED
    BY <1>1, <1>4, <1>7, <2>1, <2>2
<1> HIDE DEF d
<1> QED
  BY <1>2, <1>3, <1>8, <1>10, <1>11, <1>12 DEF Lists, w, d

-----------------------------------------------------------------------------
(* The hash table.                                                          *)

HtEntry == [key : Keys, node : Nodes]

\* The table bs has one entry for each of the nodes L, in the chain of the name
\* that ky gives the node, and no other entry.
Maps(bs, L, ky) ==
  /\ L \subseteq Nodes /\ \A n \in L : ky[n] \in Keys
  /\ \A n, m \in L : ky[n] = ky[m] => n = m
  /\ bs \in [Buckets -> Seq(HtEntry)] /\ \A b \in Buckets : Distinct(bs[b])
  /\ \A b \in Buckets, e \in HtEntry :
       In(e, bs[b]) <=> e.node \in L /\ e.key = ky[e.node] /\ Hash[e.key] = b

\* The first entry with a key is the only one.
LEMMA OnlyHit ==
  ASSUME NEW c, DOMAIN c \subseteq Int, Distinct(c), NEW k, NEW i \in DOMAIN c, c[i].key = k
  PROVE  InChain(c, k) = {i} /\ i <= i
BY DEF InChain, Distinct

LEMMA ChainFacts ==
  ASSUME NEW bs, NEW L, NEW ky, Maps(bs, L, ky), NEW k \in Keys
  PROVE  /\ Hash[k] \in Buckets /\ bs[Hash[k]] \in Seq(HtEntry) /\ Distinct(bs[Hash[k]])
         /\ DOMAIN bs[Hash[k]] = 1..Len(bs[Hash[k]]) /\ Len(bs[Hash[k]]) \in Nat
         /\ \A i \in DOMAIN bs[Hash[k]] : bs[Hash[k]][i] \in HtEntry
<1>1. Hash[k] \in Buckets
  BY CacheAssumption
<1>2. bs[Hash[k]] \in Seq(HtEntry) /\ Distinct(bs[Hash[k]])
  BY <1>1 DEF Maps
<1> QED
  BY <1>1, <1>2, SeqRange

\* Where the entry of a node is.
LEMMA NodeEntry ==
  ASSUME NEW bs, NEW L, NEW ky, Maps(bs, L, ky), NEW n \in L
  PROVE  /\ ky[n] \in Keys
         /\ \E i \in DOMAIN bs[Hash[ky[n]]] : bs[Hash[ky[n]]][i] = [key |-> ky[n], node |-> n]
<1>1. ky[n] \in Keys /\ n \in Nodes
  BY DEF Maps
<1>2. [key |-> ky[n], node |-> n] \in HtEntry /\ Hash[ky[n]] \in Buckets
  BY <1>1, CacheAssumption DEF HtEntry
<1>3. In([key |-> ky[n], node |-> n], bs[Hash[ky[n]]])
  BY <1>2 DEF Maps
<1> QED
  BY <1>1, <1>3 DEF In

\* What a chain has belongs to a node.
LEMMA EntryNode ==
  ASSUME NEW bs, NEW L, NEW ky, Maps(bs, L, ky), NEW b \in Buckets, NEW i \in DOMAIN bs[b]
  PROVE  /\ bs[b][i] \in HtEntry /\ bs[b][i].node \in L
         /\ bs[b][i].key = ky[bs[b][i].node] /\ Hash[bs[b][i].key] = b
<1>1. bs[b][i] \in HtEntry
  BY SeqRange DEF Maps
<1>2. In(bs[b][i], bs[b])
  BY DEF In
<1> QED
  BY <1>1, <1>2 DEF Maps

\* ht_get finds the node with that name, and nothing when there is none.
LEMMA LookupFinds ==
  ASSUME Maps(buckets, live, key), NEW n \in live
  PROVE  Lookup(key[n]) = n
<1>1. PICK i \in DOMAIN Chain(key[n]) : Chain(key[n])[i] = [key |-> key[n], node |-> n]
  BY NodeEntry DEF Chain
<1>2. /\ Distinct(Chain(key[n])) /\ DOMAIN Chain(key[n]) \subseteq Int
      /\ Chain(key[n])[i].key = key[n]
  BY <1>1, NodeEntry, ChainFacts DEF Chain
<1>3. PICK H : H = InChain(Chain(key[n]), key[n])
  OBVIOUS
<1>4. PICK p : p = CHOOSE h \in H : \A j \in H : h <= j
  OBVIOUS
<1>5. H = {i} /\ p = i
  <2>1. H = {i} /\ i <= i
    BY <1>2, <1>3, OnlyHit
  <2>2. p \in H
    BY <1>4, <2>1
  <2> QED
    BY <2>1, <2>2
<1>6. Lookup(key[n]) = Chain(key[n])[p].node
  BY <1>3, <1>4, <1>5 DEF Lookup
<1> QED
  BY <1>1, <1>5, <1>6

LEMMA LookupMisses ==
  ASSUME Maps(buckets, live, key), NEW k \in Keys
  PROVE  /\ Lookup(k) # Null => Lookup(k) \in live /\ key[Lookup(k)] = k
         /\ Lookup(k) = Null => \A n \in live : key[n] # k
<1>1. CASE InChain(Chain(k), k) = {}
  <2>1. Lookup(k) = Null
    BY <1>1 DEF Lookup
  <2>2. ASSUME NEW n \in live, key[n] = k PROVE FALSE
    <3>1. PICK i \in DOMAIN Chain(k) : Chain(k)[i] = [key |-> k, node |-> n]
      BY <2>2, NodeEntry DEF Chain
    <3>2. i \in InChain(Chain(k), k)
      BY <3>1 DEF InChain
    <3> QED
      BY <1>1, <3>2
  <2> QED
    BY <2>1, <2>2
<1>2. CASE InChain(Chain(k), k) # {}
  <2>1. PICK i \in DOMAIN buckets[Hash[k]] : buckets[Hash[k]][i].key = k
    BY <1>2 DEF InChain, Chain
  <2>2. PICK n : n = buckets[Hash[k]][i].node
    OBVIOUS
  <2>3. n \in live /\ key[n] = k
    BY <2>1, <2>2, ChainFacts, EntryNode
  <2>4. Lookup(k) = n /\ n # Null
    BY <2>3, LookupFinds, CacheAssumption DEF Maps
  <2> QED
    BY <2>3, <2>4
<1> QED
  BY <1>1, <1>2

\* ht_put gives a new node its entry.
LEMMA PutMaps ==
  ASSUME NEW bs, NEW L, NEW ky, Maps(bs, L, ky), NEW k \in Keys, NEW n \in Nodes \ L,
         \A m \in L : ky[m] # k, NEW kz, \A m \in L : kz[m] = ky[m], kz[n] = k
  PROVE  Maps(HtPut(bs, k, n), L \cup {n}, kz)
<1> DEFINE e == [key |-> k, node |-> n]
           c == bs[Hash[k]]
           r == <<e>> \o c
           ps == HtPut(bs, k, n)
<1>0. e \in HtEntry /\ e.key = k /\ e.node = n
  BY DEF HtEntry
<1>1. /\ Hash[k] \in Buckets /\ c \in Seq(HtEntry) /\ Distinct(c)
      /\ DOMAIN c = 1..Len(c) /\ Len(c) \in Nat
  BY ChainFacts
<1>2. \A i \in DOMAIN c : c[i].key # k
  BY <1>1, EntryNode
<1>3. r \in Seq(HtEntry) /\ Distinct(r)
  BY <1>0, <1>1, <1>2, FrontEntries
<1>4. \A x : In(x, r) <=> x = e \/ In(x, c)
  <2>1. /\ Len(r) = Len(c) + 1 /\ r[1] = e
        /\ \A i \in 1..Len(c) : r[i + 1] = c[i]
        /\ \A i \in 2..(Len(c) + 1) : r[i] = c[i - 1]
    BY <1>0, <1>1, FrontElements
  <2> HIDE DEF r, e, c
  <2>2. DOMAIN r = 1..(Len(c) + 1)
    BY <1>3, <2>1, SeqRange
  <2>3. ASSUME NEW x, In(x, r) PROVE x = e \/ In(x, c)
    <3>1. PICK i \in 1..(Len(c) + 1) : r[i] = x
      BY <2>2, <2>3 DEF In
    <3>2. CASE i = 1
      BY <2>1, <3>1, <3>2
    <3>3. CASE i # 1
      <4>1. i - 1 \in DOMAIN c /\ c[i - 1] = x
        BY <1>1, <2>1, <3>1, <3>3
      <4> QED
        BY <4>1 DEF In
    <3> QED
      BY <3>2, <3>3
  <2>4. ASSUME NEW x, In(x, c) PROVE In(x, r)
    <3>1. PICK i \in 1..Len(c) : c[i] = x
      BY <1>1, <2>4 DEF In
    <3>2. i + 1 \in DOMAIN r /\ r[i + 1] = x
      BY <1>1, <2>1, <2>2, <3>1
    <3> QED
      BY <3>2 DEF In
  <2>5. In(e, r)
    BY <1>1, <2>1, <2>2 DEF In
  <2> QED
    BY <2>3, <2>4, <2>5
<1> HIDE DEF r, e
<1>5. ps = [bs EXCEPT ![Hash[k]] = r]
  BY DEF HtPut, r, e
<1>6. ps \in [Buckets -> Seq(HtEntry)] /\ \A b \in Buckets : Distinct(ps[b])
  BY <1>1, <1>3, <1>5 DEF Maps
<1>7. ASSUME NEW b \in Buckets, NEW x \in HtEntry
      PROVE  In(x, ps[b]) <=> x.node \in L \cup {n} /\ x.key = kz[x.node] /\ Hash[x.key] = b
  <2>1. x = e <=> x.key = k /\ x.node = n
    BY DEF HtEntry, e
  <2>2. In(x, bs[b]) <=> x.node \in L /\ x.key = ky[x.node] /\ Hash[x.key] = b
    BY DEF Maps
  <2>3. In(x, ps[b]) <=> In(x, bs[b]) \/ (b = Hash[k] /\ x = e)
    BY <1>1, <1>4, <1>5 DEF Maps
  <2> QED
    BY <2>1, <2>2, <2>3
<1> HIDE DEF ps
<1> QED
  BY <1>6, <1>7 DEF Maps, ps

LEMMA RemoveIs ==
  ASSUME NEW bs, NEW k, DOMAIN bs[Hash[k]] \subseteq Int, Distinct(bs[Hash[k]]),
         NEW i \in DOMAIN bs[Hash[k]], bs[Hash[k]][i].key = k
  PROVE  HtRemove(bs, k) = [bs EXCEPT ![Hash[k]] = Without(bs[Hash[k]], i)]
<1>1. PICK c : c = bs[Hash[k]]
  OBVIOUS
<1>2. PICK H : H = InChain(c, k)
  OBVIOUS
<1>3. PICK p : p = CHOOSE h \in H : \A j \in H : h <= j
  OBVIOUS
<1>4. HtRemove(bs, k) = IF H = {} THEN bs ELSE [bs EXCEPT ![Hash[k]] = Without(c, p)]
  BY <1>1, <1>2, <1>3 DEF HtRemove
<1>5. H = {i} /\ p = i
  <2>1. H = {i} /\ i <= i
    BY <1>1, <1>2, OnlyHit
  <2>2. p \in H
    BY <1>3, <2>1
  <2> QED
    BY <2>1, <2>2
<1> QED
  BY <1>1, <1>4, <1>5

\* ht_remove takes out the entry of the node with that name.
LEMMA RemoveMaps ==
  ASSUME NEW bs, NEW L, NEW ky, Maps(bs, L, ky), NEW m \in L
  PROVE  Maps(HtRemove(bs, ky[m]), L \ {m}, ky)
<1> DEFINE k == ky[m]
           c == bs[Hash[k]]
           rs == HtRemove(bs, k)
<1>1. k \in Keys /\ m \in Nodes
  BY DEF Maps
<1>2. PICK i \in DOMAIN c : c[i] = [key |-> k, node |-> m]
  BY NodeEntry
<1>3. /\ Hash[k] \in Buckets /\ c \in Seq(HtEntry) /\ Distinct(c)
      /\ DOMAIN c = 1..Len(c) /\ Len(c) \in Nat
  BY <1>1, ChainFacts
<1>6. rs = [bs EXCEPT ![Hash[k]] = Without(c, i)]
  <2>1. DOMAIN c \subseteq Int /\ c[i].key = k
    BY <1>2, <1>3
  <2> QED
    BY <1>3, <2>1, RemoveIs
<1>7. Without(c, i) \in Seq(HtEntry) /\ Distinct(Without(c, i))
  BY <1>3, WithoutEntries
<1>8. \A x : In(x, Without(c, i)) <=> In(x, c) /\ x # c[i]
  <2>1. \A a, b \in DOMAIN c : c[a] = c[b] => a = b
    BY <1>3 DEF Distinct
  <2> QED
    BY <1>3, <2>1, Remaining
<1>9. rs \in [Buckets -> Seq(HtEntry)] /\ \A b \in Buckets : Distinct(rs[b])
  BY <1>3, <1>6, <1>7 DEF Maps
<1>10. ASSUME NEW b \in Buckets, NEW x \in HtEntry
       PROVE  In(x, rs[b]) <=> x.node \in L \ {m} /\ x.key = ky[x.node] /\ Hash[x.key] = b
  <2>1. x = c[i] <=> x.key = k /\ x.node = m
    BY <1>2 DEF HtEntry
  <2>2. In(x, bs[b]) <=> x.node \in L /\ x.key = ky[x.node] /\ Hash[x.key] = b
    BY DEF Maps
  <2>3. In(x, rs[b]) <=> In(x, bs[b]) /\ ~(b = Hash[k] /\ x = c[i])
    BY <1>3, <1>6, <1>8 DEF Maps
  <2> QED
    BY <2>1, <2>2, <2>3
<1> HIDE DEF rs
<1> QED
  BY <1>9, <1>10 DEF Maps, rs

-----------------------------------------------------------------------------
(* Walking the list.                                                        *)

\* A set of numbers that is not empty has a least element.
LEMMA LeastElement ==
  ASSUME NEW S \in SUBSET Nat, S # {}
  PROVE  \E m \in S : \A n \in S : m <= n
<1>1. IsWellFoundedOn(OpToRel(<, Nat), Nat)
  BY NatLessThanWellFounded
<1>2. PICK m \in S : \A n \in S : ~(<<n, m>> \in OpToRel(<, Nat))
  BY <1>1, WFMin
<1>3. \A n \in S : ~(n < m)
  BY <1>2 DEF OpToRel
<1> QED
  BY <1>3

\* Each node of q but the first follows from the one before it.
Follows(q, first, follows) ==
  /\ Len(q) # 0 => q[1] = first
  /\ \A i \in 1..Len(q) : i # 1 => q[i] = follows[q[i - 1]]
\* Walking the links from the head visits the nodes of the list in their order.
LEMMA OrderIs ==
  ASSUME NEW first, NEW follows, NEW q \in Seq(Nodes), Follows(q, first, follows)
  PROVE  \A i \in 1..Len(q) : Order(first, follows, Len(q))[i] = q[i]
<1> DEFINE Step(f) == [i \in 1..Len(q) |-> IF i = 1 THEN first ELSE follows[f[i - 1]]]
<1>1. PICK at : at = Order(first, follows, Len(q))
  OBVIOUS
<1>2. at = CHOOSE f : f = Step(f)
  BY <1>1, Zenon DEF Order
<1>3. q = Step(q)
  <2>1. q = [i \in 1..Len(q) |-> q[i]] 
    BY SeqRange
  <2> QED
    BY <2>1 DEF Follows
<1>4. at = Step(at)
  <2> HIDE DEF Step
  <2> QED
    BY <1>2, <1>3, Zenon
<1> DEFINE Bad == {i \in 1..Len(q) : at[i] # q[i]}
<1>5. ASSUME Bad # {} PROVE FALSE
  <2>0. Len(q) \in Nat
    BY SeqRange
  <2>1. PICK m \in Bad : \A i \in Bad : m <= i
    <3>1. Bad \in SUBSET Nat
      BY <2>0
    <3> HIDE DEF Bad
    <3> QED
      BY <1>5, <3>1, LeastElement
  <2>2. m \in 1..Len(q) /\ at[m] # q[m]
    OBVIOUS
  <2>3. at[m] = IF m = 1 THEN first ELSE follows[at[m - 1]]
    BY <1>4, <2>2
  <2>4. m # 1
    BY <2>0, <2>2, <2>3 DEF Follows
  <2>5. m - 1 \notin Bad
    BY <2>0, <2>1, <2>2
  <2>6. at[m - 1] = q[m - 1]
    BY <2>0, <2>2, <2>4, <2>5
  <2> QED
    BY <2>0, <2>2, <2>3, <2>4, <2>6 DEF Follows
<1> QED
  BY <1>1, <1>5

Entry == [key : Keys, data : Values]

\* What the nodes q tell when their fields are ky and da.
Read(ky, da, q) == [j \in 1..Len(q) |-> [key |-> ky[q[j]], data |-> da[q[j]]]]

\* The record l lists exactly the nodes L, in the order q.
Listing(l, L, q) == Lists(l, q) /\ \A n : In(n, q) <=> n \in L

LEMMA ListsFollow ==
  ASSUME NEW l, NEW q, Lists(l, q)
  PROVE  q \in Seq(Nodes) /\ Follows(q, l.head, l.next)
<1>1. q \in Seq(Nodes) /\ DOMAIN q = 1..Len(q) /\ Len(q) \in Nat /\ (q = <<>> <=> Len(q) = 0)
  BY SeqRange DEF Lists
<1>2. Len(q) # 0 => q[1] = l.head
  BY <1>1 DEF Lists
<1>3. ASSUME NEW i \in 1..Len(q), i # 1 PROVE q[i] = l.next[q[i - 1]]
  <2>1. i - 1 \in DOMAIN q /\ i - 1 # Len(q) /\ i - 1 + 1 = i
    BY <1>1, <1>3
  <2>2. PICK j \in DOMAIN q : j = i - 1
    BY <2>1
  <2>3. l.next[q[j]] = IF j = Len(q) THEN Null ELSE q[j + 1]
    BY DEF Lists
  <2> QED
    BY <2>1, <2>2, <2>3
<1> QED
  BY <1>1, <1>2, <1>3 DEF Follows

LEMMA WalkIs ==
  ASSUME NEW q, Lists(Current, q), Len(q) = size
  PROVE  Walk = Read(key, data, q)
<1>1. q \in Seq(Nodes) /\ Follows(q, head, next)
  <2>1. PICK l : l = Current
    OBVIOUS
  <2>2. q \in Seq(Nodes) /\ Follows(q, l.head, l.next)
    BY <2>1, ListsFollow
  <2>3. l.head = head /\ l.next = next
    BY <2>1 DEF Current
  <2> QED
    BY <2>2, <2>3
<1>2. PICK at : at = Order(head, next, size)
  OBVIOUS
<1>3. \A i \in 1..size : at[i] = q[i]
  BY <1>1, <1>2, OrderIs
<1>4. Walk = [i \in 1..size |-> [key |-> key[at[i]], data |-> data[at[i]]]]
  BY <1>2 DEF Walk
<1> QED
  BY <1>3, <1>4 DEF Read

LEMMA WalkNext ==
  ASSUME NEW q, NEW l, Lists(l, q), Becomes(l), Len(q) = size'
  PROVE  Walk' = Read(key', data', q)
<1>1. q \in Seq(Nodes) /\ Follows(q, head', next')
  BY ListsFollow DEF Becomes
<1>2. PICK at : at = Order(head', next', size')
  OBVIOUS
<1>3. \A i \in 1..size' : at[i] = q[i]
  BY <1>1, <1>2, OrderIs
<1>4. Walk' = [i \in 1..size' |-> [key |-> key'[at[i]], data |-> data'[at[i]]]]
  BY <1>2 DEF Walk, Order
<1> QED
  BY <1>3, <1>4 DEF Read

-----------------------------------------------------------------------------
(* What the calls do to the list.                                           *)

LEMMA Dropped ==
  ASSUME NEW l, NEW L, NEW q, Listing(l, L, q), NEW i \in DOMAIN q
  PROVE  /\ Listing(Detach(l, q[i]), L \ {q[i]}, Without(q, i))
         /\ Len(Without(q, i)) = Len(q) - 1 /\ q[i] \in L /\ q[i] \in Nodes
<1>1. q \in Seq(Nodes) /\ \A a, b \in DOMAIN q : q[a] = q[b] => a = b
  BY DEF Listing, Lists
<1>2. \A n : In(n, Without(q, i)) <=> In(n, q) /\ n # q[i]
  BY <1>1, Remaining
<1>3. Lists(Detach(l, q[i]), Without(q, i))
  BY DetachLists DEF Listing
<1>4. Len(Without(q, i)) = Len(q) - 1
  BY <1>1, WithoutElements
<1>5. q[i] \in L /\ q[i] \in Nodes
  BY <1>1, SeqRange DEF Listing, In
<1> QED
  BY <1>2, <1>3, <1>4, <1>5 DEF Listing

LEMMA Added ==
  ASSUME NEW l, NEW L, NEW q, Listing(l, L, q), NEW n \in Nodes \ L
  PROVE  /\ Listing(AttachFront(l, n), L \cup {n}, <<n>> \o q)
         /\ Len(<<n>> \o q) = Len(q) + 1
<1> DEFINE r == <<n>> \o q
<1>1. q \in Seq(Nodes) /\ DOMAIN q = 1..Len(q) /\ Len(q) \in Nat
  BY SeqRange DEF Listing, Lists
<1>2. Lists(AttachFront(l, n), r)
  BY AttachLists DEF Listing
<1>3. /\ Len(r) = Len(q) + 1 /\ r[1] = n /\ r \in Seq(Nodes)
      /\ \A i \in 1..Len(q) : r[i + 1] = q[i]
      /\ \A i \in 2..(Len(q) + 1) : r[i] = q[i - 1]
  BY <1>1, FrontElements
<1> HIDE DEF r
<1>4. DOMAIN r = 1..(Len(q) + 1)
  BY <1>3, SeqRange
<1>5. ASSUME NEW x, In(x, r) PROVE x \in L \cup {n}
  <2>1. PICK i \in 1..(Len(q) + 1) : r[i] = x
    BY <1>4, <1>5 DEF In
  <2>2. CASE i = 1
    BY <1>3, <2>1, <2>2
  <2>3. CASE i # 1
    <3>1. i - 1 \in DOMAIN q /\ q[i - 1] = x
      BY <1>1, <1>3, <2>1, <2>3
    <3> QED
      BY <3>1 DEF Listing, In
  <2> QED
    BY <2>2, <2>3
<1>6. ASSUME NEW x \in L PROVE In(x, r)
  <2>1. PICK i \in 1..Len(q) : q[i] = x
    BY <1>1 DEF Listing, In
  <2>2. i + 1 \in DOMAIN r /\ r[i + 1] = x
    BY <1>1, <1>3, <1>4, <2>1
  <2> QED
    BY <2>2 DEF In
<1>7. In(n, r)
  BY <1>1, <1>3, <1>4 DEF In
<1>8. Listing(AttachFront(l, n), L \cup {n}, r)
  BY <1>2, <1>5, <1>6, <1>7 DEF Listing
<1> QED
  BY <1>3, <1>8 DEF r

LEMMA Moved ==
  ASSUME NEW l, NEW L, NEW q, Listing(l, L, q), NEW i \in DOMAIN q
  PROVE  /\ Listing(AttachFront(Detach(l, q[i]), q[i]), L, <<q[i]>> \o Without(q, i))
         /\ Len(<<q[i]>> \o Without(q, i)) = Len(q)
<1>1. PICK d, w, n, M : d = Detach(l, q[i]) /\ w = Without(q, i) /\ n = q[i] /\ M = L \ {n}
  OBVIOUS
<1>2. Listing(d, M, w) /\ Len(w) = Len(q) - 1 /\ n \in L /\ n \in Nodes \ M
  BY <1>1, Dropped
<1>3. Listing(AttachFront(d, n), M \cup {n}, <<n>> \o w) /\ Len(<<n>> \o w) = Len(w) + 1
  BY <1>2, Added
<1>4. M \cup {n} = L /\ Len(q) \in Nat
  BY <1>1, <1>2, SeqRange DEF Listing, Lists
<1>5. Listing(AttachFront(d, n), L, <<n>> \o w)
  BY <1>3, <1>4
<1>6. Len(<<n>> \o w) = Len(q)
  <2>1. PICK r : r = <<n>> \o w
    OBVIOUS
  <2>2. Len(r) = Len(w) + 1
    BY <1>3, <2>1
  <2> QED
    BY <1>2, <1>4, <2>1, <2>2
<1> QED
  BY <1>1, <1>5, <1>6

\* What the nodes tell, one in front of others and one taken out.
LEMMA ReadFront ==
  ASSUME NEW ky, NEW da, NEW w \in Seq(Nodes), NEW n \in Nodes,
         \A x \in {n} \cup {w[j] : j \in 1..Len(w)} : ky[x] \in Keys /\ da[x] \in Values
  PROVE  /\ Read(ky, da, w) \in Seq(Entry) /\ [key |-> ky[n], data |-> da[n]] \in Entry
         /\ Read(ky, da, <<n>> \o w) = <<[key |-> ky[n], data |-> da[n]]>> \o Read(ky, da, w)
<1> DEFINE e == [key |-> ky[n], data |-> da[n]]
           c == Read(ky, da, w)
           r == <<n>> \o w
           t == <<e>> \o c
           z == Read(ky, da, r)
<1>1. /\ r \in Seq(Nodes) /\ Len(r) = Len(w) + 1 /\ r[1] = n
      /\ \A i \in 2..(Len(w) + 1) : r[i] = w[i - 1]
  BY FrontElements
<1>2. Len(w) \in Nat
  BY SeqRange
<1>3. e \in Entry
  BY DEF Entry
<1>4. /\ c \in [1..Len(w) -> Entry] /\ DOMAIN c = 1..Len(w)
      /\ \A i \in 1..Len(w) : c[i] = [key |-> ky[w[i]], data |-> da[w[i]]]
  BY DEF Read, Entry
<1> HIDE DEF c
<1>5. c \in Seq(Entry) /\ Len(c) = Len(w)
  BY <1>2, <1>4
<1> HIDE DEF e
<1>6. /\ t \in Seq(Entry) /\ Len(t) = Len(w) + 1 /\ t[1] = e
      /\ \A i \in 2..(Len(w) + 1) : t[i] = c[i - 1]
  BY <1>3, <1>5, FrontElements
<1> HIDE DEF r, t
<1>7. /\ z = [i \in 1..(Len(w) + 1) |-> [key |-> ky[r[i]], data |-> da[r[i]]]]
  BY <1>1 DEF Read
<1> HIDE DEF z
<1>8. \A i \in 1..(Len(w) + 1) : z[i] = t[i]
  <2> SUFFICES ASSUME NEW i \in 1..(Len(w) + 1) PROVE z[i] = t[i]
    OBVIOUS
  <2>1. CASE i = 1
    BY <1>1, <1>6, <1>7, <2>1 DEF e
  <2>2. CASE i # 1
    <3>1. i \in 2..(Len(w) + 1) /\ i - 1 \in 1..Len(w)
      BY <1>2, <2>2
    <3>2. z[i] = [key |-> ky[w[i - 1]], data |-> da[w[i - 1]]]
      BY <1>1, <1>7, <3>1
    <3> QED
      BY <1>4, <1>6, <3>1, <3>2
  <2> QED
    BY <2>1, <2>2
<1>9. z = t
  <2>1. \A i \in 1..(Len(w) + 1) : t[i] \in Entry
    BY <1>2, <1>6, SeqRange
  <2>2. z \in [1..(Len(w) + 1) -> Entry]
    BY <1>7, <1>8, <2>1
  <2>3. z \in Seq(Entry) /\ Len(z) = Len(w) + 1
    BY <1>2, <2>2
  <2> QED
    BY <1>6, <1>8, <2>3, SeqEqual
<1> QED
  BY <1>3, <1>5, <1>9 DEF z, t, r, c, e

LEMMA ReadWithout ==
  ASSUME NEW ky, NEW da, NEW q \in Seq(Nodes), NEW i \in DOMAIN q,
         \A j \in 1..Len(q) : ky[q[j]] \in Keys /\ da[q[j]] \in Values
  PROVE  Read(ky, da, Without(q, i)) = Without(Read(ky, da, q), i)
<1> DEFINE c == Read(ky, da, q)
           w == Without(q, i)
           z == Read(ky, da, w)
           t == Without(c, i)
<1>1. /\ w \in Seq(Nodes) /\ Len(w) = Len(q) - 1
      /\ \A j \in 1..(Len(q) - 1) : w[j] = IF j < i THEN q[j] ELSE q[j + 1]
  BY WithoutElements
<1>2. Len(q) \in Nat /\ i \in 1..Len(q)
  BY SeqRange
<1>3. c = [j \in 1..Len(q) |-> [key |-> ky[q[j]], data |-> da[q[j]]]]
  BY DEF Read
<1> HIDE DEF c, w
<1>4. c \in Seq(Entry) /\ Len(c) = Len(q) /\ i \in DOMAIN c
  <2>1. c \in [1..Len(q) -> Entry]
    BY <1>3 DEF Entry
  <2> QED
    BY <1>2, <2>1
<1>5. /\ t \in Seq(Entry) /\ Len(t) = Len(q) - 1
      /\ \A j \in 1..(Len(q) - 1) : t[j] = IF j < i THEN c[j] ELSE c[j + 1]
  BY <1>4, WithoutElements
<1> HIDE DEF t
<1>6. z = [j \in 1..(Len(q) - 1) |-> [key |-> ky[w[j]], data |-> da[w[j]]]]
  BY <1>1 DEF Read
<1> HIDE DEF z
<1>7. \A j \in 1..(Len(q) - 1) : z[j] = t[j]
  <2> SUFFICES ASSUME NEW j \in 1..(Len(q) - 1) PROVE z[j] = t[j]
    OBVIOUS
  <2>1. j \in 1..Len(q) /\ j + 1 \in 1..Len(q)
    BY <1>2
  <2> QED
    BY <1>1, <1>3, <1>5, <1>6, <2>1
<1>8. z = t
  <2>1. \A j \in 1..(Len(q) - 1) : t[j] \in Entry
    BY <1>2, <1>5, SeqRange
  <2>2. z \in [1..(Len(q) - 1) -> Entry]
    BY <1>6, <1>7, <2>1
  <2>3. Len(q) - 1 \in Nat
    BY <1>2
  <2>4. z \in Seq(Entry) /\ Len(z) = Len(q) - 1
    BY <2>2, <2>3
  <2> QED
    BY <1>5, <1>7, <2>4, SeqEqual
<1> QED
  BY <1>8 DEF z, t, c, w

\* Only what the fields of the listed nodes are matters.
LEMMA ReadSame ==
  ASSUME NEW ky, NEW da, NEW kz, NEW dz, NEW q,
         \A j \in 1..Len(q) : ky[q[j]] = kz[q[j]] /\ da[q[j]] = dz[q[j]]
  PROVE  Read(ky, da, q) = Read(kz, dz, q)
BY DEF Read

-----------------------------------------------------------------------------
(* The invariant.                                                           *)

Fields ==
  /\ key \in [Nodes -> Keys \cup {Null}] /\ data \in [Nodes -> Values \cup {Null}]
  /\ \A n \in live : data[n] \in Values

\* The links list exactly the allocated nodes, in the order q.
Here(q) == Listing(Current, live, q) /\ Len(q) = size

IInv ==
  /\ Fields /\ size <= Capacity
  /\ Maps(buckets, live, key)
  /\ \E q : Here(q)

LEMMA ListFacts ==
  ASSUME IInv, NEW q, Here(q)
  PROVE  /\ q \in Seq(Nodes) /\ DOMAIN q = 1..Len(q) /\ Len(q) \in Nat /\ Len(q) = size
         /\ \A i \in 1..Len(q) : q[i] \in live /\ q[i] \in Nodes
         /\ \A i \in 1..Len(q) : key[q[i]] \in Keys /\ data[q[i]] \in Values
         /\ \A i, j \in 1..Len(q) : q[i] = q[j] => i = j
         /\ Walk = Read(key, data, q)
         /\ Listing(Current, live, q)
<1>1. q \in Seq(Nodes) /\ Lists(Current, q) /\ Len(q) = size
  BY DEF Here, Listing, Lists
<1>2. DOMAIN q = 1..Len(q) /\ Len(q) \in Nat /\ \A i \in 1..Len(q) : q[i] \in Nodes
  BY <1>1, SeqRange
<1>3. \A i \in 1..Len(q) : q[i] \in live
  BY <1>2 DEF Here, Listing, In
<1>4. \A i \in 1..Len(q) : key[q[i]] \in Keys /\ data[q[i]] \in Values
  BY <1>3 DEF IInv, Fields, Maps
<1>5. \A i, j \in 1..Len(q) : q[i] = q[j] => i = j
  BY <1>1, <1>2 DEF Lists
<1> QED
  BY <1>1, <1>2, <1>3, <1>4, <1>5, WalkIs DEF Here

LEMMA PositionIs ==
  ASSUME NEW c, Distinct(c), NEW i \in DOMAIN c
  PROVE  Cached(c, c[i].key) /\ Position(c, c[i].key) = i
<1>1. Cached(c, c[i].key)
  BY DEF Cached
<1>2. PICK p : p = Position(c, c[i].key)
  OBVIOUS
<1>3. p \in DOMAIN c /\ c[p].key = c[i].key
  BY <1>1, <1>2, PositionFound
<1> QED
  BY <1>1, <1>2, <1>3 DEF Distinct

\* The list never has two entries for a name.
LEMMA WalkDistinct ==
  ASSUME IInv, NEW q, Here(q)
  PROVE  /\ Walk \in Seq(Entry) /\ Len(Walk) = Len(q) /\ Distinct(Walk)
         /\ DOMAIN Walk = 1..Len(q)
         /\ \A i \in 1..Len(q) : Walk[i] = [key |-> key[q[i]], data |-> data[q[i]]]
<1>1. PICK c : c = Walk
  OBVIOUS
<1>2. c = [i \in 1..Len(q) |-> [key |-> key[q[i]], data |-> data[q[i]]]]
  BY <1>1, ListFacts DEF Read
<1>3. c \in Seq(Entry) /\ Len(c) = Len(q)
  <2>1. c \in [1..Len(q) -> Entry] /\ Len(q) \in Nat
    BY <1>2, ListFacts DEF Entry
  <2> QED
    BY <2>1
<1>4. Distinct(c)
  <2> SUFFICES ASSUME NEW i \in 1..Len(q), NEW j \in 1..Len(q), c[i].key = c[j].key
               PROVE  i = j
    BY <1>2 DEF Distinct
  <2>1. key[q[i]] = key[q[j]] /\ q[i] \in live /\ q[j] \in live
    BY <1>2, ListFacts
  <2>2. q[i] = q[j]
    BY <2>1 DEF IInv, Maps
  <2> QED
    BY <2>2, ListFacts
<1> QED
  BY <1>1, <1>2, <1>3, <1>4

\* Where the node that ht_get finds is in the list.
LEMMA Found ==
  ASSUME IInv, NEW q, Here(q), NEW k \in Keys, Lookup(k) # Null
  PROVE  \E i \in 1..Len(q) :
           /\ q[i] = Lookup(k) /\ key[q[i]] = k /\ q[i] \in live
           /\ Cached(Walk, k) /\ Position(Walk, k) = i
           /\ Walk[i] = [key |-> k, data |-> data[q[i]]]
<1>1. Lookup(k) \in live /\ key[Lookup(k)] = k
  BY LookupMisses DEF IInv
<1>2. PICK i \in 1..Len(q) : q[i] = Lookup(k)
  BY <1>1, ListFacts DEF Here, Listing, In
<1>3. Walk[i] = [key |-> k, data |-> data[q[i]]]
  BY <1>1, <1>2, WalkDistinct
<1>4. Walk[i].key = k /\ i \in DOMAIN Walk /\ Distinct(Walk)
  BY <1>3, WalkDistinct
<1>5. Cached(Walk, k) /\ Position(Walk, k) = i
  BY <1>4, PositionIs
<1> QED
  BY <1>1, <1>2, <1>3, <1>5

\* The other nodes, when one is taken out.
LEMMA WithoutNodes ==
  ASSUME IInv, NEW q, Here(q), NEW i \in 1..Len(q)
  PROVE  \A j \in 1..Len(Without(q, i)) :
           /\ Without(q, i)[j] # q[i] /\ Without(q, i)[j] \in live /\ Without(q, i)[j] \in Nodes
           /\ key[Without(q, i)[j]] \in Keys /\ data[Without(q, i)[j]] \in Values
<1>1. PICK w : w = Without(q, i)
  OBVIOUS
<1>2. /\ q \in Seq(Nodes) /\ i \in DOMAIN q /\ Len(q) \in Nat
      /\ \A a, b \in 1..Len(q) : q[a] = q[b] => a = b
  BY ListFacts
<1>3. Len(w) = Len(q) - 1 /\ \A j \in 1..(Len(q) - 1) : w[j] = IF j < i THEN q[j] ELSE q[j + 1]
  BY <1>1, <1>2, WithoutElements
<1>4. ASSUME NEW j \in 1..Len(w) PROVE \E m \in 1..Len(q) : m # i /\ w[j] = q[m]
  <2>1. CASE j < i
    BY <1>2, <1>3, <2>1
  <2>2. CASE ~(j < i)
    <3>1. j + 1 \in 1..Len(q) /\ j + 1 # i /\ w[j] = q[j + 1]
      BY <1>2, <1>3, <2>2
    <3> QED
      BY <3>1
  <2> QED
    BY <2>1, <2>2
<1> QED
  BY <1>1, <1>2, <1>4, ListFacts

\* Nothing is found under a name that the list does not have.
LEMMA NotFound ==
  ASSUME IInv, NEW q, Here(q), NEW k \in Keys, Lookup(k) = Null
  PROVE  ~Cached(Walk, k) /\ \A n \in live : key[n] # k
<1>1. \A n \in live : key[n] # k
  BY LookupMisses DEF IInv
<1>2. \A i \in DOMAIN Walk : Walk[i].key # k
  <2>1. \A i \in 1..Len(q) : Walk[i] = [key |-> key[q[i]], data |-> data[q[i]]]
    BY WalkDistinct
  <2>2. \A i \in 1..Len(q) : q[i] \in live
    BY ListFacts
  <2>3. DOMAIN Walk = 1..Len(q)
    BY WalkDistinct
  <2> QED
    BY <1>1, <2>1, <2>2, <2>3
<1> QED
  BY <1>1, <1>2 DEF Cached

\* What a step that makes l the list leaves.
LEMMA Afterwards ==
  ASSUME NEW l, NEW r, Becomes(l), Listing(l, live', r), Len(r) = size'
  PROVE  Here(r)' /\ Walk' = Read(key', data', r)
<1>1. Lists(l, r)
  BY DEF Listing
<1>2. PICK c : c = Current'
  OBVIOUS
<1>3. c.prev = l.prev /\ c.next = l.next /\ c.head = l.head /\ c.tail = l.tail
  BY <1>2 DEF Current, Becomes
<1>4. Lists(c, r)
  BY <1>1, <1>3 DEF Lists
<1>5. Listing(c, live', r)
  BY <1>4 DEF Listing
<1> QED
  BY <1>1, <1>2, <1>5, WalkNext DEF Here

-----------------------------------------------------------------------------
(* The calls.                                                               *)

\* cache_get: the node moves to the front.
LEMMA GetStep ==
  ASSUME IInv, NEW k \in Keys, Get(k)
  PROVE  IInv' /\ Walk' = Touch(Walk, k)
<1>1. PICK q : Here(q)
  BY DEF IInv
<1>2. PICK i \in 1..Len(q) :
        /\ q[i] = Lookup(k) /\ key[q[i]] = k /\ q[i] \in live
        /\ Cached(Walk, k) /\ Position(Walk, k) = i
        /\ Walk[i] = [key |-> k, data |-> data[q[i]]]
  BY <1>1, Found DEF Get
<1>3. PICK n, w, r, l : /\ n = q[i] /\ w = Without(q, i) /\ r = <<n>> \o w
                        /\ l = AttachFront(Detach(Current, n), n)
  OBVIOUS
<1>4. /\ q \in Seq(Nodes) /\ i \in DOMAIN q /\ n \in Nodes /\ w \in Seq(Nodes)
      /\ \A j \in 1..Len(q) : key[q[j]] \in Keys /\ data[q[j]] \in Values
      /\ Walk = Read(key, data, q)
  BY <1>1, <1>2, <1>3, ListFacts, WithoutElements
<1>5. Listing(l, live, r) /\ Len(r) = size
  <2>1. Listing(Current, live, q) /\ Len(q) = size
    BY <1>1, ListFacts
  <2>2. /\ Listing(AttachFront(Detach(Current, q[i]), q[i]), live, <<q[i]>> \o Without(q, i))
        /\ Len(<<q[i]>> \o Without(q, i)) = Len(q)
    BY <1>4, <2>1, Moved
  <2> QED
    BY <1>3, <2>1, <2>2
<1>6. Becomes(l) /\ UNCHANGED <<live, key, data, size, buckets>>
  BY <1>2, <1>3 DEF Get
<1>7. Here(r)' /\ Walk' = Read(key, data, r)
  BY <1>5, <1>6, Afterwards
<1>8. IInv'
  BY <1>6, <1>7 DEF IInv, Fields
<1>9. \A x \in {n} \cup {w[j] : j \in 1..Len(w)} : key[x] \in Keys /\ data[x] \in Values
  BY <1>1, <1>2, <1>3, <1>4, WithoutNodes
<1>10. Read(key, data, r) = <<[key |-> k, data |-> data[n]]>> \o Read(key, data, w)
  BY <1>2, <1>3, <1>4, <1>9, ReadFront
<1>11. Read(key, data, w) = Without(Walk, i)
  BY <1>3, <1>4, ReadWithout
<1>12. Touch(Walk, k) = <<Walk[i]>> \o Without(Walk, i)
  BY <1>2 DEF Touch, ToFront
<1> QED
  BY <1>2, <1>3, <1>7, <1>8, <1>10, <1>11, <1>12

\* cache_put of a name that is there: new data, and the node moves to the front.
LEMMA RefreshStep ==
  ASSUME IInv, NEW k \in Keys, NEW d \in Values, Refresh(k, d)
  PROVE  IInv' /\ Walk' = Store(Walk, k, d)
<1>1. PICK q : Here(q)
  BY DEF IInv
<1>2. PICK i \in 1..Len(q) :
        /\ q[i] = Lookup(k) /\ key[q[i]] = k /\ q[i] \in live
        /\ Cached(Walk, k) /\ Position(Walk, k) = i
  BY <1>1, Found DEF Refresh
<1>3. PICK n, w, r, l : /\ n = q[i] /\ w = Without(q, i) /\ r = <<n>> \o w
                        /\ l = AttachFront(Detach(Current, n), n)
  OBVIOUS
<1>4. /\ q \in Seq(Nodes) /\ i \in DOMAIN q /\ n \in Nodes /\ w \in Seq(Nodes)
      /\ \A j \in 1..Len(q) : key[q[j]] \in Keys /\ data[q[j]] \in Values
      /\ Walk = Read(key, data, q)
  BY <1>1, <1>2, <1>3, ListFacts, WithoutElements
<1>5. Listing(l, live, r) /\ Len(r) = size
  <2>1. Listing(Current, live, q) /\ Len(q) = size
    BY <1>1, ListFacts
  <2>2. /\ Listing(AttachFront(Detach(Current, q[i]), q[i]), live, <<q[i]>> \o Without(q, i))
        /\ Len(<<q[i]>> \o Without(q, i)) = Len(q)
    BY <1>4, <2>1, Moved
  <2> QED
    BY <1>3, <2>1, <2>2
<1>6. /\ Becomes(l) /\ UNCHANGED <<live, key, size, buckets>>
      /\ data' = [data EXCEPT ![n] = d]
  BY <1>2, <1>3 DEF Refresh
<1>7. Here(r)' /\ Walk' = Read(key, data', r)
  BY <1>5, <1>6, Afterwards
<1>8. IInv'
  <2>1. data' \in [Nodes -> Values \cup {Null}] /\ \A x \in live : data'[x] \in Values
    BY <1>4, <1>6 DEF IInv, Fields, Maps
  <2>2. Fields'
    BY <1>6, <2>1 DEF IInv, Fields
  <2> QED
    BY <1>6, <1>7, <2>2 DEF IInv
<1>9. \A x \in {n} \cup {w[j] : j \in 1..Len(w)} :
        key[x] \in Keys /\ data[x] \in Values /\ x \in Nodes
  BY <1>1, <1>2, <1>3, <1>4, WithoutNodes
<1>10. \A x \in {n} \cup {w[j] : j \in 1..Len(w)} : key[x] \in Keys /\ data'[x] \in Values
  BY <1>4, <1>6, <1>9 DEF IInv, Fields
<1>11. Read(key, data', r) = <<[key |-> k, data |-> d]>> \o Read(key, data', w)
  <2>1. data'[n] = d
    BY <1>4, <1>6 DEF IInv, Fields
  <2> QED
    BY <1>2, <1>3, <1>4, <1>10, <2>1, ReadFront
<1>12. Read(key, data', w) = Read(key, data, w)
  <2>1. \A j \in 1..Len(w) : w[j] # n
    BY <1>1, <1>2, <1>3, WithoutNodes
  <2>2. \A j \in 1..Len(w) : data'[w[j]] = data[w[j]]
    BY <1>6, <1>9, <2>1 DEF IInv, Fields
  <2> QED
    BY <2>2, ReadSame
<1>13. Read(key, data, w) = Without(Walk, i)
  BY <1>3, <1>4, ReadWithout
<1>14. Store(Walk, k, d) = <<[key |-> k, data |-> d]>> \o Without(Walk, i)
  BY <1>2 DEF Store, ToFront
<1> QED
  BY <1>7, <1>8, <1>11, <1>12, <1>13, <1>14

\* cache_remove: the node and its entry go.
LEMMA RemoveStep ==
  ASSUME IInv, NEW k \in Keys, Remove(k)
  PROVE  IInv' /\ Walk' = Drop(Walk, k)
<1>1. PICK q : Here(q)
  BY DEF IInv
<1>2. PICK i \in 1..Len(q) :
        /\ q[i] = Lookup(k) /\ key[q[i]] = k /\ q[i] \in live
        /\ Cached(Walk, k) /\ Position(Walk, k) = i
  BY <1>1, Found DEF Remove
<1>3. PICK n, w, l : n = q[i] /\ w = Without(q, i) /\ l = Detach(Current, n)
  OBVIOUS
<1>4. /\ q \in Seq(Nodes) /\ i \in DOMAIN q /\ Len(q) = size /\ size \in Nat
      /\ \A j \in 1..Len(q) : key[q[j]] \in Keys /\ data[q[j]] \in Values
      /\ Walk = Read(key, data, q) /\ size > 0
  BY <1>1, <1>2, ListFacts
<1>5. Listing(l, live \ {n}, w) /\ Len(w) = size - 1
  BY <1>1, <1>2, <1>3, ListFacts, Dropped, SMTT(30)
<1>6. /\ Becomes(l) /\ UNCHANGED <<key, data>> /\ live' = live \ {n} /\ size' = size - 1
      /\ buckets' = HtRemove(buckets, key[n])
  BY <1>2, <1>3, <1>4 DEF Remove
<1>7. Here(w)' /\ Walk' = Read(key, data, w)
  BY <1>5, <1>6, Afterwards
<1>8. IInv'
  <2>1. Fields' /\ size' <= Capacity
    BY <1>4, <1>6, CapacityAssumption DEF IInv, Fields
  <2>2. Maps(buckets', live', key')
    BY <1>2, <1>3, <1>6, RemoveMaps DEF IInv
  <2> QED
    BY <1>7, <2>1, <2>2 DEF IInv
<1>9. Read(key, data, w) = Without(Walk, i)
  BY <1>3, <1>4, ReadWithout
<1> QED
  BY <1>2, <1>7, <1>8, <1>9 DEF Drop

\* Putting an entry in front and dropping the last one.
LEMMA LastOut ==
  ASSUME NEW E, NEW c \in Seq(E), NEW e \in E, Len(c) > 0
  PROVE  Without(<<e>> \o c, Len(c) + 1) = <<e>> \o SubSeq(c, 1, Len(c) - 1)
<1>1. PICK r, p, z, t, m : /\ r = <<e>> \o c /\ m = Len(c) /\ p = SubSeq(c, 1, m - 1)
                           /\ z = Without(r, m + 1) /\ t = <<e>> \o p
  OBVIOUS
<1>2. m \in Nat /\ m > 0 /\ \A j \in 1..m : c[j] \in E
  BY <1>1, SeqRange
<1>3. /\ r \in Seq(E) /\ Len(r) = m + 1 /\ r[1] = e
      /\ \A j \in 2..(m + 1) : r[j] = c[j - 1]
  BY <1>1, FrontElements
<1>4. m + 1 \in DOMAIN r
  BY <1>2, <1>3, SeqRange
<1>5. z \in Seq(E) /\ Len(z) = m /\ \A j \in 1..m : z[j] = r[j]
  <2>1. /\ z \in Seq(E) /\ Len(z) = Len(r) - 1
        /\ \A j \in 1..(Len(r) - 1) : z[j] = IF j < m + 1 THEN r[j] ELSE r[j + 1]
    BY <1>1, <1>3, <1>4, WithoutElements
  <2> QED
    BY <1>2, <1>3, <2>1
<1>6. p \in Seq(E) /\ Len(p) = m - 1 /\ \A j \in 1..(m - 1) : p[j] = c[j]
  <2>1. \A j \in 1..(m - 1) : c[j] \in E
    BY <1>2
  <2>2. /\ SubSeq(c, 1, m - 1) \in Seq(E)
        /\ Len(SubSeq(c, 1, m - 1)) = IF 1 <= m - 1 THEN m - 1 - 1 + 1 ELSE 0
        /\ \A j \in 1..(m - 1 - 1 + 1) : SubSeq(c, 1, m - 1)[j] = c[1 + j - 1]
    BY <1>2, <2>1, SubSeqProperties
  <2> QED
    BY <1>1, <1>2, <2>2
<1>7. /\ t \in Seq(E) /\ Len(t) = m - 1 + 1 /\ t[1] = e
      /\ \A j \in 2..(m - 1 + 1) : t[j] = p[j - 1]
  BY <1>1, <1>6, FrontElements
<1>8. ASSUME NEW j \in 1..m PROVE z[j] = t[j]
  <2>1. CASE j = 1
    BY <1>2, <1>3, <1>5, <1>7, <2>1
  <2>2. CASE j # 1
    <3>1. j \in 2..m /\ j - 1 \in 1..(m - 1) /\ j \in 2..(m + 1) /\ m - 1 + 1 = m
      BY <1>2, <2>2
    <3> QED
      BY <1>3, <1>5, <1>6, <1>7, <3>1
  <2> QED
    BY <2>1, <2>2
<1>9. z = t
  BY <1>2, <1>5, <1>7, <1>8, SeqEqual
<1> QED
  BY <1>1, <1>9

\* The fields kz and dz are those there were, but for the new node's.
Fills(kz, dz, n, k, d) ==
  /\ n \in Nodes \ live /\ kz[n] = k /\ dz[n] = d
  /\ \A x \in live : kz[x] = key[x] /\ dz[x] = data[x]

\* A new node and its entry, before anything is evicted.
LEMMA Inserted ==
  ASSUME IInv, NEW q, Here(q), NEW k \in Keys, NEW d \in Values, NEW n,
         Lookup(k) = Null, NEW kz, NEW dz, Fills(kz, dz, n, k, d)
  PROVE  /\ Listing(AttachFront(Current, n), live \cup {n}, <<n>> \o q)
         /\ Len(<<n>> \o q) = size + 1
         /\ Maps(HtPut(buckets, k, n), live \cup {n}, kz)
         /\ Read(kz, dz, <<n>> \o q) = <<[key |-> k, data |-> d]>> \o Walk
         /\ \A x \in live \cup {n} : kz[x] \in Keys /\ dz[x] \in Values
         /\ [key |-> k, data |-> d] \in Entry
<1>1. /\ q \in Seq(Nodes) /\ Len(q) = size /\ DOMAIN q = 1..Len(q)
      /\ \A i \in 1..Len(q) : q[i] \in live /\ q[i] \in Nodes
      /\ Listing(Current, live, q) /\ Walk = Read(key, data, q)
  BY ListFacts
<1>0. /\ n \in Nodes \ live /\ kz[n] = k /\ dz[n] = d
      /\ \A x \in live : kz[x] = key[x] /\ dz[x] = data[x]
  BY DEF Fills
<1>2. /\ Listing(AttachFront(Current, n), live \cup {n}, <<n>> \o q)
      /\ Len(<<n>> \o q) = Len(q) + 1
  BY <1>0, <1>1, Added
<1>3. \A x \in live \cup {n} : kz[x] \in Keys /\ dz[x] \in Values
  BY <1>0 DEF IInv, Fields, Maps
<1>4. Maps(HtPut(buckets, k, n), live \cup {n}, kz)
  <2>1. Maps(buckets, live, key) /\ \A m \in live : key[m] # k /\ kz[m] = key[m]
    BY <1>0, NotFound DEF IInv
  <2> QED
    BY <1>0, <2>1, PutMaps
<1>5. Read(kz, dz, <<n>> \o q) = <<[key |-> k, data |-> d]>> \o Read(kz, dz, q)
  <2>1. \A x \in {n} \cup {q[j] : j \in 1..Len(q)} : kz[x] \in Keys /\ dz[x] \in Values
    BY <1>0, <1>1, <1>3
  <2>2. Read(kz, dz, <<n>> \o q) = <<[key |-> kz[n], data |-> dz[n]]>> \o Read(kz, dz, q)
    BY <1>0, <1>1, <2>1, ReadFront
  <2> QED
    BY <1>0, <2>2
<1>6. Read(kz, dz, q) = Read(key, data, q)
  <2>1. \A j \in 1..Len(q) : kz[q[j]] = key[q[j]] /\ dz[q[j]] = data[q[j]]
    BY <1>0, <1>1
  <2> QED
    BY <2>1 DEF Read
<1> QED
  BY <1>1, <1>2, <1>3, <1>4, <1>5, <1>6 DEF Entry

\* cache_put of a new name: a node in front, and the last one out when there is
\* no room.
LEMMA InsertStep ==
  ASSUME IInv, NEW k \in Keys, NEW d \in Values, NEW n \in Nodes, Insert(k, d, n)
  PROVE  IInv' /\ Walk' = Store(Walk, k, d)
<1>1. PICK q : Here(q)
  BY DEF IInv
<1>2. PICK r, l, e, bs, kz, dz :
                            /\ r = <<n>> \o q /\ l = AttachFront(Current, n)
                         /\ e = [key |-> k, data |-> d] /\ bs = HtPut(buckets, k, n)
                            /\ kz = key' /\ dz = data'
  OBVIOUS
<1>3. /\ Lookup(k) = Null /\ n \in Nodes \ live
      /\ kz = [key EXCEPT ![n] = k] /\ dz = [data EXCEPT ![n] = d]
  BY <1>2 DEF Insert
<1>4. /\ Listing(l, live \cup {n}, r) /\ Len(r) = size + 1
      /\ Maps(bs, live \cup {n}, kz)
      /\ Read(kz, dz, r) = <<e>> \o Walk
      /\ kz \in [Nodes -> Keys \cup {Null}] /\ dz \in [Nodes -> Values \cup {Null}]
      /\ \A x \in live \cup {n} : kz[x] \in Keys /\ dz[x] \in Values
      /\ \A x \in live : kz[x] = key[x]
      /\ e \in Entry
  <2>1. /\ kz \in [Nodes -> Keys \cup {Null}] /\ dz \in [Nodes -> Values \cup {Null}]
        /\ kz[n] = k /\ dz[n] = d
        /\ \A x \in live : kz[x] = key[x] /\ dz[x] = data[x]
    BY <1>3 DEF IInv, Fields, Maps
  <2>2. /\ Listing(AttachFront(Current, n), live \cup {n}, <<n>> \o q)
        /\ Len(<<n>> \o q) = size + 1
        /\ Maps(HtPut(buckets, k, n), live \cup {n}, kz)
        /\ Read(kz, dz, <<n>> \o q) = <<[key |-> k, data |-> d]>> \o Walk
        /\ \A x \in live \cup {n} : kz[x] \in Keys /\ dz[x] \in Values
        /\ [key |-> k, data |-> d] \in Entry
    <3>1. Lookup(k) = Null /\ Fills(kz, dz, n, k, d)
      BY <1>3, <2>1 DEF Fills
    <3> QED
      BY <1>1, <3>1, Inserted
  <2> QED
    BY <1>2, <2>1, <2>2
<1>5. /\ size \in Nat /\ size <= Capacity /\ Capacity \in Nat /\ Capacity > 0
      /\ Walk \in Seq(Entry) /\ Len(Walk) = size /\ ~Cached(Walk, k)
      /\ q \in Seq(Nodes) /\ Len(q) = size /\ \A i \in 1..size : q[i] \in live /\ q[i] \in Nodes
  BY <1>1, <1>3, ListFacts, WalkDistinct, NotFound, CapacityAssumption DEF IInv
<1>6. /\ r \in Seq(Nodes) /\ DOMAIN r = 1..(size + 1) /\ r[1] = n
      /\ \A i \in 2..(size + 1) : r[i] = q[i - 1]
      /\ \A i \in 1..(size + 1) : r[i] \in Nodes
  <2>1. /\ r \in Seq(Nodes) /\ r[1] = n /\ \A i \in 2..(size + 1) : r[i] = q[i - 1]
    BY <1>2, <1>5, FrontElements
  <2> QED
    BY <1>4, <1>5, <2>1, SeqRange
<1>7. PICK v : v = l.tail
  OBVIOUS
<1>8. v = r[size + 1] /\ v # Null
  <2>1. r # <<>> /\ Lists(l, r)
    BY <1>4, <1>5, <1>6, SeqRange DEF Listing
  <2>2. v = r[Len(r)]
    BY <1>7, <2>1 DEF Lists
  <2> QED
    BY <1>4, <1>5, <1>6, <2>2, CacheAssumption
<1>9. CASE ~(size + 1 > Capacity)
  <2>1. Becomes(l) /\ buckets' = bs /\ live' = live \cup {n} /\ size' = size + 1
    BY <1>2, <1>7, <1>9 DEF Insert
  <2>2. Here(r)' /\ Walk' = Read(kz, dz, r)
    BY <1>2, <1>4, <2>1, Afterwards
  <2>3. IInv'
    <3>1. Fields'
      BY <1>2, <1>4, <2>1 DEF Fields
    <3>2. size' <= Capacity
      BY <1>5, <1>9, <2>1
    <3>3. Maps(buckets', live', key')
      BY <1>2, <1>4, <2>1
    <3> QED
      BY <2>2, <3>1, <3>2, <3>3 DEF IInv
  <2>4. SubSeq(Walk, 1, size) = Walk
    <3>1. PICK c : c = Walk
      OBVIOUS
    <3>2. c \in Seq(Entry) /\ Len(c) = size
      BY <1>5, <3>1
    <3>3. SubSeq(c, 1, Len(c)) = c
      BY <3>2
    <3> QED
      BY <3>1, <3>2, <3>3
  <2>5. Store(Walk, k, d) = <<e>> \o Walk
    BY <1>2, <1>5, <1>9, <2>4 DEF Store
  <2> QED
    BY <1>4, <2>2, <2>3, <2>5
<1>10. CASE size + 1 > Capacity
  <2>0. size = Capacity /\ size > 0
    BY <1>5, <1>10
  <2>1. PICK i, w, a : i = size + 1 /\ w = Without(r, i) /\ a = Detach(l, v)
    OBVIOUS
  <2>2. i \in DOMAIN r /\ r[i] = v
    BY <1>5, <1>6, <1>8, <2>1
  <2>3. Listing(a, (live \cup {n}) \ {v}, w) /\ Len(w) = size
    <3>1. /\ Listing(Detach(l, r[i]), (live \cup {n}) \ {r[i]}, Without(r, i))
          /\ Len(Without(r, i)) = Len(r) - 1
      BY <1>4, <2>2, Dropped
    <3> QED
      BY <1>4, <1>5, <2>1, <2>2, <3>1
  <2>4. v \in live
    BY <1>5, <1>6, <1>8, <2>0
  <2>5. /\ Becomes(a) /\ live' = (live \cup {n}) \ {v} /\ size' = size
        /\ buckets' = HtRemove(bs, kz[v])
    BY <1>2, <1>4, <1>7, <1>8, <1>10, <2>1, <2>4 DEF Insert
  <2>6. Here(w)' /\ Walk' = Read(kz, dz, w)
    BY <1>2, <2>3, <2>5, Afterwards
  <2>7. IInv'
    <3>1. Fields'
      BY <1>2, <1>4, <2>5 DEF Fields
    <3>2. size' <= Capacity
      BY <1>5, <2>5
    <3>3. Maps(buckets', live', key')
      BY <1>2, <1>4, <2>4, <2>5, RemoveMaps
    <3> QED
      BY <2>6, <3>1, <3>2, <3>3 DEF IInv
  <2>8. Read(kz, dz, w) = Without(Read(kz, dz, r), i)
    <3>1. \A j \in 1..Len(r) : r[j] \in live \cup {n}
      <4>1. \A j \in 1..(size + 1) : In(r[j], r)
        BY <1>6 DEF In
      <4> QED
        BY <1>4, <4>1 DEF Listing
    <3>2. \A j \in 1..Len(r) : kz[r[j]] \in Keys /\ dz[r[j]] \in Values
      BY <1>4, <3>1
    <3> QED
      BY <1>6, <2>1, <2>2, <3>2, ReadWithout
  <2>9. Without(<<e>> \o Walk, i) = <<e>> \o SubSeq(Walk, 1, Capacity - 1)
    BY <1>4, <1>5, <2>0, <2>1, LastOut
  <2>10. Store(Walk, k, d) = <<e>> \o SubSeq(Walk, 1, Capacity - 1)
    BY <1>2, <1>5, <2>0 DEF Store
  <2> QED
    BY <1>4, <2>6, <2>7, <2>8, <2>9, <2>10
<1> QED
  BY <1>9, <1>10

-----------------------------------------------------------------------------
(* The theorems.                                                            *)

LEMMA InitInvariant == Init => IInv /\ Walk = <<>>
<1> SUFFICES ASSUME Init PROVE IInv /\ Walk = <<>>
  OBVIOUS
<1>1. Lists(Current, <<>>)
  BY DEF Init, Lists, Current, Links
<1>2. Here(<<>>)
  BY <1>1 DEF Init, Here, Listing, In
<1>3. Maps(buckets, live, key)
  <2>1. \A b \in Buckets : buckets[b] = <<>> /\ DOMAIN buckets[b] = {}
    BY DEF Init
  <2>2. buckets \in [Buckets -> Seq(HtEntry)]
    BY DEF Init
  <2> QED
    BY <2>1, <2>2 DEF Init, Maps, In, Distinct
<1>4. Fields /\ size <= Capacity
  BY CapacityAssumption DEF Init, Fields
<1>5. Walk = <<>>
  <2>1. Walk = Read(key, data, <<>>)
    BY <1>1, WalkIs DEF Init
  <2>2. Read(key, data, <<>>) = <<>>
    BY DEF Read
  <2> QED
    BY <2>1, <2>2
<1> QED
  BY <1>2, <1>3, <1>4, <1>5 DEF IInv

LEMMA NextInvariant == IInv /\ [Next]_vars => IInv'
<1> SUFFICES ASSUME IInv, [Next]_vars PROVE IInv'
  OBVIOUS
<1>1. CASE UNCHANGED vars
  BY <1>1 DEF IInv, vars, list, Fields, Here, Current
<1>2. ASSUME NEW k \in Keys, Get(k) PROVE IInv'
  BY <1>2, GetStep
<1>3. ASSUME NEW k \in Keys, NEW d \in Values, Refresh(k, d) PROVE IInv'
  BY <1>3, RefreshStep
<1>4. ASSUME NEW k \in Keys, NEW d \in Values, NEW n \in Nodes, Insert(k, d, n) PROVE IInv'
  BY <1>4, InsertStep
<1>5. ASSUME NEW k \in Keys, Remove(k) PROVE IInv'
  BY <1>5, RemoveStep
<1> QED
  BY <1>1, <1>2, <1>3, <1>4, <1>5 DEF Next

\* Every reachable state satisfies the invariant.
THEOREM Invariant == Spec => []IInv
<1>1. Init => IInv
  BY InitInvariant
<1>2. IInv /\ [Next]_vars => IInv'
  BY NextInvariant
<1> QED
  BY <1>1, <1>2, PTL DEF Spec

\* Every variable of the cache has its type; size is never above the capacity.
THEOREM TypesKept == Spec => []TypeOK
<1>1. IInv => TypeOK
  <2> SUFFICES ASSUME IInv PROVE TypeOK
    OBVIOUS
  <2>1. PICK q : Here(q)
    BY DEF IInv
  <2>2. /\ q \in Seq(Nodes) /\ Len(q) \in Nat /\ Len(q) = size /\ Lists(Current, q)
        /\ (q = <<>> <=> Len(q) = 0) /\ \A i \in 1..Len(q) : q[i] \in Nodes
    BY <2>1, ListFacts, SeqRange DEF Listing
  <2>3. head \in Links /\ tail \in Links /\ prev \in [Nodes -> Links] /\ next \in [Nodes -> Links]
    BY <2>2 DEF Lists, Current, Links
  <2>4. size \in 0..Capacity
    BY <2>2, CapacityAssumption DEF IInv
  <2> QED
    BY <2>3, <2>4 DEF IInv, Fields, Maps, HtEntry, TypeOK
<1> QED
  BY <1>1, Invariant, PTL

\* The links of the list agree with one another and size counts the nodes, after
\* any number of cache calls.
THEOREM LinksAgree == Spec => []Linked
<1>1. IInv => Linked
  <2> SUFFICES ASSUME IInv PROVE Linked
    OBVIOUS
  <2>0. Null \notin Nodes
    BY CacheAssumption
  <2>1. PICK q : Here(q)
    BY DEF IInv
  <2>2. /\ q \in Seq(Nodes) /\ Len(q) \in Nat /\ Len(q) = size /\ DOMAIN q = 1..Len(q)
        /\ (q = <<>> <=> Len(q) = 0)
        /\ \A i \in 1..Len(q) : q[i] \in live /\ q[i] \in Nodes
        /\ \A i, j \in 1..Len(q) : q[i] = q[j] => i = j
    BY <2>1, ListFacts, SeqRange
  <2>3. \A n \in live : \E i \in 1..Len(q) : q[i] = n
    BY <2>1, <2>2 DEF Here, Listing, In
  <2>4. size = Cardinality(live)
    <3>1. q \in Bijection(1..Len(q), live)
      BY <2>2, <2>3 DEF Bijection, Injection, Surjection, IsInjective
    <3> QED
      BY <2>2, <3>1, FS_CountingElements DEF ExistsBijection
  <2>5. /\ head = IF q = <<>> THEN Null ELSE q[1]
        /\ tail = IF q = <<>> THEN Null ELSE q[Len(q)]
        /\ \A i \in 1..Len(q) : /\ prev[q[i]] = IF i = 1 THEN Null ELSE q[i - 1]
                                /\ next[q[i]] = IF i = Len(q) THEN Null ELSE q[i + 1]
    BY <2>1, <2>2 DEF Here, Listing, Lists, Current
  <2>6. ASSUME NEW n \in live
        PROVE  /\ next[n] # Null => next[n] \in live /\ prev[next[n]] = n
               /\ prev[n] # Null => prev[n] \in live /\ next[prev[n]] = n
               /\ (prev[n] = Null <=> head = n) /\ (next[n] = Null <=> tail = n)
    <3>1. PICK i \in 1..Len(q) : q[i] = n
      BY <2>3
    <3>2. CASE i # Len(q)
      <4>1. i + 1 \in 1..Len(q) /\ i + 1 # 1 /\ i + 1 - 1 = i
        BY <2>2, <3>2
      <4> QED
        BY <2>0, <2>2, <2>5, <3>1, <3>2, <4>1
    <3>3. CASE i = Len(q)
      BY <2>0, <2>2, <2>5, <3>1, <3>3
    <3> QED
      BY <3>2, <3>3
  <2>7. /\ head \in live \cup {Null} /\ tail \in live \cup {Null}
        /\ (head = Null <=> live = {}) /\ (tail = Null <=> live = {})
    <3>1. q = <<>> <=> live = {}
      BY <2>2, <2>3
    <3> QED
      BY <2>0, <2>2, <2>5, <3>1
  <2> QED
    BY <2>4, <2>6, <2>7 DEF IInv, Linked
<1> QED
  BY <1>1, Invariant, PTL

\* ht_get finds every node under its name, and no entry leads to a freed node.
THEOREM TableExact == Spec => []MapExact
<1>1. IInv => MapExact
  <2> SUFFICES ASSUME IInv PROVE MapExact
    OBVIOUS
  <2>1. \A b \in Buckets : \A i \in DOMAIN buckets[b] :
          buckets[b][i].node \in live /\ key[buckets[b][i].node] = buckets[b][i].key
    BY EntryNode DEF IInv
  <2>2. \A n \in live : Lookup(key[n]) = n
    BY LookupFinds DEF IInv
  <2> QED
    BY <2>1, <2>2 DEF MapExact
<1> QED
  BY <1>1, Invariant, PTL

\* The operators of the promised list are those of Recency.
LEMMA SameOperators ==
  \A c, k, d : /\ Lru!Touch(c, k) = Touch(c, k) /\ Lru!Drop(c, k) = Drop(c, k)
               /\ Lru!Store(c, k, d) = Store(c, k, d)
BY DEF Lru!Touch, Lru!Drop, Lru!Store, Lru!ToFront, Lru!Without, Lru!Cached, Lru!Position,
       Touch, Drop, Store, ToFront, Without, Cached, Position

\* Each cache call is the call of the same name on the promised list.
LEMMA CallsImplement == IInv => CallsAgree
<1> SUFFICES ASSUME IInv, NEW k \in Keys
             PROVE  /\ Get(k) => Lru!Get(k)
                    /\ Remove(k) => Lru!Remove(k)
                    /\ \A d \in Values :
                         Refresh(k, d) \/ (\E n \in Nodes : Insert(k, d, n)) => Lru!Put(k, d)
  BY DEF CallsAgree
<1>1. Get(k) => Lru!Get(k)
  BY GetStep, SameOperators DEF Lru!Get
<1>2. Remove(k) => Lru!Remove(k)
  BY RemoveStep, SameOperators DEF Lru!Remove
<1>3. ASSUME NEW d \in Values, Refresh(k, d) PROVE Lru!Put(k, d)
  BY <1>3, RefreshStep, SameOperators DEF Lru!Put
<1>4. ASSUME NEW d \in Values, NEW n \in Nodes, Insert(k, d, n) PROVE Lru!Put(k, d)
  BY <1>4, InsertStep, SameOperators DEF Lru!Put
<1> QED
  BY <1>1, <1>2, <1>3, <1>4

\* The pointers implement the list in the order of use: a lookup counts as a use,
\* what is evicted was used longest ago, and nothing else disappears.
THEOREM RecencyImplemented == Spec => ImplementsRecency
<1>1. Init => Lru!Init
  BY InitInvariant DEF Lru!Init
<1>2. IInv /\ [Next]_vars => [Lru!Next]_Walk
  <2> SUFFICES ASSUME IInv, [Next]_vars PROVE Lru!Next \/ Walk' = Walk
    OBVIOUS
  <2>1. CASE UNCHANGED vars
    BY <2>1 DEF vars, list, Walk, Order
  <2>2. CASE Next
    BY <2>2, CallsImplement DEF Next, CallsAgree, Lru!Next
  <2> QED
    BY <2>1, <2>2
<1>3. IInv /\ [Next]_vars => [CallsAgree]_vars
  BY CallsImplement
<1>4. Spec => Lru!Spec
  BY <1>1, <1>2, Invariant, PTL DEF Spec, Lru!Spec
<1>5. Spec => [][CallsAgree]_vars
  BY <1>3, Invariant, PTL DEF Spec
<1> QED
  BY <1>4, <1>5 DEF ImplementsRecency
=============================================================================
