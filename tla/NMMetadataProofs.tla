-------------------------- MODULE NMMetadataProofs --------------------------
(***************************************************************************)
(* The naming server's metadata stays exact.  IndInv has four parts that   *)
(* are kept separately: the objects with the trie and metadata.dat, the    *)
(* cache, the array of requests with its file, and the handlers that are   *)
(* in the middle of their work.  Two sections use it: a request is pending *)
(* once and granted once, and access is only taken away by RemoveAccess.   *)
(***************************************************************************)
EXTENDS NMMetadata, FiniteSetTheorems, SequenceTheorems, TLAPS

DataPart == DataTypes /\ TrieExact /\ OwnerCanWrite /\ DiskMatches

\* A cache that tells what the trie t tells.
Agrees(c, t) ==
  /\ c \in Seq(CacheEntry)
  /\ Distinct(c)
  /\ \A i \in DOMAIN c : t[c[i].key] = c[i].data

JobPart == threads \in [Threads -> Jobs] /\ JobsLocated

LEMMA Parts == IndInv <=> DataPart /\ Agrees(entries, trie) /\ RequestTypes /\ JobPart
BY DEF IndInv, TypeOK, DataPart, Agrees, JobPart, OneEntryPerName, CacheCoherent

----------------------------------------------------------------------------
(* What using, storing and dropping an entry do to a list without repeated  *)
(* keys: which entries are in it afterwards.                                *)

\* The entry is one of the list's.
Listed(e, c) == \E i \in DOMAIN c : c[i] = e

LEMMA WithoutElements ==
  ASSUME NEW E, NEW c \in Seq(E), NEW i \in DOMAIN c
  PROVE  /\ Without(c, i) \in Seq(E)
         /\ Len(Without(c, i)) = Len(c) - 1
         /\ \A j \in 1..(Len(c) - 1) :
              Without(c, i)[j] = IF j < i THEN c[j] ELSE c[j + 1]
<1> DEFINE a == SubSeq(c, 1, i - 1)
           b == SubSeq(c, i + 1, Len(c))
<1>1. i \in 1..Len(c) /\ Len(c) \in Nat /\ \A j \in 1..Len(c) : c[j] \in E
  BY LenProperties, ElementOfSeq
<1>2. /\ a \in Seq(E) /\ Len(a) = i - 1
      /\ \A j \in 1..(i - 1) : a[j] = c[j]
  <2>1. \A j \in 1..(i - 1) : c[j] \in E
    BY <1>1
  <2> HIDE DEF a
  <2>2. /\ SubSeq(c, 1, i - 1) \in Seq(E)
        /\ Len(SubSeq(c, 1, i - 1)) = IF 1 <= i - 1 THEN i - 1 - 1 + 1 ELSE 0
        /\ \A j \in 1..(i - 1 - 1 + 1) : SubSeq(c, 1, i - 1)[j] = c[1 + j - 1]
    BY <1>1, <2>1, SubSeqProperties
  <2> QED
    BY <1>1, <2>2 DEF a
<1>3. /\ b \in Seq(E) /\ Len(b) = Len(c) - i
      /\ \A j \in 1..(Len(c) - i) : b[j] = c[i + j]
  <2>1. \A j \in (i + 1)..Len(c) : c[j] \in E
    BY <1>1
  <2>2. /\ SubSeq(c, i + 1, Len(c)) \in Seq(E)
        /\ Len(SubSeq(c, i + 1, Len(c))) = IF i + 1 <= Len(c) THEN Len(c) - (i + 1) + 1 ELSE 0
        /\ \A j \in 1..(Len(c) - (i + 1) + 1) : SubSeq(c, i + 1, Len(c))[j] = c[i + 1 + j - 1]
    BY <1>1, <2>1, SubSeqProperties
  <2> QED
    BY <1>1, <2>2
<1> HIDE DEF a, b
<1>4. /\ a \o b \in Seq(E)
      /\ Len(a \o b) = Len(a) + Len(b)
      /\ \A j \in 1..(Len(a) + Len(b)) :
           (a \o b)[j] = IF j <= Len(a) THEN a[j] ELSE b[j - Len(a)]
  BY <1>2, <1>3, ConcatProperties
<1>5. Without(c, i) = a \o b
  BY DEF Without, a, b
<1>6. ASSUME NEW j \in 1..(Len(c) - 1)
      PROVE  (a \o b)[j] = IF j < i THEN c[j] ELSE c[j + 1]
  <2>1. CASE j < i
    BY <1>1, <1>2, <1>3, <1>4, <2>1
  <2>2. CASE ~(j < i)
    <3>1. (a \o b)[j] = b[j - (i - 1)]
      <4>1. Len(a) = i - 1 /\ Len(b) = Len(c) - i
        BY <1>2, <1>3
      <4>2. j \in 1..(Len(a) + Len(b)) /\ ~(j <= Len(a))
        BY <1>1, <2>2, <4>1
      <4>3. (a \o b)[j] = b[j - Len(a)]
        BY <1>4, <4>2
      <4> QED
        BY <4>1, <4>3
    <3>2. b[j - (i - 1)] = c[i + (j - (i - 1))]
      BY <1>1, <1>3, <2>2
    <3> QED
      BY <1>1, <2>2, <3>1, <3>2
  <2> QED
    BY <2>1, <2>2
<1>7. Len(a \o b) = Len(c) - 1
  <2>1. Len(a) = i - 1 /\ Len(b) = Len(c) - i /\ Len(a \o b) = Len(a) + Len(b)
    BY <1>2, <1>3, <1>4
  <2> QED
    BY <1>1, <2>1
<1>8. a \o b \in Seq(E)
  BY <1>4
<1> QED
  BY <1>5, <1>6, <1>7, <1>8

\* A list without one of its entries.
LEMMA WithoutEntries ==
  ASSUME NEW E, NEW c \in Seq(E), Distinct(c), NEW i \in DOMAIN c
  PROVE  /\ Without(c, i) \in Seq(E)
         /\ Distinct(Without(c, i))
         /\ \A j \in DOMAIN Without(c, i) :
              /\ Listed(Without(c, i)[j], c)
              /\ Without(c, i)[j].key # c[i].key
<1> DEFINE w == Without(c, i)
           at(j) == IF j < i THEN j ELSE j + 1
<1>1. /\ w \in Seq(E) /\ Len(w) = Len(c) - 1
      /\ \A j \in 1..(Len(c) - 1) : w[j] = c[at(j)]
  BY WithoutElements
<1>2. i \in 1..Len(c) /\ Len(c) \in Nat /\ DOMAIN c = 1..Len(c) /\ DOMAIN w = 1..(Len(c) - 1)
  BY <1>1, LenProperties
<1>3. \A j \in DOMAIN w : w[j] = c[at(j)] /\ at(j) \in DOMAIN c /\ at(j) # i
  BY <1>1, <1>2
<1>4. \A j, k \in DOMAIN w : at(j) = at(k) => j = k
  BY <1>2
<1> HIDE DEF w, at
<1>5. Distinct(w)
  BY <1>3, <1>4 DEF Distinct
<1>6. \A j \in DOMAIN w : Listed(w[j], c) /\ w[j].key # c[i].key
  BY <1>2, <1>3 DEF Distinct, Listed
<1> QED
  BY <1>1, <1>5, <1>6 DEF w

\* One entry more at the front, with a key of its own.
LEMMA FrontEntries ==
  ASSUME NEW E, NEW w \in Seq(E), Distinct(w), NEW e \in E,
         \A j \in DOMAIN w : w[j].key # e.key
  PROVE  /\ <<e>> \o w \in Seq(E)
         /\ Distinct(<<e>> \o w)
         /\ \A j \in DOMAIN (<<e>> \o w) :
              (<<e>> \o w)[j] = e \/ Listed((<<e>> \o w)[j], w)
<1>1. <<e>> \in Seq(E) /\ Len(<<e>>) = 1 /\ <<e>>[1] = e
  OBVIOUS
<1> DEFINE r == <<e>> \o w
<1>2. /\ r \in Seq(E) /\ Len(r) = 1 + Len(w)
      /\ \A j \in 1..(1 + Len(w)) : r[j] = IF j <= 1 THEN <<e>>[j] ELSE w[j - 1]
  BY <1>1, ConcatProperties
<1>3. DOMAIN w = 1..Len(w) /\ Len(w) \in Nat /\ DOMAIN r = 1..(1 + Len(w))
  BY <1>2, LenProperties
<1>4. r[1] = e /\ \A j \in DOMAIN r : j # 1 => j - 1 \in DOMAIN w /\ r[j] = w[j - 1]
  BY <1>1, <1>2, <1>3
<1> HIDE DEF r
<1>5. \A j \in DOMAIN r : r[j] = e \/ Listed(r[j], w)
  BY <1>4 DEF Listed
<1>6. Distinct(r)
  <2> SUFFICES ASSUME NEW j \in DOMAIN r, NEW k \in DOMAIN r, r[j].key = r[k].key
               PROVE  j = k
    BY DEF Distinct
  <2>1. CASE j = 1 \/ k = 1
    BY <1>4, <2>1
  <2>2. CASE j # 1 /\ k # 1
    <3>1. j - 1 \in DOMAIN w /\ k - 1 \in DOMAIN w /\ w[j - 1].key = w[k - 1].key
      BY <1>4, <2>2
    <3>2. j - 1 = k - 1
      BY <3>1 DEF Distinct
    <3> QED
      BY <1>3, <3>2
  <2> QED
    BY <2>1, <2>2
<1> QED
  BY <1>2, <1>5, <1>6 DEF r

LEMMA PositionFound ==
  ASSUME NEW c, NEW k, Cached(c, k)
  PROVE  Position(c, k) \in DOMAIN c /\ c[Position(c, k)].key = k
BY DEF Cached, Position

\* Using an entry changes the order and nothing else.
LEMMA TouchEntries ==
  ASSUME NEW E, NEW c \in Seq(E), Distinct(c), NEW k
  PROVE  /\ Touch(c, k) \in Seq(E)
         /\ Distinct(Touch(c, k))
         /\ \A j \in DOMAIN Touch(c, k) : Listed(Touch(c, k)[j], c)
<1>1. CASE ~Cached(c, k)
  BY <1>1 DEF Touch, Listed
<1>2. CASE Cached(c, k)
  <2> DEFINE i == Position(c, k)
             w == Without(c, i)
  <2>1. i \in DOMAIN c
    BY <1>2, PositionFound
  <2>2. c[i] \in E
    BY <2>1, LenProperties, ElementOfSeq
  <2>3. /\ w \in Seq(E) /\ Distinct(w)
        /\ \A j \in DOMAIN w : Listed(w[j], c) /\ w[j].key # c[i].key
    BY <2>1, WithoutEntries
  <2>4. Touch(c, k) = <<c[i]>> \o w
    BY <1>2 DEF Touch, ToFront
  <2> HIDE DEF i, w
  <2>5. /\ <<c[i]>> \o w \in Seq(E) /\ Distinct(<<c[i]>> \o w)
        /\ \A j \in DOMAIN (<<c[i]>> \o w) :
             (<<c[i]>> \o w)[j] = c[i] \/ Listed((<<c[i]>> \o w)[j], w)
    BY <2>2, <2>3, FrontEntries
  <2> QED
    BY <2>1, <2>3, <2>4, <2>5 DEF Listed
<1> QED
  BY <1>1, <1>2

\* The first entries of a list.
LEMMA PrefixEntries ==
  ASSUME NEW E, NEW c \in Seq(E), Distinct(c), NEW n \in 0..Len(c)
  PROVE  /\ SubSeq(c, 1, n) \in Seq(E)
         /\ Distinct(SubSeq(c, 1, n))
         /\ \A j \in DOMAIN SubSeq(c, 1, n) : Listed(SubSeq(c, 1, n)[j], c)
<1> DEFINE p == SubSeq(c, 1, n)
<1>1. DOMAIN c = 1..Len(c) /\ Len(c) \in Nat /\ \A j \in 1..Len(c) : c[j] \in E
  BY LenProperties, ElementOfSeq
<1>2. \A j \in 1..n : c[j] \in E
  BY <1>1
<1>3. /\ SubSeq(c, 1, n) \in Seq(E)
      /\ Len(SubSeq(c, 1, n)) = IF 1 <= n THEN n - 1 + 1 ELSE 0
      /\ \A j \in 1..(n - 1 + 1) : SubSeq(c, 1, n)[j] = c[1 + j - 1]
  BY <1>1, <1>2, SubSeqProperties
<1>4. p \in Seq(E) /\ Len(p) = n /\ \A j \in 1..n : p[j] = c[j]
  BY <1>1, <1>3
<1>5. DOMAIN p = 1..n
  BY <1>4, LenProperties
<1> HIDE DEF p
<1>6. Distinct(p) /\ \A j \in DOMAIN p : Listed(p[j], c)
  BY <1>1, <1>4, <1>5 DEF Distinct, Listed
<1> QED
  BY <1>4, <1>6 DEF p

\* After a store the list holds the new entry and old ones under other keys.
LEMMA StoreEntries ==
  ASSUME NEW E, NEW c \in Seq(E), Distinct(c), NEW k, NEW d, [key |-> k, data |-> d] \in E
  PROVE  /\ Store(c, k, d) \in Seq(E)
         /\ Distinct(Store(c, k, d))
         /\ \A j \in DOMAIN Store(c, k, d) :
              \/ Store(c, k, d)[j] = [key |-> k, data |-> d]
              \/ Listed(Store(c, k, d)[j], c) /\ Store(c, k, d)[j].key # k
<1> DEFINE e == [key |-> k, data |-> d]
<1>0. e \in E /\ e.key = k
  OBVIOUS
<1> HIDE DEF e
<1>1. ASSUME NEW w \in Seq(E), Distinct(w),
             \A j \in DOMAIN w : Listed(w[j], c) /\ w[j].key # k,
             Store(c, k, d) = <<e>> \o w
      PROVE  /\ Store(c, k, d) \in Seq(E)
             /\ Distinct(Store(c, k, d))
             /\ \A j \in DOMAIN Store(c, k, d) :
                  \/ Store(c, k, d)[j] = e
                  \/ Listed(Store(c, k, d)[j], c) /\ Store(c, k, d)[j].key # k
  <2>1. /\ <<e>> \o w \in Seq(E) /\ Distinct(<<e>> \o w)
        /\ \A j \in DOMAIN (<<e>> \o w) : (<<e>> \o w)[j] = e \/ Listed((<<e>> \o w)[j], w)
    BY <1>0, <1>1, FrontEntries
  <2>2. \A j \in DOMAIN w : w[j].key # k /\ Listed(w[j], c)
    BY <1>1
  <2> QED
    BY <1>1, <2>1, <2>2 DEF Listed
<1>2. CASE Cached(c, k)
  <2> DEFINE i == Position(c, k)
             w == Without(c, i)
  <2>1. i \in DOMAIN c /\ c[i].key = k
    BY <1>2, PositionFound
  <2>2. /\ w \in Seq(E) /\ Distinct(w)
        /\ \A j \in DOMAIN w : Listed(w[j], c) /\ w[j].key # k
    BY <2>1, WithoutEntries
  <2>3. Store(c, k, d) = <<e>> \o w
    BY <1>2 DEF Store, ToFront, e
  <2> HIDE DEF w
  <2> QED
    BY <1>1, <2>2, <2>3 DEF e
<1>3. CASE ~Cached(c, k)
  <2> DEFINE n == IF Len(c) < Capacity THEN Len(c) ELSE Capacity - 1
             w == SubSeq(c, 1, n)
  <2>1. n \in 0..Len(c)
    BY CapacityAssumption, LenProperties
  <2> HIDE DEF n
  <2>2. w \in Seq(E) /\ Distinct(w) /\ \A j \in DOMAIN w : Listed(w[j], c)
    BY <2>1, PrefixEntries
  <2>3. Store(c, k, d) = <<e>> \o w
    BY <1>3 DEF Store, e, n
  <2>4. \A j \in DOMAIN w : Listed(w[j], c) /\ w[j].key # k
    BY <1>3, <2>2 DEF Cached, Listed
  <2> HIDE DEF w
  <2> QED
    BY <1>1, <2>2, <2>3, <2>4 DEF e
<1> QED
  BY <1>2, <1>3

\* After a drop the key is gone and nothing else.
LEMMA DropEntries ==
  ASSUME NEW E, NEW c \in Seq(E), Distinct(c), NEW k
  PROVE  /\ Drop(c, k) \in Seq(E)
         /\ Distinct(Drop(c, k))
         /\ \A j \in DOMAIN Drop(c, k) : Listed(Drop(c, k)[j], c) /\ Drop(c, k)[j].key # k
<1>1. CASE Cached(c, k)
  <2>1. Position(c, k) \in DOMAIN c /\ c[Position(c, k)].key = k
    BY <1>1, PositionFound
  <2> QED
    BY <1>1, <2>1, WithoutEntries DEF Drop
<1>2. CASE ~Cached(c, k)
  BY <1>2 DEF Drop, Cached, Listed
<1> QED
  BY <1>1, <1>2

----------------------------------------------------------------------------
(* What a search finds *)

LEMMA EntryTypes ==
  ASSUME NEW c \in Seq(CacheEntry), NEW i \in DOMAIN c
  PROVE  c[i] \in CacheEntry /\ c[i].key \in Files /\ c[i].data \in Metas
<1>1. c[i] \in CacheEntry
  BY LenProperties, ElementOfSeq
<1> QED
  BY <1>1 DEF CacheEntry

LEMMA FoundIsTrie ==
  ASSUME Agrees(entries, trie), NEW f \in Files
  PROVE  Found(f) = trie[f]
<1>1. CASE Cached(entries, f)
  BY <1>1, PositionFound DEF Found, Agrees
<1>2. CASE ~Cached(entries, f)
  BY <1>2 DEF Found
<1> QED
  BY <1>1, <1>2

LEMMA StoreAgrees ==
  ASSUME NEW c, NEW t \in [Files -> Metas \cup {Null}], Agrees(c, t),
         NEW f \in Files, NEW p \in Metas
  PROVE  Agrees(Store(c, f, p), [t EXCEPT ![f] = p])
<1> DEFINE s == Store(c, f, p)
<1>1. [key |-> f, data |-> p] \in CacheEntry
  BY DEF CacheEntry
<1>2. /\ s \in Seq(CacheEntry) /\ Distinct(s)
      /\ \A j \in DOMAIN s :
           \/ s[j] = [key |-> f, data |-> p]
           \/ Listed(s[j], c) /\ s[j].key # f
  BY <1>1, StoreEntries DEF Agrees
<1> HIDE DEF s
<1>3. ASSUME NEW j \in DOMAIN s
      PROVE  [t EXCEPT ![f] = p][s[j].key] = s[j].data
  <2>1. CASE s[j] = [key |-> f, data |-> p]
    BY <2>1
  <2>2. CASE Listed(s[j], c) /\ s[j].key # f
    <3>1. s[j].key \in Files
      BY <1>2, EntryTypes
    <3>2. t[s[j].key] = s[j].data
      BY <2>2 DEF Listed, Agrees
    <3> QED
      BY <2>2, <3>1, <3>2
  <2> QED
    BY <1>2, <2>1, <2>2
<1> QED
  BY <1>2, <1>3 DEF Agrees, s

LEMMA DropAgrees ==
  ASSUME NEW c, NEW t \in [Files -> Metas \cup {Null}], Agrees(c, t), NEW f \in Files
  PROVE  Agrees(Drop(c, f), [t EXCEPT ![f] = Null])
<1> DEFINE s == Drop(c, f)
<1>1. /\ s \in Seq(CacheEntry) /\ Distinct(s)
      /\ \A j \in DOMAIN s : Listed(s[j], c) /\ s[j].key # f
  BY DropEntries DEF Agrees
<1> HIDE DEF s
<1>2. ASSUME NEW j \in DOMAIN s
      PROVE  [t EXCEPT ![f] = Null][s[j].key] = s[j].data
  <2>1. s[j].key \in Files
    BY <1>1, EntryTypes
  <2>2. t[s[j].key] = s[j].data
    BY <1>1 DEF Listed, Agrees
  <2> QED
    BY <1>1, <2>1, <2>2
<1> QED
  BY <1>1, <1>2 DEF Agrees, s

LEMMA SearchAgrees ==
  ASSUME DataPart, Agrees(entries, trie), NEW f \in Files
  PROVE  Agrees(LookedUp(f), trie)
<1>1. trie \in [Files -> Metas \cup {Null}]
  BY DEF DataPart, DataTypes
<1>2. CASE Cached(entries, f)
  <2> DEFINE s == Touch(entries, f)
  <2>1. /\ s \in Seq(CacheEntry) /\ Distinct(s)
        /\ \A j \in DOMAIN s : Listed(s[j], entries)
    BY TouchEntries DEF Agrees
  <2>2. LookedUp(f) = s
    BY <1>2 DEF LookedUp
  <2> HIDE DEF s
  <2>3. \A j \in DOMAIN s : trie[s[j].key] = s[j].data
    BY <2>1 DEF Listed, Agrees
  <2> QED
    BY <2>1, <2>2, <2>3 DEF Agrees
<1>3. CASE ~Cached(entries, f) /\ trie[f] # Null
  <2>1. trie[f] \in Metas
    BY <1>1, <1>3
  <2>2. Agrees(Store(entries, f, trie[f]), [trie EXCEPT ![f] = trie[f]])
    BY <1>1, <2>1, StoreAgrees
  <2>3. [trie EXCEPT ![f] = trie[f]] = trie
    BY <1>1
  <2> QED
    BY <1>3, <2>2, <2>3 DEF LookedUp
<1>4. CASE ~Cached(entries, f) /\ trie[f] = Null
  BY <1>4 DEF LookedUp
<1> QED
  BY <1>2, <1>3, <1>4

----------------------------------------------------------------------------
(* What happens to one object *)

LEMMA NewTypes ==
  ASSUME NEW f \in Files, NEW u \in People
  PROVE  /\ NewMetadata(f, u) \in Metadata
         /\ NewMetadata(f, u).file = f
         /\ NewMetadata(f, u).acl[NewMetadata(f, u).owner] = Write
BY DEF NewMetadata, Metadata, Access, NoAccess, Read, Write

\* An object that takes the place of m: same file, same owner, who can write.
Edits(n, m) ==
  n \in Metadata /\ n.file = m.file /\ n.owner = m.owner /\ n.acl[n.owner] = Write

LEMMA AclEdit ==
  ASSUME NEW m \in Metadata, NEW v \in People, NEW a \in Access,
         m.acl[m.owner] = Write, v = m.owner => a = Write
  PROVE  Edits([m EXCEPT !.acl[v] = a], m)
<1> DEFINE n == [m EXCEPT !.acl[v] = a]
<1>1. m.acl \in [People -> Access] /\ m.owner \in People
  BY DEF Metadata
<1>2. [m.acl EXCEPT ![v] = a] \in [People -> Access]
  BY <1>1
<1>3. n \in Metadata /\ n.file = m.file /\ n.owner = m.owner /\ n.acl = [m.acl EXCEPT ![v] = a]
  BY <1>2 DEF Metadata
<1>4. [m.acl EXCEPT ![v] = a][m.owner] = Write
  BY <1>1
<1> QED
  BY <1>3, <1>4 DEF Edits

LEMMA GrantedEdits ==
  ASSUME NEW m \in Metadata, NEW v \in People, NEW a \in Access, m.acl[m.owner] = Write
  PROVE  Edits(Granted(m, v, a), m)
<1>1. CASE m.acl[v] = Write \/ ~Room(m, v)
  BY <1>1 DEF Granted, Edits
<1>2. CASE ~(m.acl[v] = Write \/ ~Room(m, v))
  <2> DEFINE b == IF v = m.owner THEN Write ELSE a
  <2>1. b \in Access /\ (v = m.owner => b = Write)
    BY DEF Access, Write
  <2>2. Granted(m, v, a) = [m EXCEPT !.acl[v] = b]
    BY <1>2 DEF Granted
  <2> HIDE DEF b
  <2> QED
    BY <2>1, <2>2, AclEdit
<1> QED
  BY <1>1, <1>2

LEMMA RevokedEdits ==
  ASSUME NEW m \in Metadata, NEW v \in People, m.acl[m.owner] = Write
  PROVE  Edits(Revoked(m, v), m)
<1>1. NoAccess \in Access
  BY DEF Access
<1>2. CASE v = m.owner
  BY <1>2 DEF Revoked, Edits
<1>3. CASE v # m.owner
  BY <1>1, <1>3, AclEdit DEF Revoked
<1> QED
  BY <1>2, <1>3

\* Reading a saved line back changes nothing.
LEMMA LoadedSame ==
  ASSUME NEW m \in Metadata, m.acl[m.owner] = Write
  PROVE  Loaded(m) = m
<1>1. m.acl \in [People -> Access] /\ m.owner \in People
  BY DEF Metadata
<1>2. [m.acl EXCEPT ![m.owner] = Write] = m.acl
  BY <1>1
<1>3. [m EXCEPT !.acl[m.owner] = Write] = m
  BY <1>2 DEF Metadata
<1> QED
  BY <1>3 DEF Loaded

----------------------------------------------------------------------------
(* The objects, the trie and metadata.dat *)

LEMMA SavedTypes ==
  ASSUME NEW t \in [Files -> Metas \cup {Null}], NEW o \in [Metas -> Metadata \cup {Null}]
  PROVE  Saved(t, o) \in [Files -> Metadata \cup {Null}]
<1>1. \A f \in Files : t[f] # Null => t[f] \in Metas
  OBVIOUS
<1> QED
  BY <1>1 DEF Saved

LEMMA AddFileKeeps ==
  ASSUME DataPart, Agrees(entries, trie), NEW f \in Files, NEW u \in People,
         trie[f] = Null, AddFile(f, u)
  PROVE  DataPart' /\ Agrees(entries, trie)'
<1>1. PICK p \in {q \in Metas : objs[q] = Null} :
        /\ objs' = [objs EXCEPT ![p] = NewMetadata(f, u)]
        /\ trie' = [trie EXCEPT ![f] = p]
        /\ entries' = Store(entries, f, p)
        /\ disk' = Saved(trie', objs')
  BY DEF AddFile
<1> DEFINE m == NewMetadata(f, u)
<1>2. /\ m \in Metadata /\ m.file = f /\ m.acl[m.owner] = Write
      /\ p \in Metas /\ p # Null /\ m # Null
  <2>1. m.owner = u /\ m.acl[u] = Write
    BY DEF NewMetadata
  <2> QED
    BY <1>1, <2>1, NewTypes, MetadataAssumption
<1> HIDE DEF m
<1>3. objs \in [Metas -> Metadata \cup {Null}] /\ trie \in [Files -> Metas \cup {Null}]
  BY DEF DataPart, DataTypes
<1>4. objs' \in [Metas -> Metadata \cup {Null}] /\ trie' \in [Files -> Metas \cup {Null}]
  BY <1>1, <1>2, <1>3 DEF m
<1>5. DataTypes'
  BY <1>1, <1>4, SavedTypes DEF DataTypes
<1>6. objs'[p] = m /\ trie'[f] = p
  BY <1>1, <1>2, <1>3 DEF m
<1>7. /\ \A q \in Metas : q # p => objs'[q] = objs[q]
      /\ \A g \in Files : g # f => trie'[g] = trie[g]
  BY <1>1, <1>3
<1>8. /\ \A g \in Files : trie[g] # Null => trie[g] # p /\ trie[g] \in Metas
      /\ \A q \in Metas : objs[q] # Null => objs[q].file # f /\ objs[q].file \in Files
  <2>1. ASSUME NEW g \in Files, trie[g] # Null
        PROVE  trie[g] # p /\ trie[g] \in Metas
    BY <1>1, <1>3, <2>1 DEF DataPart, TrieExact
  <2>2. ASSUME NEW q \in Metas, objs[q] # Null
        PROVE  objs[q].file # f /\ objs[q].file \in Files
    <3>1. objs[q] \in Metadata /\ trie[objs[q].file] = q /\ q # Null
      BY <1>3, <2>2, MetadataAssumption DEF DataPart, TrieExact
    <3> QED
      BY <3>1 DEF Metadata
  <2> QED
    BY <2>1, <2>2
<1>9. TrieExact'
  <2>1. ASSUME NEW g \in Files, trie'[g] # Null
        PROVE  objs'[trie'[g]] # Null /\ objs'[trie'[g]].file = g
    <3>1. CASE g = f
      BY <1>2, <1>6, <3>1
    <3>2. CASE g # f
      BY <1>7, <1>8, <2>1, <3>2 DEF DataPart, TrieExact
    <3> QED
      BY <3>1, <3>2
  <2>2. ASSUME NEW q \in Metas, objs'[q] # Null
        PROVE  trie'[objs'[q].file] = q
    <3>1. CASE q = p
      BY <1>2, <1>6, <3>1
    <3>2. CASE q # p
      BY <1>7, <1>8, <2>2, <3>2 DEF DataPart, TrieExact
    <3> QED
      BY <3>1, <3>2
  <2> QED
    BY <2>1, <2>2 DEF TrieExact
<1>10. OwnerCanWrite'
  BY <1>2, <1>6, <1>7 DEF DataPart, OwnerCanWrite
<1>11. Agrees(entries', trie')
  BY <1>1, <1>3, StoreAgrees
<1> QED
  BY <1>1, <1>5, <1>9, <1>10, <1>11 DEF DataPart, DiskMatches

LEMMA DeleteKeeps ==
  ASSUME DataPart, Agrees(entries, trie), NEW f \in Files, NEW u \in Users, DeleteFile(f, u)
  PROVE  DataPart' /\ Agrees(entries, trie)'
<1> DEFINE p == trie[f]
<1>1. objs \in [Metas -> Metadata \cup {Null}] /\ trie \in [Files -> Metas \cup {Null}]
  BY DEF DataPart, DataTypes
<1>2. p # Null /\ p \in Metas
  BY <1>1, FoundIsTrie DEF DeleteFile, OwnedBy
<1>3. /\ objs' = [objs EXCEPT ![p] = Null]
      /\ trie' = [trie EXCEPT ![f] = Null]
      /\ entries' = Drop(LookedUp(f), f)
      /\ disk' = Saved(trie', objs')
  BY DEF DeleteFile
<1>4. objs[p] # Null /\ objs[p].file = f
  BY <1>2 DEF DataPart, TrieExact
<1> HIDE DEF p
<1>5. objs' \in [Metas -> Metadata \cup {Null}] /\ trie' \in [Files -> Metas \cup {Null}]
  BY <1>1, <1>3
<1>6. DataTypes'
  BY <1>3, <1>5, SavedTypes DEF DataTypes
<1>7. /\ objs'[p] = Null /\ trie'[f] = Null
      /\ \A q \in Metas : q # p => objs'[q] = objs[q]
      /\ \A g \in Files : g # f => trie'[g] = trie[g]
  BY <1>1, <1>2, <1>3
<1>8. /\ \A g \in Files : g # f /\ trie[g] # Null => trie[g] # p /\ trie[g] \in Metas
      /\ \A q \in Metas : q # p /\ objs[q] # Null => objs[q].file # f /\ objs[q].file \in Files
  BY <1>1, <1>2, <1>4 DEF DataPart, TrieExact, Metadata, p
<1>9. TrieExact'
  <2>1. ASSUME NEW g \in Files, trie'[g] # Null
        PROVE  objs'[trie'[g]] # Null /\ objs'[trie'[g]].file = g
    BY <1>7, <1>8, <2>1 DEF DataPart, TrieExact
  <2>2. ASSUME NEW q \in Metas, objs'[q] # Null
        PROVE  trie'[objs'[q].file] = q
    BY <1>7, <1>8, <2>2 DEF DataPart, TrieExact
  <2> QED
    BY <2>1, <2>2 DEF TrieExact
<1>10. OwnerCanWrite'
  BY <1>7 DEF DataPart, OwnerCanWrite
<1>11. Agrees(entries', trie')
  BY <1>1, <1>3, SearchAgrees, DropAgrees
<1> QED
  BY <1>3, <1>6, <1>9, <1>10, <1>11 DEF DataPart, DiskMatches

LEMMA EditKeeps ==
  ASSUME DataPart, NEW p \in Metas, objs[p] # Null, NEW m, Edits(m, objs[p]),
         objs' = [objs EXCEPT ![p] = m], trie' = trie, disk' = Saved(trie', objs')
  PROVE  DataPart'
<1>1. objs \in [Metas -> Metadata \cup {Null}] /\ trie \in [Files -> Metas \cup {Null}]
  BY DEF DataPart, DataTypes
<1>2. m \in Metadata /\ m # Null /\ m.file = objs[p].file /\ m.acl[m.owner] = Write
  BY MetadataAssumption DEF Edits
<1>3. objs' \in [Metas -> Metadata \cup {Null}]
  BY <1>1, <1>2
<1>4. DataTypes'
  BY <1>1, <1>3, SavedTypes DEF DataTypes
<1>5. objs'[p] = m /\ \A q \in Metas : q # p => objs'[q] = objs[q]
  BY <1>1
<1>6. \A q \in Metas :
        /\ objs'[q] # Null <=> objs[q] # Null
        /\ objs[q] # Null => objs'[q].file = objs[q].file
  BY <1>2, <1>5
<1>7. \A g \in Files : trie[g] # Null => trie[g] \in Metas
  BY <1>1
<1>8. TrieExact'
  BY <1>6, <1>7 DEF DataPart, TrieExact
<1>9. OwnerCanWrite'
  BY <1>2, <1>5 DEF DataPart, OwnerCanWrite
<1> QED
  BY <1>4, <1>8, <1>9 DEF DataPart, DiskMatches

\* The restarted server has the objects it was killed with, at other addresses.
LEMMA RestartKeeps ==
  ASSUME DataPart, Restart
  PROVE  DataPart' /\ Agrees(entries, trie)'
<1>1. PICK place \in [Files -> Metas \cup {Null}] :
        /\ \A f \in Files : place[f] = Null <=> disk[f] = Null
        /\ \A f, g \in Files : place[f] = place[g] /\ place[f] # Null => f = g
        /\ trie' = place
        /\ objs' = [p \in Metas |->
             IF \E f \in Files : place[f] = p
               THEN Loaded(disk[CHOOSE f \in Files : place[f] = p]) ELSE Null]
  BY DEF Restart
<1>2. entries' = <<>> /\ disk' = disk
  BY DEF Restart
<1>3. \A f \in Files : disk[f] # Null =>
        disk[f] \in Metadata /\ disk[f].file = f /\ disk[f].acl[disk[f].owner] = Write
  <2> SUFFICES ASSUME NEW f \in Files, disk[f] # Null
               PROVE  disk[f] \in Metadata /\ disk[f].file = f /\ disk[f].acl[disk[f].owner] = Write
    OBVIOUS
  <2>1. trie[f] # Null /\ disk[f] = objs[trie[f]] /\ disk[f] \in Metadata
    BY DEF DataPart, DataTypes, DiskMatches, Saved
  <2>2. trie[f] \in Metas
    BY <2>1 DEF DataPart, DataTypes
  <2> QED
    BY <2>1, <2>2 DEF DataPart, TrieExact, OwnerCanWrite
<1>4. \A f \in Files : place[f] # Null => place[f] \in Metas /\ objs'[place[f]] = disk[f]
  <2> SUFFICES ASSUME NEW f \in Files, place[f] # Null
               PROVE  place[f] \in Metas /\ objs'[place[f]] = disk[f]
    OBVIOUS
  <2>1. place[f] \in Metas
    OBVIOUS
  <2>2. (CHOOSE g \in Files : place[g] = place[f]) = f
    BY <1>1
  <2>3. objs'[place[f]] = Loaded(disk[f])
    BY <1>1, <2>1, <2>2
  <2>4. disk[f] # Null
    BY <1>1
  <2> QED
    BY <1>3, <2>1, <2>3, <2>4, LoadedSame
<1>5. \A p \in Metas : objs'[p] # Null => \E f \in Files : place[f] = p /\ objs'[p] = disk[f]
  <2> SUFFICES ASSUME NEW p \in Metas, objs'[p] # Null
               PROVE  \E f \in Files : place[f] = p /\ objs'[p] = disk[f]
    OBVIOUS
  <2>1. PICK f \in Files : place[f] = p
    BY <1>1
  <2>2. place[f] # Null
    BY <2>1, MetadataAssumption
  <2> QED
    BY <1>4, <2>1, <2>2
<1>6. Null \notin Metas /\ Null \notin Metadata
  BY MetadataAssumption
<1>7. \A p \in Metas : objs'[p] \in Metadata \cup {Null}
  BY <1>3, <1>5
<1>8. objs' \in [Metas -> Metadata \cup {Null}]
  BY <1>1, <1>7
<1>9. DataTypes'
  BY <1>1, <1>2, <1>8 DEF DataPart, DataTypes
<1>10. TrieExact'
  <2>1. \A f \in Files : place[f] # Null => objs'[place[f]] # Null /\ objs'[place[f]].file = f
    BY <1>1, <1>3, <1>4
  <2>2. \A p \in Metas : objs'[p] # Null => place[objs'[p].file] = p
    BY <1>1, <1>3, <1>5, <1>6
  <2> QED
    BY <1>1, <2>1, <2>2 DEF TrieExact
<1>11. OwnerCanWrite'
  BY <1>3, <1>5 DEF OwnerCanWrite
<1>12. DiskMatches'
  <2> DEFINE s == Saved(place, objs')
  <2>1. \A f \in Files : disk[f] = IF place[f] = Null THEN Null ELSE objs'[place[f]]
    BY <1>1, <1>4
  <2>2. s = [f \in Files |-> IF place[f] = Null THEN Null ELSE objs'[place[f]]]
    BY DEF Saved
  <2>3. \A f \in Files : s[f] = disk[f]
    BY <2>1, <2>2
  <2>4. s = [f \in Files |-> s[f]]
    BY <2>2
  <2> HIDE DEF s
  <2>5. disk = [f \in Files |-> disk[f]]
    BY DEF DataPart, DataTypes
  <2>6. disk = s
    BY <2>3, <2>4, <2>5
  <2> QED
    BY <1>1, <1>2, <2>6 DEF DiskMatches, s
<1>13. Agrees(entries, trie)'
  BY <1>2 DEF Agrees, Distinct
<1> QED
  BY <1>9, <1>10, <1>11, <1>12, <1>13 DEF DataPart

\* A step that leaves the objects, the trie and the file alone, and the cache
\* as it was or searched.
LEMMA SearchKeeps ==
  ASSUME DataPart, Agrees(entries, trie), UNCHANGED <<objs, trie, disk>>,
         entries' = entries \/ \E f \in Files : entries' = LookedUp(f)
  PROVE  DataPart' /\ Agrees(entries, trie)'
<1>1. DataPart'
  BY DEF DataPart, DataTypes, TrieExact, OwnerCanWrite, DiskMatches
<1>2. Agrees(entries', trie)
  BY SearchAgrees
<1> QED
  BY <1>1, <1>2

LEMMA DataStep ==
  ASSUME IndInv, [Next]_vars
  PROVE  DataPart' /\ Agrees(entries, trie)'
<1>1. DataPart /\ Agrees(entries, trie) /\ JobPart
  BY Parts
<1>2. objs \in [Metas -> Metadata \cup {Null}] /\ trie \in [Files -> Metas \cup {Null}]
  BY <1>1 DEF DataPart, DataTypes
<1>3. ASSUME NEW f \in Files, NEW u \in Users, CreateFile(f, u)
      PROVE  DataPart' /\ Agrees(entries, trie)'
  BY <1>1, <1>3, AddFileKeeps DEF CreateFile, People
<1>4. ASSUME NEW f \in Files, Seed(f)
      PROVE  DataPart' /\ Agrees(entries, trie)'
  BY <1>1, <1>4, AddFileKeeps DEF Seed, People
<1>5. ASSUME NEW f \in Files, NEW u \in Users, DeleteFile(f, u)
      PROVE  DataPart' /\ Agrees(entries, trie)'
  BY <1>1, <1>5, DeleteKeeps
<1>6. ASSUME NEW f \in Files, NEW u \in Users, OwnedBy(f, u)
      PROVE  /\ Found(f) \in Metas /\ objs[Found(f)] # Null
             /\ objs[Found(f)] \in Metadata
             /\ objs[Found(f)].acl[objs[Found(f)].owner] = Write
  <2>1. Found(f) = trie[f] /\ Found(f) # Null
    BY <1>1, <1>6, FoundIsTrie DEF OwnedBy
  <2>2. Found(f) \in Metas /\ objs[Found(f)] # Null
    BY <1>1, <1>2, <2>1 DEF DataPart, TrieExact
  <2> QED
    BY <1>1, <1>2, <2>2 DEF DataPart, OwnerCanWrite
<1>7. ASSUME NEW f \in Files, NEW u \in Users, NEW v \in Users, NEW a \in {Read, Write},
             AddAccess(f, u, v, a)
      PROVE  DataPart' /\ Agrees(entries, trie)'
  <2> DEFINE p == Found(f)
             m == Granted(objs[p], v, a)
  <2>1. /\ objs' = [objs EXCEPT ![p] = m] /\ trie' = trie /\ disk' = Saved(trie', objs')
        /\ entries' = LookedUp(f) /\ OwnedBy(f, u)
    BY <1>7 DEF AddAccess
  <2>2. /\ p \in Metas /\ objs[p] # Null /\ objs[p] \in Metadata
        /\ objs[p].acl[objs[p].owner] = Write
    BY <1>6, <2>1
  <2> HIDE DEF p
  <2>3. Edits(m, objs[p])
    BY <2>2, GrantedEdits DEF People, Access
  <2> HIDE DEF m
  <2>4. DataPart'
    BY <1>1, <2>1, <2>2, <2>3, EditKeeps
  <2>5. Agrees(LookedUp(f), trie)
    BY <1>1, SearchAgrees
  <2> QED
    BY <2>1, <2>4, <2>5
<1>8. ASSUME NEW f \in Files, NEW u \in Users, NEW v \in Users, RemoveAccess(f, u, v)
      PROVE  DataPart' /\ Agrees(entries, trie)'
  <2> DEFINE p == Found(f)
             m == Revoked(objs[p], v)
  <2>1. /\ objs' = [objs EXCEPT ![p] = m] /\ trie' = trie /\ disk' = Saved(trie', objs')
        /\ entries' = LookedUp(f) /\ OwnedBy(f, u)
    BY <1>8 DEF RemoveAccess
  <2>2. /\ p \in Metas /\ objs[p] # Null /\ objs[p] \in Metadata
        /\ objs[p].acl[objs[p].owner] = Write
    BY <1>6, <2>1
  <2> HIDE DEF p
  <2>3. Edits(m, objs[p])
    BY <2>2, RevokedEdits DEF People
  <2> HIDE DEF m
  <2>4. DataPart'
    BY <1>1, <2>1, <2>2, <2>3, EditKeeps
  <2>5. Agrees(LookedUp(f), trie)
    BY <1>1, SearchAgrees
  <2> QED
    BY <2>1, <2>4, <2>5
<1>9. ASSUME NEW t \in Threads, Grant(t)
      PROVE  DataPart' /\ Agrees(entries, trie)'
  <2> DEFINE j == threads[t]
             p == trie[j.file]
             m == Granted(objs[p], j.who, j.want)
  <2>1. j \in Jobs /\ j.at = "grant" /\ j.file \in Files /\ j.who \in People
    BY <1>1, <1>9 DEF JobPart, JobsLocated, Grant, People
  <2>2. j.want \in Access
    BY <2>1 DEF Jobs
  <2>3. trie' = trie /\ entries' = entries
    BY <1>9 DEF Grant
  <2>4. CASE p = Null
    <3>1. UNCHANGED <<objs, trie, disk>>
      BY <1>9, <2>3, <2>4 DEF Grant
    <3> QED
      BY <1>1, <2>3, <3>1, SearchKeeps
  <2>5. CASE p # Null
    <3>1. objs' = [objs EXCEPT ![p] = m] /\ disk' = Saved(trie', objs')
      BY <1>9, <2>3, <2>5 DEF Grant
    <3>2. p \in Metas
      BY <1>2, <2>1, <2>5
    <3>3. objs[p] # Null
      BY <1>1, <2>1, <2>5 DEF DataPart, TrieExact
    <3> HIDE DEF p
    <3>4. objs[p] \in Metadata /\ objs[p].acl[objs[p].owner] = Write
      BY <1>1, <1>2, <3>2, <3>3 DEF DataPart, OwnerCanWrite
    <3>5. Edits(m, objs[p])
      BY <2>1, <2>2, <3>4, GrantedEdits
    <3> HIDE DEF m
    <3>6. DataPart'
      BY <1>1, <2>3, <3>1, <3>2, <3>3, <3>5, EditKeeps
    <3> QED
      BY <1>1, <2>3, <3>6
  <2> QED
    BY <2>4, <2>5
<1>10. ASSUME NEW t \in Threads, NEW f \in Files, UpdateMetadata(t, f)
       PROVE  DataPart' /\ Agrees(entries, trie)'
  <2>1. CASE trie[f] = Null
    BY <1>1, <1>10, <2>1, SearchKeeps DEF UpdateMetadata
  <2>2. CASE trie[f] # Null
    <3>1. /\ UNCHANGED <<objs, trie>> /\ disk' = Saved(trie, objs)
          /\ entries' = Store(entries, f, trie[f])
      BY <1>10, <2>2 DEF UpdateMetadata
    <3>2. DataPart'
      BY <1>1, <3>1 DEF DataPart, DataTypes, TrieExact, OwnerCanWrite, DiskMatches
    <3>3. trie[f] \in Metas /\ [trie EXCEPT ![f] = trie[f]] = trie
      BY <1>2, <2>2
    <3>4. Agrees(Store(entries, f, trie[f]), trie)
      BY <1>1, <1>2, <3>3, StoreAgrees
    <3> QED
      BY <3>1, <3>2, <3>4
  <2> QED
    BY <2>1, <2>2
<1>11. ASSUME Restart
       PROVE  DataPart' /\ Agrees(entries, trie)'
  BY <1>1, <1>11, RestartKeeps
<1>12. ASSUME UNCHANGED <<objs, trie, disk>>,
              entries' = entries \/ \E f \in Files : entries' = LookedUp(f)
       PROVE  DataPart' /\ Agrees(entries, trie)'
  BY <1>1, <1>12, SearchKeeps
<1>13. ASSUME NEW f \in Files, Lookup(f)
       PROVE  DataPart' /\ Agrees(entries, trie)'
  BY <1>12, <1>13 DEF Lookup
<1>14. CASE FileStep
  BY <1>3, <1>4, <1>5, <1>7, <1>8, <1>13, <1>14 DEF FileStep
<1>15. ASSUME NEW t \in Threads, StartStep(t)
       PROVE  DataPart' /\ Agrees(entries, trie)'
  BY <1>10, <1>12, <1>15 DEF StartStep, Exec, AskAccess, Decide
<1>16. ASSUME NEW t \in Threads, ThreadStep(t)
       PROVE  DataPart' /\ Agrees(entries, trie)'
  BY <1>9, <1>12, <1>16 DEF ThreadStep, Fetch, Copy, Push, AppendRequest, Resolve
<1>17. CASE UNCHANGED vars
  BY <1>12, <1>17 DEF vars
<1> QED
  BY <1>11, <1>14, <1>15, <1>16, <1>17 DEF Next

----------------------------------------------------------------------------
(* The array of requests *)

LEMMA RequestStep ==
  ASSUME IndInv, [Next]_vars
  PROVE  RequestTypes'
<1>1. RequestTypes /\ JobPart
  BY Parts
<1>2. /\ requests \in Seq(Request) /\ Len(requests) \in Nat /\ Len(requests) <= MaxRequests
      /\ diskRequests = requests /\ MaxRequests \in Nat
  BY <1>1, MetadataAssumption, LenProperties DEF RequestTypes
<1>3. ASSUME NEW t \in Threads, AppendRequest(t)
      PROVE  RequestTypes'
  <2> DEFINE j == threads[t]
  <2>1. Asked(j) \in Request
    BY <1>1, <1>3 DEF JobPart, JobsLocated, AppendRequest, Asked, Request
  <2>2. /\ Append(requests, Asked(j)) \in Seq(Request)
        /\ Len(Append(requests, Asked(j))) = Len(requests) + 1
    BY <1>2, <2>1, AppendProperties
  <2>3. /\ diskRequests' = requests'
        /\ \/ requests' = requests
           \/ requests' = Append(requests, Asked(j)) /\ Len(requests) < MaxRequests
    BY <1>3 DEF AppendRequest, SaveRequests
  <2> QED
    BY <1>2, <2>2, <2>3 DEF RequestTypes
<1>4. ASSUME NEW t \in Threads, Resolve(t)
      PROVE  RequestTypes'
  <2>1. ASSUME NEW i
        PROVE  /\ [requests EXCEPT ![i].pending = FALSE] \in Seq(Request)
               /\ Len([requests EXCEPT ![i].pending = FALSE]) = Len(requests)
    <3> DEFINE r == [requests EXCEPT ![i].pending = FALSE]
    <3>1. requests \in [1..Len(requests) -> Request]
      BY <1>2, LenProperties, ElementOfSeq
    <3>2. \A m \in Request : [m EXCEPT !.pending = FALSE] \in Request
      BY DEF Request
    <3>3. r \in [1..Len(requests) -> Request]
      BY <3>1, <3>2
    <3> HIDE DEF r
    <3>4. r \in Seq(Request)
      BY <1>2, <3>3, SeqDef
    <3>5. Len(r) = Len(requests)
      BY <1>2, <3>3, <3>4, LenProperties
    <3> QED
      BY <3>4, <3>5 DEF r
  <2>2. /\ diskRequests' = requests'
        /\ requests' = requests \/ \E i : requests' = [requests EXCEPT ![i].pending = FALSE]
    BY <1>4 DEF Resolve, SaveRequests
  <2> QED
    BY <1>2, <2>1, <2>2 DEF RequestTypes
<1>5. ASSUME requests' = requests \/ requests' = diskRequests, diskRequests' = diskRequests
      PROVE  RequestTypes'
  BY <1>2, <1>5 DEF RequestTypes
<1>6. CASE FileStep
  BY <1>5, <1>6 DEF FileStep, Lookup, Seed, CreateFile, DeleteFile, AddAccess, RemoveAccess
<1>7. CASE Restart
  BY <1>5, <1>7 DEF Restart
<1>8. ASSUME NEW t \in Threads, StartStep(t)
      PROVE  RequestTypes'
  BY <1>5, <1>8 DEF StartStep, UpdateMetadata, Exec, AskAccess, Decide
<1>9. ASSUME NEW t \in Threads, ThreadStep(t)
      PROVE  RequestTypes'
  BY <1>3, <1>4, <1>5, <1>9 DEF ThreadStep, Fetch, Copy, Push, Grant
<1>10. CASE UNCHANGED vars
  BY <1>5, <1>10 DEF vars
<1> QED
  BY <1>6, <1>7, <1>8, <1>9, <1>10 DEF Next

----------------------------------------------------------------------------
(* The handlers in the middle of their work *)

Located(j) ==
  /\ j \in Jobs
  /\ j.at # "idle" => j.file \in Files
  /\ j.at \in {"append", "resolve", "grant"} => j.who \in Users
  /\ j.at = "append" => j.want \in {Read, Write}

LEMMA IdleLocated == Located(Idle)
BY DEF Located, Idle, Jobs, Places, Access

LEMMA BecomesLocated ==
  ASSUME JobPart, NEW t \in Threads, NEW j, Located(j), Becomes(t, j)
  PROVE  JobPart'
<1>1. threads \in [Threads -> Jobs] /\ j \in Jobs /\ threads' = [threads EXCEPT ![t] = j]
  BY DEF JobPart, Located, Becomes
<1>2. threads' \in [Threads -> Jobs]
  BY <1>1
<1>3. threads'[t] = j /\ \A s \in Threads : s # t => threads'[s] = threads[s]
  BY <1>1
<1>4. JobsLocated'
  BY <1>3 DEF JobPart, JobsLocated, Located
<1> QED
  BY <1>2, <1>4 DEF JobPart

LEMMA JobStep ==
  ASSUME IndInv, [Next]_vars
  PROVE  JobPart'
<1>1. JobPart /\ Agrees(entries, trie) /\ trie \in [Files -> Metas \cup {Null}]
  BY Parts DEF DataPart, DataTypes
<1>2. \A t \in Threads : Located(threads[t])
  BY <1>1 DEF JobPart, JobsLocated, Located
<1>3. ASSUME NEW t \in Threads, Done(t)
      PROVE  JobPart'
  BY <1>1, <1>3, IdleLocated, BecomesLocated DEF Done
<1>4. ASSUME threads' = threads
      PROVE  JobPart'
  BY <1>1, <1>4 DEF JobPart, JobsLocated
<1>5. ASSUME NEW t \in Threads, NEW f \in Files, NEW u \in Users, Exec(t, f, u)
      PROVE  JobPart'
  <2> DEFINE j == [Idle EXCEPT !.at = "fetch", !.file = f, !.meta = Found(f)]
  <2>1. Found(f) \in Metas
    BY <1>1, <1>5, FoundIsTrie DEF Exec
  <2>2. Located(j)
    BY <2>1 DEF Located, Idle, Jobs, Places, Access
  <2>3. Becomes(t, j)
    BY <1>5 DEF Exec
  <2> HIDE DEF j
  <2> QED
    BY <1>1, <2>2, <2>3, BecomesLocated
<1>6. ASSUME NEW t \in Threads, NEW f \in Files, UpdateMetadata(t, f)
      PROVE  JobPart'
  <2> DEFINE j == [Idle EXCEPT !.at = "copy", !.file = f]
  <2>1. Located(j)
    BY DEF Located, Idle, Jobs, Places, Access
  <2>2. Becomes(t, j)
    BY <1>6 DEF UpdateMetadata
  <2> HIDE DEF j
  <2> QED
    BY <1>1, <2>1, <2>2, BecomesLocated
<1>7. ASSUME NEW t \in Threads, NEW f \in Files, NEW v \in Users, NEW a \in {Read, Write},
             AskAccess(t, f, v, a)
      PROVE  JobPart'
  <2> DEFINE j == [Idle EXCEPT !.at = "append", !.file = f, !.who = v, !.want = a]
  <2>1. Located(j)
    BY DEF Located, Idle, Jobs, Places, Access
  <2>2. Becomes(t, j)
    BY <1>7 DEF AskAccess
  <2> HIDE DEF j
  <2> QED
    BY <1>1, <2>1, <2>2, BecomesLocated
<1>8. ASSUME NEW t \in Threads, NEW f \in Files, NEW u \in Users, NEW v \in Users,
             NEW a \in Access, Decide(t, f, u, v, a)
      PROVE  JobPart'
  <2> DEFINE j == [Idle EXCEPT !.at = "resolve", !.user = u, !.file = f, !.who = v, !.want = a]
  <2>1. Located(j)
    BY DEF Located, Idle, Jobs, Places
  <2>2. Becomes(t, j)
    BY <1>8 DEF Decide
  <2> HIDE DEF j
  <2> QED
    BY <1>1, <2>1, <2>2, BecomesLocated
<1>9. ASSUME NEW t \in Threads, Copy(t)
      PROVE  JobPart'
  <2> DEFINE p == trie[threads[t].file]
             j == [threads[t] EXCEPT !.at = "push", !.meta = p]
  <2>1. CASE p = Null
    BY <1>3, <1>9, <2>1 DEF Copy
  <2>2. CASE p # Null
    <3>1. threads[t] \in Jobs /\ threads[t].file \in Files
      BY <1>2, <1>9 DEF Located, Copy
    <3>2. p \in Metas
      BY <1>1, <2>2, <3>1
    <3>3. Becomes(t, j)
      BY <1>9, <2>2 DEF Copy
    <3> HIDE DEF p
    <3>4. Located(j)
      BY <3>1, <3>2 DEF Located, Jobs, Places
    <3> HIDE DEF j
    <3> QED
      BY <1>1, <3>3, <3>4, BecomesLocated
  <2> QED
    BY <2>1, <2>2
<1>10. ASSUME NEW t \in Threads, Resolve(t)
       PROVE  JobPart'
  <2> DEFINE j == [threads[t] EXCEPT !.at = "grant"]
  <2>1. Done(t) \/ Becomes(t, j)
    BY <1>10 DEF Resolve
  <2>2. threads[t] \in Jobs /\ threads[t].file \in Files /\ threads[t].who \in Users
    BY <1>2, <1>10 DEF Located, Resolve
  <2>3. Located(j)
    BY <2>2 DEF Located, Jobs, Places
  <2> HIDE DEF j
  <2> QED
    BY <1>1, <1>3, <2>1, <2>3, BecomesLocated
<1>11. CASE FileStep
  BY <1>4, <1>11 DEF FileStep, Lookup, Seed, CreateFile, DeleteFile, AddAccess, RemoveAccess
<1>12. CASE Restart
  <2>1. threads' = [t \in Threads |-> Idle]
    BY <1>12 DEF Restart
  <2> QED
    BY <2>1, IdleLocated DEF JobPart, JobsLocated, Located
<1>13. ASSUME NEW t \in Threads, StartStep(t)
       PROVE  JobPart'
  BY <1>5, <1>6, <1>7, <1>8, <1>13 DEF StartStep
<1>14. ASSUME NEW t \in Threads, ThreadStep(t)
       PROVE  JobPart'
  BY <1>3, <1>9, <1>10, <1>14 DEF ThreadStep, Fetch, Push, AppendRequest, Grant
<1>15. CASE UNCHANGED vars
  BY <1>4, <1>15 DEF vars
<1> QED
  BY <1>11, <1>12, <1>13, <1>14, <1>15 DEF Next

----------------------------------------------------------------------------
(* The theorems *)

LEMMA Starts == Init => IndInv
<1> SUFFICES ASSUME Init PROVE IndInv
  OBVIOUS
<1>1. DataPart
  BY DEF Init, DataPart, DataTypes, TrieExact, OwnerCanWrite, DiskMatches, Saved
<1>2. Agrees(entries, trie)
  BY DEF Init, Agrees, Distinct
<1>3. RequestTypes
  BY MetadataAssumption DEF Init, RequestTypes
<1>4. JobPart
  BY IdleLocated DEF Init, JobPart, JobsLocated, Located
<1> QED
  BY <1>1, <1>2, <1>3, <1>4, Parts

\* The inductive invariant holds in every state, for every number of files,
\* users and handlers, and every size of the cache and of the two arrays.
THEOREM Invariant == Spec => []IndInv
<1>1. IndInv /\ [Next]_vars => IndInv'
  <2> SUFFICES ASSUME IndInv, [Next]_vars PROVE IndInv'
    OBVIOUS
  <2>1. DataPart' /\ Agrees(entries, trie)' /\ RequestTypes' /\ JobPart'
    BY DataStep, RequestStep, JobStep
  <2> QED
    BY <2>1 DEF IndInv, TypeOK, DataPart, Agrees, JobPart, OneEntryPerName, CacheCoherent
<1> QED
  BY <1>1, Starts, PTL DEF Spec

\* All variables keep their types and the array of requests its bound.
THEOREM TypeCorrect == Spec => []TypeOK
<1>1. IndInv => TypeOK
  BY DEF IndInv
<1> QED
  BY <1>1, Invariant, PTL

\* Every name of the trie has a live object of its own and every object a name:
\* CREATE, DELETE, registrations and restarts neither leak nor share one.
THEOREM NamesExact == Spec => []TrieExact
<1>1. IndInv => TrieExact
  BY DEF IndInv
<1> QED
  BY <1>1, Invariant, PTL

\* A cached pointer is always the one the trie has, in a cache of any size.
THEOREM CacheStaysCoherent == Spec => []CacheCoherent
<1>1. IndInv => CacheCoherent
  BY DEF IndInv
<1> QED
  BY <1>1, Invariant, PTL

\* The owner of a file can always write it, however full its access list is.
THEOREM OwnersKeepWrite == Spec => []OwnerCanWrite
<1>1. IndInv => OwnerCanWrite
  BY DEF IndInv
<1> QED
  BY <1>1, Invariant, PTL

\* metadata.dat says what memory says between any two steps of the handlers.
THEOREM SavedAlways == Spec => []DiskMatches
<1>1. IndInv => DiskMatches
  BY DEF IndInv
<1> QED
  BY <1>1, Invariant, PTL

----------------------------------------------------------------------------
(* A request is pending once and granted once *)

Same(i, j) ==
  requests[i].file = requests[j].file /\ requests[i].requester = requests[j].requester

Single ==
  \A i, j \in DOMAIN requests :
    requests[i].pending /\ requests[j].pending /\ Same(i, j) => i = j

Granting(f, v) ==
  {t \in Threads : threads[t].at = "grant" /\ threads[t].file = f /\ threads[t].who = v}
Resolved(f, v) ==
  {i \in DOMAIN requests : requests[i].file = f /\ requests[i].requester = v
                             /\ ~requests[i].pending}

GrantsFollow ==
  \A f \in Files, v \in Users :
    /\ IsFiniteSet(Granting(f, v))
    /\ Cardinality(Granting(f, v)) <= Cardinality(Resolved(f, v))

LEMMA ResolvedFinite ==
  ASSUME RequestTypes, NEW f, NEW v
  PROVE  IsFiniteSet(Resolved(f, v)) /\ Cardinality(Resolved(f, v)) \in Nat
<1>1. DOMAIN requests = 1..Len(requests) /\ Len(requests) \in Nat
  BY LenProperties DEF RequestTypes
<1>2. IsFiniteSet(DOMAIN requests)
  BY <1>1, FS_Interval
<1>3. Resolved(f, v) \subseteq DOMAIN requests
  BY DEF Resolved
<1> QED
  BY <1>2, <1>3, FS_Subset, FS_CardinalityType

\* What the steps of a thread do to the sets of approvals under way.
LEMMA BecomesGranting ==
  ASSUME JobPart, NEW t \in Threads, NEW j, Becomes(t, j)
  PROVE  \A f, v :
           /\ Granting(f, v)' \subseteq Granting(f, v) \cup {t}
           /\ j.at # "grant" \/ j.file # f \/ j.who # v
                => Granting(f, v)' \subseteq Granting(f, v)
BY DEF JobPart, Becomes, Granting

LEMMA NoNewGrants ==
  ASSUME GrantsFollow, requests' = requests,
         \A f, v : Granting(f, v)' \subseteq Granting(f, v), RequestTypes
  PROVE  GrantsFollow'
<1> SUFFICES ASSUME NEW f \in Files, NEW v \in Users
             PROVE  /\ IsFiniteSet(Granting(f, v)')
                    /\ Cardinality(Granting(f, v)') <= Cardinality(Resolved(f, v)')
  BY DEF GrantsFollow
<1>1. Resolved(f, v)' = Resolved(f, v)
  BY DEF Resolved
<1>2. Granting(f, v)' \in SUBSET Granting(f, v) /\ IsFiniteSet(Granting(f, v))
      /\ Cardinality(Granting(f, v)) <= Cardinality(Resolved(f, v))
  BY DEF GrantsFollow
<1>3. /\ IsFiniteSet(Granting(f, v)')
      /\ Cardinality(Granting(f, v)') <= Cardinality(Granting(f, v))
  BY <1>2, FS_Subset
<1>4. /\ Cardinality(Granting(f, v)) \in Nat /\ Cardinality(Granting(f, v)') \in Nat
      /\ Cardinality(Resolved(f, v)) \in Nat
  BY <1>2, <1>3, FS_CardinalityType, ResolvedFinite
<1> QED
  BY <1>1, <1>2, <1>3, <1>4

LEMMA AppendKeeps ==
  ASSUME RequestTypes, JobPart, Single, GrantsFollow, NEW t \in Threads, AppendRequest(t)
  PROVE  Single' /\ GrantsFollow'
<1> DEFINE j == threads[t]
           n == Len(requests) + 1
<1>1. \A f, v : Granting(f, v)' \subseteq Granting(f, v)
  BY BecomesGranting DEF AppendRequest, Done, Idle
<1>2. CASE requests' = requests
  BY <1>1, <1>2, NoNewGrants DEF Single, Same
<1>3. CASE requests' = Append(requests, Asked(j)) /\ Pending(j.file, j.who) = {}
  <2>1. Asked(j) \in Request
    BY DEF JobPart, JobsLocated, AppendRequest, Asked, Request
  <2>2. /\ Len(requests) \in Nat /\ DOMAIN requests = 1..Len(requests)
        /\ DOMAIN requests' = 1..n /\ requests'[n] = Asked(j)
        /\ \A i \in 1..Len(requests) : requests'[i] = requests[i]
    BY <1>3, <2>1, AppendProperties, LenProperties DEF RequestTypes
  <2>3. \A i \in 1..Len(requests) :
          ~(requests[i].pending /\ requests[i].file = j.file /\ requests[i].requester = j.who)
    BY <1>3, <2>2 DEF Pending
  <2>4. Asked(j).pending /\ Asked(j).file = j.file /\ Asked(j).requester = j.who
    BY DEF Asked
  <2> HIDE DEF j
  <2>5. \A i \in DOMAIN requests' : i = n \/ i \in 1..Len(requests)
    BY <2>2
  <2>6. Single'
    BY <2>2, <2>3, <2>4, <2>5 DEF Single, Same
  <2>7. \A f, v : Resolved(f, v)' = Resolved(f, v)
    <3> SUFFICES ASSUME NEW f, NEW v PROVE Resolved(f, v)' = Resolved(f, v)
      OBVIOUS
    <3>1. n \notin Resolved(f, v)'
      BY <2>2, <2>4 DEF Resolved
    <3> QED
      BY <2>2, <2>5, <3>1 DEF Resolved
  <2>8. ASSUME NEW f \in Files, NEW v \in Users
        PROVE  /\ IsFiniteSet(Granting(f, v)')
               /\ Cardinality(Granting(f, v)') <= Cardinality(Resolved(f, v)')
    <3>1. Granting(f, v)' \in SUBSET Granting(f, v) /\ IsFiniteSet(Granting(f, v))
          /\ Cardinality(Granting(f, v)) <= Cardinality(Resolved(f, v))
      BY <1>1 DEF GrantsFollow
    <3>2. /\ IsFiniteSet(Granting(f, v)')
          /\ Cardinality(Granting(f, v)') <= Cardinality(Granting(f, v))
      BY <3>1, FS_Subset
    <3>3. /\ Cardinality(Granting(f, v)) \in Nat /\ Cardinality(Granting(f, v)') \in Nat
          /\ Cardinality(Resolved(f, v)) \in Nat
      BY <3>1, <3>2, FS_CardinalityType, ResolvedFinite
    <3> QED
      BY <2>7, <3>1, <3>2, <3>3
  <2> QED
    BY <2>6, <2>8 DEF GrantsFollow
<1> QED
  BY <1>2, <1>3 DEF AppendRequest

LEMMA ResolveKeeps ==
  ASSUME RequestTypes, JobPart, Single, GrantsFollow, NEW t \in Threads, Resolve(t)
  PROVE  Single' /\ GrantsFollow'
<1> DEFINE j == threads[t]
           hits == Pending(j.file, j.who)
<1>1. requests \in [DOMAIN requests -> Request]
  BY LenProperties DEF RequestTypes
<1>2. CASE hits = {}
  <2>1. requests' = requests /\ Done(t)
    BY <1>2 DEF Resolve
  <2>2. \A f, v : Granting(f, v)' \subseteq Granting(f, v)
    BY <2>1, BecomesGranting DEF Done, Idle
  <2> QED
    BY <2>1, <2>2, NoNewGrants DEF Single, Same
<1>3. CASE hits # {}
  <2> DEFINE k == CHOOSE i \in hits : \A h \in hits : i <= h
  <2>1. PICK i \in hits : hits = {i}
    BY <1>3 DEF Pending, Single, Same
  <2>2. k = i
    <3>1. i \in Nat
      <4>1. i \in DOMAIN requests /\ DOMAIN requests = 1..Len(requests)
        BY LenProperties DEF RequestTypes, Pending
      <4> QED
        BY <4>1
    <3>2. \E x \in hits : \A h \in hits : x <= h
      BY <2>1, <3>1
    <3> QED
      BY <2>1, <3>2
  <2>3. requests' = [requests EXCEPT ![k].pending = FALSE]
    BY <1>3 DEF Resolve
  <2>4. /\ i \in DOMAIN requests /\ requests[i].pending
        /\ requests[i].file = j.file /\ requests[i].requester = j.who
    BY DEF Pending
  <2> DEFINE granted == [threads[t] EXCEPT !.at = "grant"]
  <2>5. Done(t) \/ Becomes(t, granted)
    BY DEF Resolve
  <2>6. /\ DOMAIN requests' = DOMAIN requests
        /\ requests'[i] = [requests[i] EXCEPT !.pending = FALSE]
        /\ \A h \in DOMAIN requests \ {i} : requests'[h] = requests[h]
    BY <1>1, <2>2, <2>3, <2>4
  <2>7. /\ ~requests'[i].pending /\ requests'[i].file = j.file
        /\ requests'[i].requester = j.who
    BY <1>1, <2>4, <2>6 DEF Request
  <2>8. granted.file = j.file /\ granted.who = j.who
    BY DEF JobPart, Jobs
  <2>9. Single'
    BY <2>6, <2>7 DEF Single, Same
  <2> HIDE DEF hits, k, granted, j
  <2>10. ASSUME NEW f \in Files, NEW v \in Users
         PROVE  /\ IsFiniteSet(Granting(f, v)')
                /\ Cardinality(Granting(f, v)') <= Cardinality(Resolved(f, v)')
    <3>1. /\ IsFiniteSet(Granting(f, v)) /\ Cardinality(Granting(f, v)) \in Nat
          /\ Cardinality(Granting(f, v)) <= Cardinality(Resolved(f, v))
          /\ IsFiniteSet(Resolved(f, v)) /\ Cardinality(Resolved(f, v)) \in Nat
      BY FS_CardinalityType, ResolvedFinite DEF GrantsFollow
    <3>2. CASE f = j.file /\ v = j.who
      <4>1. Resolved(f, v)' = Resolved(f, v) \cup {i} /\ i \notin Resolved(f, v)
        BY <2>4, <2>6, <2>7, <3>2 DEF Resolved
      <4>2. Cardinality(Resolved(f, v)') = Cardinality(Resolved(f, v)) + 1
        BY <3>1, <4>1, FS_AddElement
      <4>3. Granting(f, v)' \in SUBSET (Granting(f, v) \cup {t})
        BY <2>5, BecomesGranting DEF Done
      <4>4. /\ IsFiniteSet(Granting(f, v) \cup {t})
            /\ Cardinality(Granting(f, v) \cup {t}) <= Cardinality(Granting(f, v)) + 1
            /\ Cardinality(Granting(f, v) \cup {t}) \in Nat
        <5>1. /\ IsFiniteSet(Granting(f, v) \cup {t})
              /\ Cardinality(Granting(f, v) \cup {t}) =
                   IF t \in Granting(f, v) THEN Cardinality(Granting(f, v))
                   ELSE Cardinality(Granting(f, v)) + 1
          BY <3>1, FS_AddElement
        <5> QED
          BY <3>1, <5>1
      <4>5. /\ IsFiniteSet(Granting(f, v)')
            /\ Cardinality(Granting(f, v)') <= Cardinality(Granting(f, v) \cup {t})
        BY <4>3, <4>4, FS_Subset
      <4>6. Cardinality(Granting(f, v)') \in Nat
        BY <4>5, FS_CardinalityType
      <4> QED
        BY <3>1, <4>2, <4>4, <4>5, <4>6
    <3>3. CASE f # j.file \/ v # j.who
      <4>1. Resolved(f, v)' = Resolved(f, v)
        BY <2>4, <2>6, <2>7, <3>3 DEF Resolved
      <4>2. Granting(f, v)' \in SUBSET Granting(f, v)
        <5>1. CASE Done(t)
          BY <5>1, BecomesGranting DEF Done, Idle
        <5>2. CASE Becomes(t, granted)
          BY <2>8, <3>3, <5>2, BecomesGranting
        <5> QED
          BY <2>5, <5>1, <5>2
      <4>3. /\ IsFiniteSet(Granting(f, v)')
            /\ Cardinality(Granting(f, v)') <= Cardinality(Granting(f, v))
        BY <3>1, <4>2, FS_Subset
      <4>4. Cardinality(Granting(f, v)') \in Nat
        BY <4>3, FS_CardinalityType
      <4> QED
        BY <3>1, <4>1, <4>3, <4>4
    <3> QED
      BY <3>2, <3>3
  <2> QED
    BY <2>9, <2>10 DEF GrantsFollow
<1> QED
  BY <1>2, <1>3

\* The other steps leave the requests alone and start no approval.
LEMMA OthersKeep ==
  ASSUME RequestTypes, Single, GrantsFollow, requests' = requests,
         \A f, v : Granting(f, v)' \subseteq Granting(f, v)
  PROVE  Single' /\ GrantsFollow'
BY NoNewGrants DEF Single, Same

LEMMA OnceStep ==
  ASSUME IndInv, Single, GrantsFollow, [Next]_vars
  PROVE  Single' /\ GrantsFollow'
<1>1. RequestTypes /\ JobPart
  BY Parts
<1>2. ASSUME requests' = requests, threads' = threads
      PROVE  Single' /\ GrantsFollow'
  <2>1. \A f, v : Granting(f, v)' \subseteq Granting(f, v)
    BY <1>2 DEF Granting
  <2> QED
    BY <1>1, <1>2, <2>1, OthersKeep
<1>3. ASSUME NEW t \in Threads, NEW j, j.at # "grant", Becomes(t, j), requests' = requests
      PROVE  Single' /\ GrantsFollow'
  <2>1. \A f, v : Granting(f, v)' \subseteq Granting(f, v)
    BY <1>1, <1>3, BecomesGranting
  <2> QED
    BY <1>1, <1>3, <2>1, OthersKeep
<1>4. CASE FileStep
  BY <1>2, <1>4 DEF FileStep, Lookup, Seed, CreateFile, DeleteFile, AddAccess, RemoveAccess
<1>5. CASE Restart
  <2>1. requests' = requests /\ threads' = [t \in Threads |-> Idle]
    BY <1>1, <1>5 DEF Restart, RequestTypes
  <2>2. \A f, v : Granting(f, v)' \subseteq Granting(f, v)
    BY <2>1 DEF Granting, Idle
  <2> QED
    BY <1>1, <2>1, <2>2, OthersKeep
<1>6. ASSUME NEW t \in Threads, StartStep(t)
      PROVE  Single' /\ GrantsFollow'
  <2>1. ASSUME NEW f \in Files, UpdateMetadata(t, f)
        PROVE  Single' /\ GrantsFollow'
    BY <1>3, <2>1 DEF UpdateMetadata, Idle
  <2>2. ASSUME NEW f \in Files, NEW u \in Users, Exec(t, f, u)
        PROVE  Single' /\ GrantsFollow'
    BY <1>3, <2>2 DEF Exec, Idle
  <2>3. ASSUME NEW f \in Files, NEW u \in Users, NEW a \in {Read, Write},
               AskAccess(t, f, u, a)
        PROVE  Single' /\ GrantsFollow'
    BY <1>3, <2>3 DEF AskAccess, Idle
  <2>4. ASSUME NEW f \in Files, NEW u \in Users, NEW v \in Users, NEW a \in Access,
               Decide(t, f, u, v, a)
        PROVE  Single' /\ GrantsFollow'
    BY <1>3, <2>4 DEF Decide, Idle
  <2> QED
    BY <1>6, <2>1, <2>2, <2>3, <2>4 DEF StartStep
<1>7. ASSUME NEW t \in Threads, ThreadStep(t)
      PROVE  Single' /\ GrantsFollow'
  <2>1. ASSUME Done(t), requests' = requests
        PROVE  Single' /\ GrantsFollow'
    BY <1>3, <2>1 DEF Done, Idle
  <2>2. CASE Fetch(t) \/ Push(t) \/ Grant(t)
    BY <2>1, <2>2 DEF Fetch, Push, Grant
  <2>3. CASE Copy(t)
    <3> DEFINE j == [threads[t] EXCEPT !.at = "push", !.meta = trie[threads[t].file]]
    <3>1. j.at # "grant"
      BY <1>1 DEF JobPart, Jobs
    <3>2. requests' = requests /\ (Done(t) \/ Becomes(t, j))
      BY <2>3 DEF Copy
    <3> HIDE DEF j
    <3> QED
      BY <1>3, <2>1, <3>1, <3>2
  <2> QED
    BY <1>1, <1>7, <2>2, <2>3, AppendKeeps, ResolveKeeps DEF ThreadStep
<1>8. CASE UNCHANGED vars
  BY <1>2, <1>8 DEF vars
<1> QED
  BY <1>4, <1>5, <1>6, <1>7, <1>8 DEF Next

LEMMA OnceStarts == Init => Single /\ GrantsFollow
<1> SUFFICES ASSUME Init PROVE Single /\ GrantsFollow
  OBVIOUS
<1>1. \A f, v : Granting(f, v) = {}
  BY DEF Init, Granting, Idle
<1>2. \A f, v : Resolved(f, v) = {}
  BY DEF Init, Resolved
<1>3. GrantsFollow
  BY <1>1, <1>2, FS_EmptySet DEF GrantsFollow
<1> QED
  BY <1>3 DEF Init, Single

\* Requests stay single and approvals behind the requests that were resolved, for
\* any number of handlers in the middle of asking, approving and denying.
THEOREM RequestsInvariant == Spec => [](Single /\ GrantsFollow)
<1>1. IndInv /\ Single /\ GrantsFollow /\ [Next]_vars => (Single /\ GrantsFollow)'
  BY OnceStep
<1> QED
  BY <1>1, Invariant, OnceStarts, PTL DEF Spec

\* A user has at most one pending request for a file.
THEOREM PendingOnce == Spec => []OnePending
<1>1. Single => OnePending
  <2> SUFFICES ASSUME Single, NEW f \in Files, NEW v \in Users
               PROVE  Cardinality(Pending(f, v)) <= 1
    BY DEF OnePending
  <2>1. Pending(f, v) = {} \/ \E i : Pending(f, v) = {i}
    BY DEF Single, Same, Pending
  <2> QED
    BY <2>1, FS_EmptySet, FS_Singleton
<1> QED
  BY <1>1, RequestsInvariant, PTL

\* Approvals under way are at most as many as the requests that were resolved: a
\* request is granted once, however many handlers approve it.
THEOREM GrantedOnce == Spec => []OneGrantPerRequest
<1>1. GrantsFollow => OneGrantPerRequest
  BY DEF GrantsFollow, OneGrantPerRequest, Granting, Resolved
<1> QED
  BY <1>1, RequestsInvariant, PTL

----------------------------------------------------------------------------
(* Access is only ever taken away by RemoveAccess *)

GrantsAccess == \A t \in Threads : threads[t].at = "grant" => threads[t].want # NoAccess

LEMMA GrantsAccessStep ==
  ASSUME IndInv, GrantsAccess, [Next]_vars
  PROVE  GrantsAccess'
<1>1. threads \in [Threads -> Jobs]
  BY DEF IndInv, TypeOK
<1>2. ASSUME NEW t \in Threads, NEW j, Becomes(t, j), j.at = "grant" => j.want # NoAccess
      PROVE  GrantsAccess'
  BY <1>1, <1>2 DEF Becomes, GrantsAccess
<1>3. CASE threads' = threads \/ threads' = [t \in Threads |-> Idle]
  BY <1>3 DEF GrantsAccess, Idle
<1>4. ASSUME NEW t \in Threads, Done(t)
      PROVE  GrantsAccess'
  BY <1>2, <1>4 DEF Done, Idle
<1>5. CASE FileStep \/ Restart \/ UNCHANGED vars
  BY <1>3, <1>5 DEF FileStep, Lookup, Seed, CreateFile, DeleteFile, AddAccess, RemoveAccess,
                    Restart, vars
<1>6. ASSUME NEW t \in Threads, StartStep(t)
      PROVE  GrantsAccess'
  <2>1. ASSUME NEW f, UpdateMetadata(t, f)
        PROVE  GrantsAccess'
    BY <1>2, <2>1 DEF UpdateMetadata, Idle
  <2>2. ASSUME NEW f, NEW u, Exec(t, f, u)
        PROVE  GrantsAccess'
    BY <1>2, <2>2 DEF Exec, Idle
  <2>3. ASSUME NEW f, NEW u, NEW a, AskAccess(t, f, u, a)
        PROVE  GrantsAccess'
    BY <1>2, <2>3 DEF AskAccess, Idle
  <2>4. ASSUME NEW f, NEW u, NEW v, NEW a, Decide(t, f, u, v, a)
        PROVE  GrantsAccess'
    BY <1>2, <2>4 DEF Decide, Idle
  <2> QED
    BY <1>6, <2>1, <2>2, <2>3, <2>4 DEF StartStep
<1>7. ASSUME NEW t \in Threads, ThreadStep(t)
      PROVE  GrantsAccess'
  <2>1. CASE Copy(t)
    <3> DEFINE j == [threads[t] EXCEPT !.at = "push", !.meta = trie[threads[t].file]]
    <3>1. j.at = "push"
      BY <1>1 DEF Jobs
    <3>2. Done(t) \/ Becomes(t, j)
      BY <2>1 DEF Copy
    <3> HIDE DEF j
    <3> QED
      BY <1>2, <1>4, <3>1, <3>2
  <2>2. CASE Resolve(t)
    <3> DEFINE j == [threads[t] EXCEPT !.at = "grant"]
    <3>1. j.want = threads[t].want
      BY <1>1 DEF Jobs
    <3>2. Done(t) \/ (Becomes(t, j) /\ threads[t].want # NoAccess)
      BY <2>2 DEF Resolve
    <3> HIDE DEF j
    <3> QED
      BY <1>2, <1>4, <3>1, <3>2
  <2> QED
    BY <1>4, <1>7, <2>1, <2>2 DEF ThreadStep, Fetch, Push, AppendRequest, Grant
<1> QED
  BY <1>5, <1>6, <1>7 DEF Next

\* n has the owner of m, and nobody but those in lost has less access.
Keeps(n, m, lost) ==
  n.owner = m.owner /\ \A w \in People \ lost : ~(n.acl[w] < m.acl[w])

LEMMA AclEditKeeps ==
  ASSUME NEW m \in Metadata, NEW v \in People, NEW a \in Access
  PROVE  /\ Keeps([m EXCEPT !.acl[v] = a], m, {v})
         /\ a >= m.acl[v] => Keeps([m EXCEPT !.acl[v] = a], m, {})
<1> DEFINE n == [m EXCEPT !.acl[v] = a]
<1>1. m.acl \in [People -> Access] /\ m.owner \in People
  BY DEF Metadata
<1>2. /\ n.owner = m.owner /\ n.acl[v] = a
      /\ \A w \in People : w # v => n.acl[w] = m.acl[w]
  BY <1>1 DEF Metadata
<1>3. \A w \in People : m.acl[w] \in 0..2
  BY <1>1 DEF Access, NoAccess, Read, Write
<1>4. a \in 0..2
  BY DEF Access, NoAccess, Read, Write
<1> HIDE DEF n
<1> QED
  BY <1>2, <1>3, <1>4 DEF Keeps, n

LEMMA SameKeeps ==
  ASSUME NEW m \in Metadata
  PROVE  \A lost : Keeps(m, m, lost)
<1>1. \A w \in People : m.acl[w] \in 0..2
  BY DEF Metadata, Access, NoAccess, Read, Write
<1> QED
  BY <1>1 DEF Keeps

LEMMA GrantedKeeps ==
  ASSUME NEW m \in Metadata, NEW v \in People, NEW a \in {Read, Write}
  PROVE  Keeps(Granted(m, v, a), m, {})
<1>1. CASE m.acl[v] = Write \/ ~Room(m, v)
  BY <1>1, SameKeeps DEF Granted
<1>2. CASE ~(m.acl[v] = Write \/ ~Room(m, v))
  <2> DEFINE b == IF v = m.owner THEN Write ELSE a
  <2>1. m.acl[v] \in Access /\ m.acl[v] # Write
    BY <1>2 DEF Metadata
  <2>2. b \in Access /\ b >= m.acl[v]
    BY <2>1 DEF Access, NoAccess, Read, Write
  <2>3. Granted(m, v, a) = [m EXCEPT !.acl[v] = b]
    BY <1>2 DEF Granted
  <2> HIDE DEF b
  <2> QED
    BY <2>2, <2>3, AclEditKeeps
<1> QED
  BY <1>1, <1>2

LEMMA RevokedKeeps ==
  ASSUME NEW m \in Metadata, NEW v \in People
  PROVE  Keeps(Revoked(m, v), m, {v})
<1>1. NoAccess \in Access
  BY DEF Access
<1> QED
  BY <1>1, AclEditKeeps, SameKeeps DEF Revoked

\* Whose access to f a step takes away.
Removed(f) == {v \in People : RemoveAccess(f, objs[trie[f]].owner, v)}

LEMMA AccessStep ==
  ASSUME IndInv, IndInv', GrantsAccess, [Next]_vars,
         NEW f \in Files, trie[f] # Null, trie'[f] # Null
  PROVE  Keeps(objs'[trie'[f]], objs[trie[f]], Removed(f))
<1> DEFINE Goal == Keeps(objs'[trie'[f]], objs[trie[f]], Removed(f))
<1>1. /\ DataPart /\ Agrees(entries, trie) /\ JobPart /\ DiskMatches /\ DiskMatches'
      /\ objs \in [Metas -> Metadata \cup {Null}] /\ trie \in [Files -> Metas \cup {Null}]
  BY Parts DEF DataPart, DataTypes, IndInv
<1>2. trie[f] \in Metas /\ objs[trie[f]] \in Metadata
  BY <1>1 DEF DataPart, TrieExact
<1>3. ASSUME disk'[f] = disk[f]
      PROVE  Goal
  <2>1. disk[f] = objs[trie[f]] /\ disk'[f] = objs'[trie'[f]]
    BY <1>1 DEF DiskMatches, Saved
  <2> QED
    BY <1>2, <1>3, <2>1, SameKeeps
<1>4. ASSUME NEW g \in Files, NEW u \in People, trie[g] = Null, AddFile(g, u)
      PROVE  Goal
  <2>1. PICK p \in {q \in Metas : objs[q] = Null} :
          /\ objs' = [objs EXCEPT ![p] = NewMetadata(g, u)]
          /\ trie' = [trie EXCEPT ![g] = p]
    BY <1>4 DEF AddFile
  <2>2. f # g /\ trie[f] # p
    BY <1>1, <1>2, <1>4, <2>1, MetadataAssumption
  <2>3. trie'[f] = trie[f] /\ objs'[trie[f]] = objs[trie[f]]
    BY <1>1, <1>2, <2>1, <2>2
  <2> QED
    BY <1>2, <2>3, SameKeeps
<1>5. ASSUME NEW g \in Files, NEW u \in Users, DeleteFile(g, u)
      PROVE  Goal
  <2>1. /\ objs' = [objs EXCEPT ![trie[g]] = Null]
        /\ trie' = [trie EXCEPT ![g] = Null]
    BY <1>5 DEF DeleteFile
  <2>2. f # g
    BY <1>1, <2>1
  <2>3. trie[f] # trie[g]
    BY <1>1, <2>2 DEF DataPart, TrieExact
  <2>4. trie'[f] = trie[f] /\ objs'[trie[f]] = objs[trie[f]]
    BY <1>1, <1>2, <2>1, <2>2, <2>3
  <2> QED
    BY <1>2, <2>4, SameKeeps
<1>6. ASSUME NEW p \in Metas, NEW m, objs' = [objs EXCEPT ![p] = m], trie' = trie,
             p = trie[f] => Keeps(m, objs[p], Removed(f))
      PROVE  Goal
  <2>1. CASE p = trie[f]
    BY <1>1, <1>6, <2>1
  <2>2. CASE p # trie[f]
    <3>1. trie'[f] = trie[f] /\ objs'[trie[f]] = objs[trie[f]]
      BY <1>1, <1>2, <1>6, <2>2
    <3> QED
      BY <1>2, <3>1, SameKeeps
  <2> QED
    BY <2>1, <2>2
<1>7. ASSUME NEW n, NEW m, Keeps(n, m, {}) PROVE Keeps(n, m, Removed(f))
  BY <1>7 DEF Keeps
<1>8. ASSUME NEW g \in Files, NEW u \in Users, OwnedBy(g, u)
      PROVE  /\ Found(g) = trie[g] /\ trie[g] \in Metas /\ objs[trie[g]] \in Metadata
             /\ objs[trie[g]].owner = u
  <2>1. Found(g) = trie[g] /\ trie[g] # Null /\ objs[trie[g]].owner = u
    BY <1>1, <1>8, FoundIsTrie DEF OwnedBy
  <2> QED
    BY <1>1, <2>1 DEF DataPart, TrieExact
<1>9. ASSUME NEW g \in Files, NEW u \in Users, NEW v \in Users, NEW a \in {Read, Write},
             AddAccess(g, u, v, a)
      PROVE  Goal
  <2> DEFINE p == trie[g]
             m == Granted(objs[p], v, a)
  <2>1. p \in Metas /\ objs[p] \in Metadata /\ Found(g) = p
    BY <1>8, <1>9 DEF AddAccess
  <2>2. objs' = [objs EXCEPT ![p] = m] /\ trie' = trie
    BY <1>9, <2>1 DEF AddAccess
  <2>3. Keeps(m, objs[p], {})
    BY <2>1, GrantedKeeps DEF People
  <2> HIDE DEF m, p
  <2> QED
    BY <1>6, <1>7, <2>1, <2>2, <2>3
<1>10. ASSUME NEW g \in Files, NEW u \in Users, NEW v \in Users, RemoveAccess(g, u, v)
       PROVE  Goal
  <2> DEFINE p == trie[g]
             m == Revoked(objs[p], v)
  <2>1. /\ p \in Metas /\ objs[p] \in Metadata /\ Found(g) = p /\ objs[p].owner = u
    BY <1>8, <1>10 DEF RemoveAccess
  <2>2. objs' = [objs EXCEPT ![p] = m] /\ trie' = trie
    BY <1>10, <2>1 DEF RemoveAccess
  <2>3. Keeps(m, objs[p], {v})
    BY <2>1, RevokedKeeps DEF People
  <2>4. p = trie[f] => v \in Removed(f)
    <3>1. p = trie[f] => f = g
      BY <1>1, <2>1, MetadataAssumption DEF DataPart, TrieExact
    <3> QED
      BY <1>10, <2>1, <3>1 DEF Removed, People
  <2> HIDE DEF m, p
  <2>5. p = trie[f] => Keeps(m, objs[p], Removed(f))
    BY <2>3, <2>4 DEF Keeps
  <2> QED
    BY <1>6, <2>1, <2>2, <2>5
<1>11. ASSUME NEW t \in Threads, Grant(t)
       PROVE  Goal
  <2> DEFINE j == threads[t]
             p == trie[j.file]
             m == Granted(objs[p], j.who, j.want)
  <2>1. j \in Jobs /\ j.at = "grant" /\ j.file \in Files /\ j.who \in People
    BY <1>1, <1>11 DEF JobPart, JobsLocated, Grant, People
  <2>2. j.want \in {Read, Write}
    BY <2>1 DEF Jobs, GrantsAccess, Access
  <2>3. CASE p = Null
    BY <1>3, <1>11, <2>3 DEF Grant
  <2>4. CASE p # Null
    <3>1. objs' = [objs EXCEPT ![p] = m] /\ trie' = trie
      BY <1>11, <2>4 DEF Grant
    <3>2. p \in Metas /\ objs[p] \in Metadata
      BY <1>1, <2>1, <2>4 DEF DataPart, TrieExact
    <3>3. Keeps(m, objs[p], {})
      BY <2>1, <2>2, <3>2, GrantedKeeps
    <3> HIDE DEF m, p, j
    <3> QED
      BY <1>6, <1>7, <3>1, <3>2, <3>3
  <2> QED
    BY <2>3, <2>4
<1>12. ASSUME NEW t \in Threads, NEW g \in Files, UpdateMetadata(t, g)
       PROVE  Goal
  <2>1. disk' = disk
    BY <1>1, <1>12 DEF UpdateMetadata, DiskMatches
  <2> QED
    BY <1>3, <2>1
<1>13. CASE Restart \/ UNCHANGED vars
  BY <1>3, <1>13 DEF Restart, vars
<1>14. CASE FileStep
  BY <1>3, <1>4, <1>5, <1>9, <1>10, <1>14
     DEF FileStep, Lookup, Seed, CreateFile, People
<1>15. ASSUME NEW t \in Threads, StartStep(t) \/ ThreadStep(t)
       PROVE  Goal
  BY <1>3, <1>11, <1>12, <1>15
     DEF StartStep, ThreadStep, Exec, AskAccess, Decide, Fetch, Copy, Push,
         AppendRequest, Resolve
<1> QED
  BY <1>13, <1>14, <1>15 DEF Next

\* As long as a file exists it keeps its owner, and a user's access to it falls
\* only when the owner removes it, whatever handlers and restarts come between.
THEOREM AccessOnlyRemoved == Spec => AccessKept
<1>1. Init => GrantsAccess
  BY DEF Init, GrantsAccess, Idle
<1>2. IndInv /\ GrantsAccess /\ [Next]_vars => GrantsAccess'
  BY GrantsAccessStep
<1>3. IndInv /\ IndInv' /\ GrantsAccess /\ [Next]_vars =>
        [\A f \in Files : trie[f] # Null /\ trie'[f] # Null =>
           LET old == objs[trie[f]]  new == objs'[trie'[f]]
           IN  /\ new.owner = old.owner
               /\ \A v \in People : new.acl[v] < old.acl[v] =>
                    RemoveAccess(f, old.owner, v)]_vars
  BY AccessStep DEF Keeps, Removed
<1> QED
  BY <1>1, <1>2, <1>3, Invariant, PTL DEF Spec, AccessKept
=============================================================================
