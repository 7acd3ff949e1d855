------------------------- MODULE WriteSessionProofs -------------------------
(***************************************************************************)
(* Proofs about WriteSession, for any number of sessions, handlers and     *)
(* files, any table sizes and any bounds, in three parts:                  *)
(*  - the operators of Sentences: what they return is a text, an index or  *)
(*    a position, and a splice changes one sentence;                       *)
(*  - the inductive invariant of WriteSession, and what follows from it;   *)
(*  - what holds when sessions are the only writers: no commit loses a     *)
(*    word, backups follow, and SentenceStore is implemented.              *)
(***************************************************************************)
EXTENDS WriteSession, NaturalsInduction, WellFoundedInduction,
        FiniteSetTheorems, FunctionTheorems, TLAPS

\* A set of numbers that is not empty has a least element.
LEMMA LeastElement ==
  ASSUME NEW S \in SUBSET Nat, S # {}
  PROVE  \E m \in S : \A n \in S : m <= n
<1>1. IsWellFoundedOn(OpToRel(<, Nat), Nat)
  BY NatLessThanWellFounded
<1>2. PICK m \in S : \A n \in S : ~(<<n, m>> \in OpToRel(<, Nat))
  BY <1>1, WFMin
<1>3. \A n \in S : ~(n < m)
  BY <1>2 DEF OpToRel
<1> QED
  BY <1>3

\* A set of positions is finite, and so is each part of it.
LEMMA PositionsFinite ==
  ASSUME NEW n \in Nat, NEW S \in SUBSET (1..n)
  PROVE  IsFiniteSet(S) /\ Cardinality(S) \in Nat
<1>1. IsFiniteSet(1..n)
  BY FS_Interval
<1>2. IsFiniteSet(S)
  BY <1>1, FS_Subset
<1> QED
  BY <1>2, FS_CardinalityType

\* The k-th smallest element exists for every k up to the size of the set, and k
\* elements come up to it.
LEMMA NthLeastIsElement ==
  ASSUME NEW n \in Nat, NEW S \in SUBSET (1..n), NEW k \in 1..Cardinality(S)
  PROVE  NthLeast(S, k) \in S /\ Cardinality({j \in S : j <= NthLeast(S, k)}) = k
<1>0. \A j \in S : j \in Nat /\ 1 <= j /\ j <= n
  OBVIOUS
<1> DEFINE Upto(i) == {j \in S : j <= i}
           Size(i) == Cardinality(Upto(i))
<1>1. \A i \in Int : Upto(i) \in SUBSET (1..n)
  OBVIOUS
<1>2. \A i \in Int : IsFiniteSet(Upto(i)) /\ Size(i) \in Nat
  BY <1>1, PositionsFinite
<1>3. Upto(n) = S
  BY <1>0
<1>4. Upto(0) = {}
  <2>1. \A j \in S : ~(j <= 0)
    BY <1>0
  <2> QED
    BY <2>1
<1>5. Size(0) = 0
  BY <1>4, FS_EmptySet
<1>6. \A i \in Nat : Size(i + 1) <= Size(i) + 1 /\ (i + 1 \notin S => Size(i + 1) = Size(i))
  <2> SUFFICES ASSUME NEW i \in Nat
               PROVE  Size(i + 1) <= Size(i) + 1 /\ (i + 1 \notin S => Size(i + 1) = Size(i))
    OBVIOUS
  <2>0. \A j \in S : j <= i + 1 <=> (j <= i \/ j = i + 1)
    BY <1>0
  <2>1. CASE i + 1 \in S
    <3>1. Upto(i + 1) = Upto(i) \cup {i + 1}
      BY <2>0, <2>1, Zenon
    <3>2. i + 1 \notin Upto(i)
      OBVIOUS
    <3>3. IsFiniteSet(Upto(i)) /\ Size(i) \in Nat
      BY <1>2
    <3> HIDE DEF Upto
    <3>4. Size(i + 1) = Size(i) + 1
      BY <3>1, <3>2, <3>3, FS_AddElement
    <3> QED
      BY <2>1, <3>3, <3>4
  <2>2. CASE i + 1 \notin S
    <3>1. Upto(i + 1) = Upto(i)
      BY <2>0, <2>2, Zenon
    <3>2. Size(i) \in Nat
      BY <1>2
    <3> HIDE DEF Upto
    <3> QED
      BY <3>1, <3>2
  <2> QED
    BY <2>1, <2>2
<1> DEFINE Reached == {i \in 0..n : Size(i) >= k}
<1>7. k \in Nat /\ 1 <= k /\ k <= Size(n)
  BY <1>3, PositionsFinite
<1>8. n \in Reached
  BY <1>7
<1> HIDE DEF Size
<1>9. \E m \in Reached : \A i \in Reached : m <= i
  <2>1. Reached \in SUBSET Nat /\ Reached # {}
    BY <1>8
  <2> HIDE DEF Reached
  <2> QED
    BY <2>1, LeastElement
<1>10. PICK m \in 0..n : Size(m) >= k /\ \A i \in 0..n : Size(i) >= k => m <= i
  BY <1>9
<1>11. m # 0
  BY <1>5, <1>7, <1>10
<1>12. m - 1 \in Nat /\ m - 1 \in 0..n /\ (m - 1) + 1 = m
  BY <1>10, <1>11
<1>13. Size(m - 1) < k /\ Size(m - 1) \in Nat /\ Size(m) \in Nat
  <2>1. Size(m - 1) \in Nat /\ Size(m) \in Nat
    <3>1. m \in Int /\ m - 1 \in Int
      BY <1>10, <1>12
    <3> HIDE DEF Upto
    <3> QED
      BY <1>2, <3>1
  <2>2. ~(Size(m - 1) >= k)
    BY <1>10, <1>12
  <2> QED
    BY <1>7, <2>1, <2>2
<1>14. m \in S /\ Size(m) = k
  BY <1>6, <1>7, <1>10, <1>12, <1>13
<1>15. Cardinality({j \in S : j <= m}) = k
  BY <1>14 DEF Size
<1> QED
  BY <1>14, <1>15 DEF NthLeast

\* Sentence ends are positions of the text, and there are finitely many.
LEMMA SentenceCountType ==
  ASSUME NEW c \in Text
  PROVE  /\ Len(c) \in Nat
         /\ SentenceEnds(c) \in SUBSET (1..Len(c))
         /\ SentenceCount(c) \in Nat
<1>1. Len(c) \in Nat /\ SentenceEnds(c) \in SUBSET (1..Len(c))
  BY DEF SentenceEnds, Text
<1>2. Cardinality(SentenceEnds(c)) \in Nat
  BY <1>1, PositionsFinite
<1> QED
  BY <1>1, <1>2 DEF SentenceCount

\* An existing sentence lies between two positions of the text.
LEMMA SentenceBounds ==
  ASSUME NEW c \in Text, NEW k \in Nat, k < SentenceCount(c)
  PROVE  /\ SentenceFirst(c, k) \in 1..(Len(c) + 1)
         /\ SentenceLast(c, k) \in 1..Len(c)
<1>1. Len(c) \in Nat /\ SentenceEnds(c) \in SUBSET (1..Len(c)) /\ SentenceCount(c) \in Nat
  BY SentenceCountType
<1>2. SentenceLast(c, k) \in SentenceEnds(c)
  <2>1. k + 1 \in 1..Cardinality(SentenceEnds(c))
    BY <1>1 DEF SentenceCount
  <2> QED
    BY <1>1, <2>1, NthLeastIsElement DEF SentenceLast
<1>3. CASE k = 0
  BY <1>1, <1>2, <1>3 DEF SentenceFirst
<1>4. CASE k > 0
  <2>1. k \in 1..Cardinality(SentenceEnds(c))
    BY <1>1, <1>4 DEF SentenceCount
  <2>2. NthLeast(SentenceEnds(c), k) \in SentenceEnds(c)
    BY <1>1, <2>1, NthLeastIsElement
  <2> QED
    BY <1>1, <1>2, <1>4, <2>2 DEF SentenceFirst
<1> QED
  BY <1>3, <1>4

\* A sentence of a text is a text.
LEMMA SentenceType ==
  ASSUME NEW c \in Text, NEW k \in Nat, k < SentenceCount(c)
  PROVE  Sentence(c, k) \in Text
<1>1. SentenceFirst(c, k) \in 1..(Len(c) + 1) /\ SentenceLast(c, k) \in 1..Len(c)
  BY SentenceBounds
<1> QED
  BY <1>1 DEF Sentence, Text

\* A session starts from at most as many words as the array holds.
LEMMA TargetWordsType ==
  ASSUME NEW c \in Text, NEW k \in Nat
  PROVE  TargetWords(c, k) \in Text /\ Len(TargetWords(c, k)) <= MaxWords
<1>1. CASE k < SentenceCount(c)
  <2> DEFINE s == Sentence(c, k)
             m == IF Len(s) < MaxWords THEN Len(s) ELSE MaxWords
  <2>1. s \in Seq(Token)
    BY <1>1, SentenceType DEF Text
  <2>2. m \in 0..Len(s) /\ m <= MaxWords
    BY <2>1, MaxWordsAssumption
  <2>3. TargetWords(c, k) = SubSeq(s, 1, m)
    BY <1>1 DEF TargetWords
  <2> HIDE DEF s, m
  <2>4. SubSeq(s, 1, m) \in Seq(Token) /\ Len(SubSeq(s, 1, m)) = m
    BY <2>1, <2>2
  <2> QED
    BY <2>2, <2>3, <2>4 DEF Text
<1>2. CASE ~(k < SentenceCount(c))
  BY <1>2, MaxWordsAssumption DEF TargetWords, Text
<1> QED
  BY <1>1, <1>2

\* Insertion keeps the array within its capacity.
LEMMA InsertWordType ==
  ASSUME NEW ws \in Text, NEW p \in Nat, NEW t \in Token, PositionValid(ws, p)
  PROVE  InsertWord(ws, p, t) \in Text /\ Len(InsertWord(ws, p, t)) <= MaxWords
<1> USE MaxWordsAssumption
<1>1. Len(ws) \in Nat /\ p \in 1..(Len(ws) + 1) /\ Len(ws) < MaxWords
  BY DEF PositionValid, Text
<1>2. CASE MergesInMiddle(ws, p) \/ MergesAtEnd(ws, p, t)
  <2>1. p - 1 \in 1..Len(ws)
    BY <1>1, <1>2 DEF MergesInMiddle, MergesAtEnd
  <2>2. ws[p - 1] \in Token
    BY <2>1 DEF Text
  <2>3. [atoms |-> ws[p - 1].atoms \o t.atoms, delim |-> TRUE] \in Token
    BY <2>2 DEF Token
  <2> DEFINE merged == MergeInto(ws, p - 1, t)
  <2>4. merged \in Seq(Token) /\ Len(merged) = Len(ws)
    BY <2>1, <2>3 DEF Text, MergeInto
  <2> QED
    BY <1>1, <1>2, <2>4 DEF InsertWord, Text
<1>3. CASE ~(MergesInMiddle(ws, p) \/ MergesAtEnd(ws, p, t))
  <2>1. SubSeq(ws, 1, p - 1) \in Seq(Token) /\ Len(SubSeq(ws, 1, p - 1)) = p - 1
    BY <1>1 DEF Text
  <2>2. /\ SubSeq(ws, p, Len(ws)) \in Seq(Token)
        /\ Len(SubSeq(ws, p, Len(ws))) = Len(ws) - p + 1
    BY <1>1 DEF Text
  <2>3. <<t>> \in Seq(Token) /\ Len(<<t>>) = 1
    OBVIOUS
  <2>4. InsertWord(ws, p, t) = (SubSeq(ws, 1, p - 1) \o <<t>>) \o SubSeq(ws, p, Len(ws))
    BY <1>3 DEF InsertWord, InsertAtPosition
  <2> DEFINE front == SubSeq(ws, 1, p - 1)
             back == SubSeq(ws, p, Len(ws))
             all == (front \o <<t>>) \o back
  <2> HIDE DEF front, back
  <2>5. front \in Seq(Token) /\ Len(front) = p - 1
    BY <2>1 DEF front
  <2>6. back \in Seq(Token) /\ Len(back) = Len(ws) - p + 1
    BY <2>2 DEF back
  <2>7. front \o <<t>> \in Seq(Token) /\ Len(front \o <<t>>) = p
    BY <1>1, <2>3, <2>5
  <2>8. all \in Seq(Token) /\ Len(all) = Len(ws) + 1
    BY <1>1, <2>6, <2>7
  <2>9. InsertWord(ws, p, t) = all
    BY <2>4 DEF front, back
  <2> HIDE DEF all
  <2> QED
    BY <1>1, <2>8, <2>9 DEF Text
<1> QED
  BY <1>2, <1>3

\* Rebuilding a sentence gives a text.
LEMMA RebuildType ==
  ASSUME NEW ws \in Text
  PROVE  Rebuild(ws) \in Text
<1>1. Len(ws) \in Nat /\ Kept(ws) \in SUBSET (1..Len(ws))
  BY DEF Kept, Text
<1>2. Cardinality(Kept(ws)) \in Nat
  BY <1>1, PositionsFinite
<1>3. \A i \in 1..Len(ws) : Closed(ws, i) \in Token
  <2> TAKE i \in 1..Len(ws)
  <2>1. ws[i] \in Token
    BY DEF Text
  <2>2. ws[i].atoms \in Seq(Atom)
    BY <2>1 DEF Token
  <2> QED
    BY <2>1, <2>2 DEF Closed, Token
<1>4. \A k \in 1..Cardinality(Kept(ws)) : Closed(ws, NthLeast(Kept(ws), k)) \in Token
  BY <1>1, <1>3, NthLeastIsElement
<1> QED
  BY <1>2, <1>4 DEF Rebuild, Text

\* Replacing a sentence of a text by a text gives a text.
LEMMA SpliceType ==
  ASSUME NEW c \in Text, NEW k \in Nat, NEW new \in Text
  PROVE  Splice(c, k, new) \in Text
<1>1. CASE k < SentenceCount(c)
  <2>1. Len(c) \in Nat
    BY SentenceCountType
  <2>2. SentenceFirst(c, k) \in 1..(Len(c) + 1) /\ SentenceLast(c, k) \in 1..Len(c)
    BY <1>1, SentenceBounds
  <2> DEFINE front == SubSeq(c, 1, SentenceFirst(c, k) - 1)
             back  == SubSeq(c, SentenceLast(c, k) + 1, Len(c))
  <2>3. front \in Seq(Token) /\ back \in Seq(Token)
    BY <2>1, <2>2 DEF Text
  <2>4. Splice(c, k, new) = front \o new \o back
    BY <1>1 DEF Splice
  <2> HIDE DEF front, back
  <2> QED
    BY <2>3, <2>4 DEF Text
<1>2. CASE ~(k < SentenceCount(c))
  BY <1>2 DEF Splice, Text
<1> QED
  BY <1>1, <1>2

\* FirstOf picks an element of any set of numbers that has one.
LEMMA FirstOfType ==
  ASSUME NEW S \in SUBSET Nat, S # {}
  PROVE  FirstOf(S) \in S
BY LeastElement DEF FirstOf

\* The target of a commit is a sentence of the latest text, or the place after
\* the last one, or -1 for a refusal.
LEMMA CommitTargetType ==
  ASSUME NEW c \in Text, NEW k \in Nat, NEW d \in Text
  PROVE  CommitTarget(c, k, d) \in 0..SentenceCount(d) \cup {-1}
<1> DEFINE n == SentenceCount(d)
<1>1. n \in Nat
  BY SentenceCountType
<1>2. \A x : Matches(d, x) \in SUBSET Nat /\ \A j \in Matches(d, x) : j < n
  BY <1>1 DEF Matches
<1>3. \A x : Matches(d, x) # {} => FirstOf(Matches(d, x)) \in 0..(n - 1)
  <2> SUFFICES ASSUME NEW x, Matches(d, x) # {}
               PROVE  FirstOf(Matches(d, x)) \in 0..(n - 1)
    OBVIOUS
  <2>1. FirstOf(Matches(d, x)) \in Matches(d, x)
    BY <1>2, FirstOfType
  <2> QED
    BY <2>1 DEF Matches
<1> HIDE DEF n
<1>4. AppendTarget(d) \in 0..n \cup {-1}
  BY <1>1 DEF AppendTarget, n
<1>5. AnchorTarget(c, k, d) \in 0..n \cup {-1}
  <2> DEFINE anchors == Matches(d, Sentence(c, k - 1))
  <2>1. CASE anchors = {} \/ FirstOf(anchors) + 1 >= n
    BY <2>1 DEF AnchorTarget, n
  <2>2. CASE ~(anchors = {} \/ FirstOf(anchors) + 1 >= n)
    <3>1. AnchorTarget(c, k, d) = FirstOf(anchors) + 1
      BY <2>2 DEF AnchorTarget, n
    <3>2. FirstOf(anchors) \in 0..(n - 1)
      BY <1>3, <2>2
    <3> QED
      BY <1>1, <3>1, <3>2
  <2> QED
    BY <2>1, <2>2
<1>6. FallbackTarget(c, k, d) \in 0..n \cup {-1}
  <2>1. CASE k > 0
    BY <1>5, <2>1 DEF FallbackTarget
  <2>2. CASE k = 0 /\ n > 0
    BY <1>1, <2>2 DEF FallbackTarget, n
  <2>3. CASE k = 0 /\ ~(n > 0)
    BY <1>1, <2>3 DEF FallbackTarget, n
  <2> QED
    BY <1>1, <2>1, <2>2, <2>3
<1>7. RemapTarget(c, k, d) \in 0..n \cup {-1}
  <2> DEFINE same == Matches(d, Sentence(c, k))
  <2>1. CASE k > n
    BY <1>1, <2>1 DEF RemapTarget, n
  <2>2. CASE k <= n /\ k \in same
    BY <1>1, <2>2 DEF RemapTarget, n
  <2>3. CASE k <= n /\ k \notin same /\ same # {}
    <3>1. RemapTarget(c, k, d) = FirstOf(same)
      BY <1>1, <2>3 DEF RemapTarget, n
    <3>2. FirstOf(same) \in 0..(n - 1)
      BY <1>3, <2>3
    <3> QED
      BY <1>1, <3>1, <3>2
  <2>4. CASE k <= n /\ k \notin same /\ same = {}
    <3>1. RemapTarget(c, k, d) = FallbackTarget(c, k, d)
      BY <1>1, <2>4 DEF RemapTarget, n
    <3> QED
      BY <1>6, <3>1
  <2> QED
    BY <1>1, <2>1, <2>2, <2>3, <2>4
<1> QED
  BY <1>4, <1>7 DEF CommitTarget, n

\* What a commit writes is a text.
LEMMA MergeType ==
  ASSUME NEW c \in Text, NEW k \in Nat, NEW ws \in Text, NEW d \in Text,
         CommitTarget(c, k, d) # -1
  PROVE  Merge(c, k, ws, d) \in Text
<1>1. CommitTarget(c, k, d) \in Nat
  BY CommitTargetType, SentenceCountType
<1> QED
  BY <1>1, RebuildType, SpliceType DEF Merge

-----------------------------------------------------------------------------
(***************************************************************************)
(* The invariants of WriteSession.                                         *)
(***************************************************************************)

USE DEF Writers, Entries

\* What the sentinels are told apart from.
LEMMA SentinelFacts ==
  /\ Absent \notin Text /\ NoEntry \notin Text /\ Free \notin Text /\ None \notin Text
  /\ NoEntry \notin Sessions /\ Free \notin Sessions /\ None \notin Files
  /\ NoEntry # Free /\ NoEntry # None
BY SentinelsAssumption DEF Sentinels

\* The bounds are numbers.
LEMMA BoundFacts ==
  MaxOpens \in Nat /\ MaxUpdates \in Nat /\ MaxOps \in Nat /\ MaxCrashes \in Nat
BY ConstantsAssumption

\* What clients and the naming server send.
LEMMA ConstantFacts ==
  /\ \A k \in Indices : k \in Nat
  /\ \A t \in Inserts : t \in Token
  /\ \A t \in ReplicaTexts : t \in Text
BY ConstantsAssumption

\* The empty text.
LEMMA EmptyText == <<>> \in Text
BY DEF Text

\* A file that is not there reads as the empty text.
LEMMA ContentsType ==
  ASSUME DiskOK, NEW f \in Files
  PROVE  Contents(f) \in Text
BY EmptyText DEF Contents, DiskOK, FileText

\* What a session writes is a text.
LEMMA MergedType ==
  ASSUME TypeOK, NEW s \in Sessions, Target(s) # -1
  PROVE  Merged(s) \in Text
<1>1. snap[s] \in Text /\ idx[s] \in Nat /\ words[s] \in Text /\ latest[s] \in Text
  BY DEF TypeOK, SessionsOK
<1>2. CommitTarget(snap[s], idx[s], latest[s]) # -1
  BY DEF Target
<1> QED
  BY <1>1, <1>2, MergeType DEF Merged

\* A session that is not idle knows its file and index.
LEMMA BusySession ==
  ASSUME TypeOK, ThreadsLocated, NEW s \in Sessions, pc[s] # "idle"
  PROVE  /\ file[s] \in Files
         /\ idx[s] \in Indices
         /\ Held(s) \in Entries
BY DEF ThreadsLocated, Held

\* What a session does after its commit, until it gives its sentence back.
Reports(s) == ReportCounts(s) \/ AwaitAck(s) \/ EndReport(s)

\* Lists the steps of the system, one per action.
LEMMA StepCases ==
  ASSUME Next
  PROVE  \/ \E s \in Sessions, f \in Files, k \in Indices : Open(s, f, k)
         \/ \E s \in Sessions : AcquireLock(s)
         \/ \E s \in Sessions : LockRefused(s)
         \/ \E s \in Sessions : SaveUndo(s)
         \/ \E s \in Sessions, p \in 1..MaxWords, t \in Inserts : ReceiveWord(s, p, t)
         \/ \E s \in Sessions : Etirw(s)
         \/ \E s \in Sessions : Disconnect(s)
         \/ \E s \in Sessions : LockCommit(s)
         \/ \E s \in Sessions : ReadLatest(s)
         \/ \E s \in Sessions : RefuseCommit(s)
         \/ \E s \in Sessions : WriteFile(s)
         \/ \E s \in Sessions : MirrorFile(s)
         \/ \E s \in Sessions : Reports(s)
         \/ \E s \in Sessions : ReleaseLock(s)
         \/ WriterStart
         \/ \E w \in Writers : WriterStep(w)
         \/ Restart
BY DEF Next, ClientStep, SessionStep, Reports

----------------------------------------------------------------------------
(* Type correctness *)

\* The initial states are typed and satisfy the rest of the invariant.
LEMMA InitInvariant ==
  ASSUME Init
  PROVE  IndInv
<1> USE ConstantsAssumption, SentinelFacts, EmptyText
<1>1. DiskOK
  BY DEF Init, DiskOK, FileText
<1>2. TablesOK
  BY DEF Init, TablesOK
<1>3. SessionsOK
  BY MaxWordsAssumption DEF Init, SessionsOK
<1>4. WritersOK
  BY DEF Init, WritersOK, WriterLabels
<1>5. RecordsOK
  <2>1. timeout \in BOOLEAN
    BY Zenon DEF Init
  <2> QED
    BY <2>1 DEF Init, RecordsOK, FileText
<1>6. ThreadsLocated
  BY DEF Init, ThreadsLocated
<1>7. LockTableExact
  BY DEF Init, LockTableExact, Holding
<1>8. CommitTableExact
  BY DEF Init, CommitTableExact, Critical
<1> QED
  BY <1>1, <1>2, <1>3, <1>4, <1>5, <1>6, <1>7, <1>8 DEF IndInv, TypeOK

\* Every step of a session keeps the types.
LEMMA SessionStepTypes ==
  ASSUME TypeOK, ThreadsLocated, NEW s \in Sessions, ClientStep(s) \/ SessionStep(s)
  PROVE  TypeOK'
<1> USE DEF TypeOK, DiskOK, TablesOK, SessionsOK, WritersOK, RecordsOK, Holding,
            disk, tables, sessions, writers, bounds, Goto, EndSession
<1>1. ASSUME NEW f \in Files, NEW k \in Indices, Open(s, f, k) PROVE TypeOK'
  <2>1. Contents(f) \in Text /\ k \in Nat
    BY ContentsType, ConstantsAssumption
  <2> QED
    BY <1>1, <2>1, BoundFacts DEF Open
<1>2. CASE AcquireLock(s)
  BY <1>2 DEF AcquireLock
<1>3. CASE LockRefused(s)
  BY <1>3, EmptyText, MaxWordsAssumption DEF LockRefused
<1>4. CASE SaveUndo(s)
  <2>1. TargetWords(snap[s], idx[s]) \in Text /\ Len(TargetWords(snap[s], idx[s])) <= MaxWords
    BY TargetWordsType
  <2> QED
    BY <1>4, <2>1 DEF SaveUndo
<1>5. ASSUME NEW p \in 1..MaxWords, NEW t \in Inserts, ReceiveWord(s, p, t) PROVE TypeOK'
  <2>1. p \in Nat /\ t \in Token /\ PositionValid(words[s], p)
    BY <1>5, ConstantsAssumption, MaxWordsAssumption DEF ReceiveWord
  <2>2. /\ InsertWord(words[s], p, t) \in Text
        /\ Len(InsertWord(words[s], p, t)) <= MaxWords
    BY <2>1, InsertWordType
  <2> QED
    BY <1>5, <2>2, ConstantsAssumption, SMTT(30) DEF ReceiveWord
<1>6. CASE Etirw(s)
  BY <1>6 DEF Etirw
<1>7. CASE Disconnect(s)
  BY <1>7 DEF Disconnect
<1>8. CASE LockCommit(s)
  BY <1>8 DEF LockCommit
<1>9. CASE ReadLatest(s)
  <2>1. file[s] \in Files
    BY <1>9, BusySession DEF ReadLatest
  <2>2. Contents(file[s]) \in Text
    BY <2>1, ContentsType
  <2> QED
    BY <1>9, <2>2 DEF ReadLatest
<1>10. CASE RefuseCommit(s)
  BY <1>10 DEF RefuseCommit, UnlockCommit
<1>11. CASE WriteFile(s)
  <2>1. file[s] \in Files /\ Merged(s) \in Text
    BY <1>11, BusySession, MergedType DEF WriteFile, ThreadsLocated
  <2>2. Contents(file[s]) \in Text
    BY <2>1, ContentsType
  <2> QED
    BY <1>11, <2>1, <2>2 DEF WriteFile, FileText
<1>12. CASE MirrorFile(s)
  <2>1. Merged(s) \in Text
    BY <1>12, MergedType DEF MirrorFile, ThreadsLocated
  <2> QED
    BY <1>12, <2>1 DEF MirrorFile, UnlockCommit, FileText
<1>13. CASE ReportCounts(s)
  <2>1. Merged(s) \in Text
    BY <1>13, MergedType DEF ReportCounts, ThreadsLocated
  <2> QED
    BY <1>13, <2>1 DEF ReportCounts
<1>14. CASE ReleaseLock(s)
  <2>1. Held(s) \in Entries
    BY <1>14, BusySession DEF ReleaseLock
  <2> HIDE DEF Entries
  <2> QED
    BY <1>14, <2>1, EmptyText, MaxWordsAssumption DEF ReleaseLock
<1>15. CASE AwaitAck(s)
  BY <1>15 DEF AwaitAck
<1>16. CASE EndReport(s)
  BY <1>16 DEF EndReport
<1> HIDE DEF TypeOK, DiskOK, TablesOK, SessionsOK, WritersOK, RecordsOK, Holding,
            disk, tables, sessions, writers, bounds, Goto, EndSession
<1> QED
  BY <1>1, <1>2, <1>3, <1>4, <1>5, <1>6, <1>7, <1>8, <1>9, <1>10, <1>11, <1>12,
     <1>13, <1>14, <1>15, <1>16 DEF ClientStep, SessionStep

\* A request of a handler or of the naming server is counted within its bound.
LEMMA RequestCounted ==
  ASSUME RecordsOK, ops < MaxOps, ops' = ops + 1,
         UNCHANGED <<counted, prior, timeout, opens, updates, crashes>>
  PROVE  RecordsOK'
<1>1. ops' \in 0..MaxOps
  BY BoundFacts DEF RecordsOK
<1> QED
  BY <1>1 DEF RecordsOK

\* So does every step of a thread that needs no commit lock.
LEMMA WriterStepTypes ==
  ASSUME TypeOK, ThreadsLocated, WriterStart \/ \E w \in Writers : WriterStep(w)
  PROVE  TypeOK'
<1> USE DEF TypeOK, DiskOK, TablesOK, SessionsOK, WritersOK, WriterLabels,
            FileText, disk, tables, sessions, writers, bounds, WriterGoto, StartWriter,
            EndWriter
<1>1. ASSUME NEW w \in Handlers, NEW f \in Files, TakeUndo(w, f) PROVE TypeOK'
  <2>1. RecordsOK'
    BY <1>1, RequestCounted DEF TakeUndo
  <2> QED
    BY <1>1, <2>1, EmptyText DEF TakeUndo
<1>2. ASSUME NEW w \in Handlers, NEW f \in Files, NEW g \in Tags,
              ReadCheckpoint(w, f, g) PROVE TypeOK'
  <2>1. RecordsOK'
    BY <1>2, RequestCounted DEF ReadCheckpoint
  <2> QED
    BY <1>2, <2>1, EmptyText DEF ReadCheckpoint
<1>3. ASSUME NEW w \in Handlers, NEW f \in Files, NEW g \in Tags,
              CreateCheckpoint(w, f, g) PROVE TypeOK'
  <2>1. RecordsOK'
    BY <1>3, RequestCounted DEF CreateCheckpoint
  <2> QED
    BY <1>3, <2>1, EmptyText DEF CreateCheckpoint
<1>4. ASSUME NEW f \in Files, CreateFile(f) PROVE TypeOK'
  <2>1. RecordsOK'
    BY <1>4, RequestCounted DEF CreateFile
  <2> QED
    BY <1>4, <2>1, EmptyText DEF CreateFile
<1>5. ASSUME NEW f \in Files, DeleteFile(f) PROVE TypeOK'
  <2>1. RecordsOK'
    BY <1>5, RequestCounted DEF DeleteFile
  <2> QED
    BY <1>5, <2>1, EmptyText DEF DeleteFile
<1>6. ASSUME NEW f \in Files, NEW t \in ReplicaTexts, PushFile(f, t) PROVE TypeOK'
  <2>1. RecordsOK'
    BY <1>6, RequestCounted DEF PushFile
  <2> QED
    BY <1>6, <2>1, EmptyText, ConstantFacts DEF PushFile
<1>7. ASSUME NEW w \in Writers, WriterWrite(w) PROVE TypeOK'
  BY <1>7 DEF WriterWrite, AfterWrite, RecordsOK
<1>8. ASSUME NEW w \in Writers, WriterMirrorAndEnd(w) PROVE TypeOK'
  BY <1>8, EmptyText DEF WriterMirrorAndEnd, RecordsOK
<1>9. ASSUME NEW w \in Writers, WriterMirror(w) PROVE TypeOK'
  BY <1>9 DEF WriterMirror, RecordsOK
<1>10. ASSUME NEW w \in Writers, WriterReport(w) PROVE TypeOK'
  BY <1>10, EmptyText DEF WriterReport, RecordsOK
<1>11. ASSUME NEW w \in Writers, WriteCheckpoint(w) PROVE TypeOK'
  BY <1>11, EmptyText DEF WriteCheckpoint, RecordsOK
<1> HIDE DEF TypeOK
<1> QED
  BY <1>1, <1>2, <1>3, <1>4, <1>5, <1>6, <1>7, <1>8, <1>9, <1>10, <1>11
     DEF WriterStart, WriterStep

\* And so does a restart.
LEMMA RestartTypes ==
  ASSUME TypeOK, Restart
  PROVE  TypeOK'
<1> USE BoundFacts, MaxWordsAssumption, EmptyText
<1>1. DiskOK'
  BY DEF Restart, TypeOK, DiskOK, disk
<1>2. TablesOK'
  BY DEF Restart, TypeOK, TablesOK
<1>3. SessionsOK'
  BY DEF Restart, TypeOK, SessionsOK
<1>4. WritersOK'
  BY DEF Restart, TypeOK, WritersOK, WriterLabels
<1>5. RecordsOK'
  <2>1. timeout' \in BOOLEAN
    BY Zenon DEF Restart
  <2> QED
    BY <2>1 DEF Restart, TypeOK, RecordsOK
<1> QED
  BY <1>1, <1>2, <1>3, <1>4, <1>5 DEF TypeOK

----------------------------------------------------------------------------
(* The sentence locks *)

\* A step that moves no session in or out of the locked part leaves the table
\* exact.
LEMMA LocksUndisturbed ==
  ASSUME LockTableExact, UNCHANGED <<locks, file, idx>>,
         \A t \in Sessions : pc'[t] \in Holding <=> pc[t] \in Holding
  PROVE  LockTableExact'
BY DEF LockTableExact, Held

\* No step leaks a sentence lock or frees another session's.
LEMMA LocksStep ==
  ASSUME TypeOK, ThreadsLocated, LockTableExact, Next
  PROVE  LockTableExact'
<1> USE DEF Goto, Holding, sessions, tables
<1>0. pc \in [Sessions -> {"idle", "opened"} \cup Holding]
  BY DEF TypeOK, SessionsOK
<1>1. ASSUME NEW s \in Sessions, NEW f \in Files, NEW k \in Indices, Open(s, f, k)
      PROVE  LockTableExact'
  BY <1>0, <1>1 DEF Open, LockTableExact, Held, TypeOK, SessionsOK
<1>2. ASSUME NEW s \in Sessions, AcquireLock(s) PROVE LockTableExact'
  <2>1. Held(s) \in Entries /\ locks \in [Entries -> Sessions \cup {NoEntry, Free}]
    BY <1>2, BusySession DEF AcquireLock, TypeOK, TablesOK
  <2>2. locks' = [locks EXCEPT ![Held(s)] = s] /\ locks[Held(s)] \in {NoEntry, Free}
    BY <1>2 DEF AcquireLock
  <2>3. \A t \in Sessions : Held(t)' = Held(t)
    BY <1>2 DEF AcquireLock, Held
  <2>4. /\ pc[s] = "opened" /\ pc'[s] = "locked"
        /\ \A t \in Sessions \ {s} : pc'[t] = pc[t]
    BY <1>0, <1>2 DEF AcquireLock
  <2> SUFFICES ASSUME NEW t \in Sessions, NEW e \in Entries
               PROVE  locks'[e] = t <=> pc'[t] \in Holding /\ Held(t) = e
    BY <2>3 DEF LockTableExact
  <2> HIDE DEF Entries
  <2>5. CASE t = s
    BY <2>1, <2>2, <2>4, <2>5 DEF LockTableExact
  <2>6. CASE t # s /\ e = Held(s)
    BY <2>1, <2>2, <2>4, <2>6, SentinelFacts DEF LockTableExact
  <2>7. CASE t # s /\ e # Held(s)
    BY <2>1, <2>2, <2>4, <2>7 DEF LockTableExact
  <2> QED
    BY <2>5, <2>6, <2>7
<1>3. ASSUME NEW s \in Sessions, LockRefused(s) PROVE LockTableExact'
  BY <1>0, <1>3 DEF LockRefused, EndSession, LockTableExact, Held, TypeOK, SessionsOK
<1>4. ASSUME NEW s \in Sessions, SaveUndo(s) PROVE LockTableExact'
  BY <1>0, <1>4, LocksUndisturbed DEF SaveUndo
<1>5. ASSUME NEW s \in Sessions, NEW p \in 1..MaxWords, NEW t \in Inserts,
             ReceiveWord(s, p, t)
      PROVE  LockTableExact'
  BY <1>0, <1>5, LocksUndisturbed DEF ReceiveWord
<1>6. ASSUME NEW s \in Sessions, Etirw(s) PROVE LockTableExact'
  BY <1>0, <1>6, LocksUndisturbed DEF Etirw
<1>7. ASSUME NEW s \in Sessions, Disconnect(s) PROVE LockTableExact'
  BY <1>0, <1>7, LocksUndisturbed DEF Disconnect
<1>8. ASSUME NEW s \in Sessions, LockCommit(s) PROVE LockTableExact'
  BY <1>0, <1>8, LocksUndisturbed DEF LockCommit
<1>9. ASSUME NEW s \in Sessions, ReadLatest(s) PROVE LockTableExact'
  BY <1>0, <1>9, LocksUndisturbed DEF ReadLatest
<1>10. ASSUME NEW s \in Sessions, RefuseCommit(s) PROVE LockTableExact'
  BY <1>0, <1>10, LocksUndisturbed DEF RefuseCommit
<1>11. ASSUME NEW s \in Sessions, WriteFile(s) PROVE LockTableExact'
  BY <1>0, <1>11, LocksUndisturbed DEF WriteFile
<1>12. ASSUME NEW s \in Sessions, MirrorFile(s) PROVE LockTableExact'
  BY <1>0, <1>12, LocksUndisturbed DEF MirrorFile
<1>13. ASSUME NEW s \in Sessions, Reports(s) PROVE LockTableExact'
  BY <1>0, <1>13, LocksUndisturbed DEF Reports, ReportCounts, AwaitAck, EndReport
<1>14. ASSUME NEW s \in Sessions, ReleaseLock(s) PROVE LockTableExact'
  <2>1. Held(s) \in Entries /\ locks \in [Entries -> Sessions \cup {NoEntry, Free}]
    BY <1>14, BusySession DEF ReleaseLock, TypeOK, TablesOK
  <2>2. locks' = [locks EXCEPT ![Held(s)] = Free]
    BY <1>14 DEF ReleaseLock
  <2>3. \A t \in Sessions \ {s} : Held(t)' = Held(t)
    BY <1>14 DEF ReleaseLock, EndSession, Held, TypeOK, SessionsOK
  <2>4. /\ pc[s] = "releasing" /\ pc'[s] = "idle"
        /\ \A t \in Sessions \ {s} : pc'[t] = pc[t]
    BY <1>0, <1>14 DEF ReleaseLock, EndSession
  <2> SUFFICES ASSUME NEW t \in Sessions, NEW e \in Entries
               PROVE  locks'[e] = t <=> pc'[t] \in Holding /\ Held(t)' = e
    BY DEF LockTableExact
  <2> HIDE DEF Entries
  <2>5. CASE t = s
    BY <2>1, <2>2, <2>4, <2>5, SentinelFacts DEF LockTableExact
  <2>6. CASE t # s /\ e = Held(s)
    BY <2>1, <2>2, <2>3, <2>4, <2>6, SentinelFacts DEF LockTableExact
  <2>7. CASE t # s /\ e # Held(s)
    BY <2>1, <2>2, <2>3, <2>4, <2>7 DEF LockTableExact
  <2> QED
    BY <2>5, <2>6, <2>7
<1>15. CASE WriterStart
  <2>1. UNCHANGED <<locks, file, idx, pc>>
    BY <1>15 DEF WriterStart, TakeUndo, ReadCheckpoint, CreateCheckpoint, CreateFile,
                 DeleteFile, PushFile
  <2> QED
    BY <2>1, LocksUndisturbed
<1>16. CASE \E w \in Writers : WriterStep(w)
  <2>1. UNCHANGED <<locks, file, idx, pc>>
    BY <1>16 DEF WriterStep, WriterWrite, WriterMirrorAndEnd, WriterMirror,
                 WriterReport, WriteCheckpoint
  <2> QED
    BY <2>1, LocksUndisturbed
<1>17. CASE Restart
  BY <1>17, SentinelFacts DEF Restart, LockTableExact
<1> QED
  BY <1>1, <1>2, <1>3, <1>4, <1>5, <1>6, <1>7, <1>8, <1>9, <1>10, <1>11, <1>12,
     <1>13, <1>14, <1>15, <1>16, <1>17, StepCases

----------------------------------------------------------------------------
(* The commit locks *)

\* When every file can have an entry, a session never goes without the lock.
LEMMA RoomForCommit ==
  ASSUME CommitTableSuffices, NEW f \in Files,
         commitLock \in [Files -> Sessions \cup {NoEntry, Free}]
  PROVE  HasRoom(commitLock, f, MaxCommitLocks)
<1> DEFINE used == {k \in DOMAIN commitLock : commitLock[k] # NoEntry}
<1> SUFFICES ASSUME commitLock[f] = NoEntry
             PROVE  Cardinality(used) < MaxCommitLocks
  BY DEF HasRoom
<1>1. used \in SUBSET Files /\ used # Files
  OBVIOUS
<1>2. IsFiniteSet(Files) /\ Cardinality(Files) \in Nat /\ MaxCommitLocks \in Nat
  BY ConstantsAssumption, FS_CardinalityType
<1> HIDE DEF used
<1>3. Cardinality(used) \in Nat /\ Cardinality(used) <= Cardinality(Files)
      /\ Cardinality(used) # Cardinality(Files)
  BY <1>1, <1>2, FS_Subset, FS_CardinalityType
<1> QED
  BY <1>2, <1>3 DEF CommitTableSuffices

\* A step that moves no session in or out of the commit section leaves the
\* table exact.
LEMMA CommitUndisturbed ==
  ASSUME CommitTableExact, UNCHANGED commitLock,
         \A t \in Sessions : pc'[t] \in Critical <=> pc[t] \in Critical,
         \A t \in Sessions : pc[t] \in Critical => file'[t] = file[t]
  PROVE  CommitTableExact'
BY DEF CommitTableExact, CommitTableSuffices

\* Leaving the commit section gives the lock back.
LEMMA CommitUnlocked ==
  ASSUME TypeOK, CommitTableExact, NEW s \in Sessions, file[s] \in Files,
         UnlockCommit(s), UNCHANGED file,
         pc'[s] \notin Critical, \A t \in Sessions \ {s} : pc'[t] = pc[t]
  PROVE  CommitTableExact'
<1>1. commitLock \in [Files -> Sessions \cup {NoEntry, Free}]
  BY DEF TypeOK, TablesOK
<1> SUFFICES ASSUME NEW t \in Sessions, NEW f \in Files
             PROVE  /\ commitLock'[f] = t => pc'[t] \in Critical /\ file[t] = f
                    /\ CommitTableSuffices /\ pc'[t] \in Critical /\ file[t] = f
                       => commitLock'[f] = t
  BY DEF CommitTableExact, CommitTableSuffices
<1>2. CASE commitLock[file[s]] = s
  <2>1. commitLock' = [commitLock EXCEPT ![file[s]] = Free]
    BY <1>2 DEF UnlockCommit
  <2>2. CASE t = s
    BY <1>1, <2>1, <2>2, SentinelFacts DEF CommitTableExact
  <2>3. CASE t # s
    BY <1>1, <1>2, <2>1, <2>3, SentinelFacts DEF CommitTableExact
  <2> QED
    BY <2>2, <2>3
<1>3. CASE commitLock[file[s]] # s
  <2>1. commitLock' = commitLock
    BY <1>3 DEF UnlockCommit
  <2> QED
    BY <1>3, <2>1 DEF CommitTableExact
<1> QED
  BY <1>2, <1>3

\* Every step keeps the table of commit locks exact.
LEMMA CommitStepExact ==
  ASSUME TypeOK, ThreadsLocated, CommitTableExact, Next
  PROVE  CommitTableExact'
<1> USE DEF Goto, Critical, sessions, tables
<1>0. pc \in [Sessions -> {"idle", "opened"} \cup Holding] /\ DOMAIN file = Sessions
  BY DEF TypeOK, SessionsOK
<1>1. ASSUME NEW s \in Sessions, NEW f \in Files, NEW k \in Indices, Open(s, f, k)
      PROVE  CommitTableExact'
  BY <1>0, <1>1, CommitUndisturbed DEF Open
<1>2. ASSUME NEW s \in Sessions, AcquireLock(s) PROVE CommitTableExact'
  BY <1>0, <1>2, CommitUndisturbed DEF AcquireLock
<1>3. ASSUME NEW s \in Sessions, LockRefused(s) PROVE CommitTableExact'
  BY <1>0, <1>3, CommitUndisturbed DEF LockRefused, EndSession
<1>4. ASSUME NEW s \in Sessions, SaveUndo(s) PROVE CommitTableExact'
  BY <1>0, <1>4, CommitUndisturbed DEF SaveUndo
<1>5. ASSUME NEW s \in Sessions, NEW p \in 1..MaxWords, NEW t \in Inserts,
             ReceiveWord(s, p, t)
      PROVE  CommitTableExact'
  BY <1>0, <1>5, CommitUndisturbed DEF ReceiveWord
<1>6. ASSUME NEW s \in Sessions, Etirw(s) PROVE CommitTableExact'
  BY <1>0, <1>6, CommitUndisturbed DEF Etirw
<1>7. ASSUME NEW s \in Sessions, Disconnect(s) PROVE CommitTableExact'
  BY <1>0, <1>7, CommitUndisturbed DEF Disconnect
<1>8. ASSUME NEW s \in Sessions, LockCommit(s) PROVE CommitTableExact'
  <2>1. file[s] \in Files
    BY <1>8, BusySession DEF LockCommit
  <2>2. commitLock \in [Files -> Sessions \cup {NoEntry, Free}]
    BY DEF TypeOK, TablesOK
  <2>3. /\ pc[s] = "commit" /\ pc'[s] = "merging" /\ file' = file
        /\ \A t \in Sessions \ {s} : pc'[t] = pc[t]
    BY <1>0, <1>8 DEF LockCommit
  <2> SUFFICES ASSUME NEW t \in Sessions, NEW f \in Files
               PROVE  /\ commitLock'[f] = t => pc'[t] \in Critical /\ file[t] = f
                      /\ CommitTableSuffices /\ pc'[t] \in Critical /\ file[t] = f
                         => commitLock'[f] = t
    BY <2>3 DEF CommitTableExact, CommitTableSuffices
  <2>4. CASE /\ commitLock[file[s]] \in {NoEntry, Free}
             /\ commitLock' = [commitLock EXCEPT ![file[s]] = s]
    <3>1. CASE t = s
      BY <2>1, <2>2, <2>3, <2>4, <3>1 DEF CommitTableExact
    <3>2. CASE t # s
      BY <2>1, <2>2, <2>3, <2>4, <3>2, SentinelFacts DEF CommitTableExact
    <3> QED
      BY <3>1, <3>2
  <2>5. CASE ~HasRoom(commitLock, file[s], MaxCommitLocks) /\ UNCHANGED commitLock
    <3>1. ~CommitTableSuffices
      BY <2>1, <2>2, <2>5, RoomForCommit
    <3> QED
      BY <2>3, <2>5, <3>1 DEF CommitTableExact
  <2> QED
    BY <1>8, <2>4, <2>5 DEF LockCommit
<1>9. ASSUME NEW s \in Sessions, ReadLatest(s) PROVE CommitTableExact'
  BY <1>0, <1>9, CommitUndisturbed DEF ReadLatest
<1>10. ASSUME NEW s \in Sessions, RefuseCommit(s) PROVE CommitTableExact'
  <2>1. file[s] \in Files
    BY <1>10, BusySession DEF RefuseCommit
  <2> QED
    BY <1>0, <1>10, <2>1, CommitUnlocked DEF RefuseCommit
<1>11. ASSUME NEW s \in Sessions, WriteFile(s) PROVE CommitTableExact'
  BY <1>0, <1>11, CommitUndisturbed DEF WriteFile
<1>12. ASSUME NEW s \in Sessions, MirrorFile(s) PROVE CommitTableExact'
  <2>1. file[s] \in Files
    BY <1>12, BusySession DEF MirrorFile
  <2> QED
    BY <1>0, <1>12, <2>1, CommitUnlocked DEF MirrorFile
<1>13. ASSUME NEW s \in Sessions, Reports(s) PROVE CommitTableExact'
  BY <1>0, <1>13, CommitUndisturbed DEF Reports, ReportCounts, AwaitAck, EndReport
<1>14. ASSUME NEW s \in Sessions, ReleaseLock(s) PROVE CommitTableExact'
  BY <1>0, <1>14, CommitUndisturbed DEF ReleaseLock, EndSession
<1>15. CASE WriterStart
  <2>1. UNCHANGED <<commitLock, file, pc>>
    BY <1>15 DEF WriterStart, TakeUndo, ReadCheckpoint, CreateCheckpoint, CreateFile,
                 DeleteFile, PushFile
  <2> QED
    BY <2>1, CommitUndisturbed
<1>16. CASE \E w \in Writers : WriterStep(w)
  <2>1. UNCHANGED <<commitLock, file, pc>>
    BY <1>16 DEF WriterStep, WriterWrite, WriterMirrorAndEnd, WriterMirror,
                 WriterReport, WriteCheckpoint
  <2> QED
    BY <2>1, CommitUndisturbed
<1>17. CASE Restart
  BY <1>17, SentinelFacts DEF Restart, CommitTableExact
<1> QED
  BY <1>1, <1>2, <1>3, <1>4, <1>5, <1>6, <1>7, <1>8, <1>9, <1>10, <1>11, <1>12,
     <1>13, <1>14, <1>15, <1>16, <1>17, StepCases

----------------------------------------------------------------------------
(* Where the threads are *)

SessionsLocated ==
  /\ \A s \in Sessions : pc[s] # "idle" => Held(s) \in Entries
  /\ \A s \in Sessions :
       pc[s] \in {"writing", "mirroring", "reporting"} => Target(s) # -1

WritersLocated ==
  /\ \A w \in Writers : wpc[w] # "idle" => wfile[w] \in Files
  /\ \A w \in Writers : wpc[w] = "checkpoint write" => wtag[w] \in Tags

\* A session that moves on keeps its file and its target.
LEMMA SessionMoves ==
  ASSUME SessionsLocated, UNCHANGED <<file, idx, snap, latest>>,
         \A t \in Sessions : pc[t] = "idle" => pc'[t] = "idle",
         \A t \in Sessions : pc'[t] \in {"writing", "mirroring", "reporting"}
                              => pc[t] \in {"writing", "mirroring", "reporting"}
  PROVE  SessionsLocated'
BY DEF SessionsLocated, Held, Target

\* Every busy thread has its file, in every step.
LEMMA LocatedStep ==
  ASSUME TypeOK, ThreadsLocated, Next
  PROVE  ThreadsLocated'
<1> USE DEF Goto, sessions, writers
<1>1. /\ pc \in [Sessions -> {"idle", "opened"} \cup Holding]
      /\ file \in [Sessions -> Files \cup {None}] /\ idx \in [Sessions -> Nat]
      /\ DOMAIN snap = Sessions /\ DOMAIN latest = Sessions
  BY DEF TypeOK, SessionsOK
<1>2. wpc \in [Writers -> WriterLabels] /\ DOMAIN wfile = Writers /\ DOMAIN wtag = Writers
  BY DEF TypeOK, WritersOK
<1>3. SessionsLocated /\ WritersLocated
  BY DEF ThreadsLocated, SessionsLocated, WritersLocated
<1> HIDE DEF Writers, Entries
<1>4. ASSUME NEW s \in Sessions, ClientStep(s) \/ SessionStep(s) PROVE WritersLocated'
  <2>1. UNCHANGED <<wpc, wfile, wtag>>
    BY <1>4 DEF ClientStep, SessionStep, Open, AcquireLock, LockRefused, SaveUndo,
                ReceiveWord, Etirw, Disconnect, LockCommit, ReadLatest, RefuseCommit,
                WriteFile, MirrorFile, ReportCounts, AwaitAck, EndReport, ReleaseLock
  <2> QED
    BY <1>3, <2>1 DEF WritersLocated
<1>5. ASSUME NEW s \in Sessions, ClientStep(s) \/ SessionStep(s) PROVE SessionsLocated'
  <2>1. ASSUME NEW f \in Files, NEW k \in Indices, Open(s, f, k) PROVE SessionsLocated'
    BY <1>1, <1>3, <2>1 DEF Open, SessionsLocated, Held, Target, Entries
  <2>2. CASE AcquireLock(s)
    BY <1>1, <1>3, <2>2, SessionMoves DEF AcquireLock
  <2>3. CASE LockRefused(s)
    BY <1>1, <1>3, <2>3 DEF LockRefused, EndSession, SessionsLocated, Held, Target
  <2>4. CASE SaveUndo(s)
    BY <1>1, <1>3, <2>4, SessionMoves DEF SaveUndo
  <2>5. ASSUME NEW p \in 1..MaxWords, NEW t \in Inserts, ReceiveWord(s, p, t)
        PROVE  SessionsLocated'
    BY <1>1, <1>3, <2>5, SessionMoves DEF ReceiveWord
  <2>6. CASE Etirw(s) \/ Disconnect(s)
    BY <1>1, <1>3, <2>6, SessionMoves DEF Etirw, Disconnect
  <2>7. CASE LockCommit(s)
    BY <1>1, <1>3, <2>7, SessionMoves DEF LockCommit
  <2>8. CASE ReadLatest(s)
    BY <1>1, <1>3, <2>8 DEF ReadLatest, SessionsLocated, Held, Target
  <2>9. CASE RefuseCommit(s)
    BY <1>1, <1>3, <2>9, SessionMoves DEF RefuseCommit
  <2>10. CASE WriteFile(s)
    BY <1>1, <1>3, <2>10, SessionMoves DEF WriteFile
  <2>11. CASE MirrorFile(s)
    BY <1>1, <1>3, <2>11, SessionMoves DEF MirrorFile
  <2>12. CASE Reports(s)
    BY <1>1, <1>3, <2>12, SessionMoves DEF Reports, ReportCounts, AwaitAck, EndReport
  <2>13. CASE ReleaseLock(s)
    BY <1>1, <1>3, <2>13 DEF ReleaseLock, EndSession, SessionsLocated, Held, Target
  <2> QED
    BY <1>5, <2>1, <2>2, <2>3, <2>4, <2>5, <2>6, <2>7, <2>8, <2>9, <2>10, <2>11, <2>12,
       <2>13 DEF ClientStep, SessionStep, Reports
<1>6. CASE WriterStart
  <2>1. UNCHANGED <<pc, file, idx, snap, latest>>
    BY <1>6 DEF WriterStart, TakeUndo, ReadCheckpoint, CreateCheckpoint, CreateFile,
                DeleteFile, PushFile
  <2>2. SessionsLocated'
    BY <1>3, <2>1, SessionMoves
  <2>3. WritersLocated'
    <3> USE <1>2, <1>3 DEF StartWriter, WriterGoto, WritersLocated
    <3>1. ASSUME NEW w \in Handlers, NEW f \in Files, TakeUndo(w, f)
          PROVE  WritersLocated'
      BY <3>1 DEF TakeUndo
    <3>2. ASSUME NEW w \in Handlers, NEW f \in Files, NEW g \in Tags,
                 ReadCheckpoint(w, f, g)
          PROVE  WritersLocated'
      BY <3>2 DEF ReadCheckpoint
    <3>3. ASSUME NEW w \in Handlers, NEW f \in Files, NEW g \in Tags,
                 CreateCheckpoint(w, f, g)
          PROVE  WritersLocated'
      BY <3>3 DEF CreateCheckpoint
    <3>4. ASSUME NEW f \in Files, CreateFile(f) PROVE WritersLocated'
      BY <3>4 DEF CreateFile
    <3>5. ASSUME NEW f \in Files, DeleteFile(f) PROVE WritersLocated'
      BY <3>5 DEF DeleteFile
    <3>6. ASSUME NEW f \in Files, NEW t \in ReplicaTexts, PushFile(f, t)
          PROVE  WritersLocated'
      BY <3>6 DEF PushFile
    <3> QED
      BY <1>6, <3>1, <3>2, <3>3, <3>4, <3>5, <3>6 DEF WriterStart
  <2> QED
    BY <2>2, <2>3 DEF ThreadsLocated, SessionsLocated, WritersLocated
<1>7. CASE \E w \in Writers : WriterStep(w)
  <2>1. UNCHANGED <<pc, file, idx, snap, latest>>
    BY <1>7 DEF WriterStep, WriterWrite, WriterMirrorAndEnd, WriterMirror, WriterReport,
                WriteCheckpoint
  <2>2. SessionsLocated'
    BY <1>3, <2>1, SessionMoves
  <2>3. WritersLocated'
    <3>1. PICK w \in Writers : WriterStep(w)
      BY <1>7
    <3> USE <1>2, <1>3 DEF WriterGoto, EndWriter, WritersLocated
    <3>2. CASE WriterWrite(w)
      BY <3>2 DEF WriterWrite, AfterWrite
    <3>3. CASE WriterMirrorAndEnd(w)
      BY <3>3 DEF WriterMirrorAndEnd
    <3>4. CASE WriterMirror(w)
      BY <3>4 DEF WriterMirror
    <3>5. CASE WriterReport(w)
      BY <3>5 DEF WriterReport
    <3>6. CASE WriteCheckpoint(w)
      BY <3>6 DEF WriteCheckpoint
    <3> QED
      BY <3>1, <3>2, <3>3, <3>4, <3>5, <3>6 DEF WriterStep
  <2> QED
    BY <2>2, <2>3 DEF ThreadsLocated, SessionsLocated, WritersLocated
<1>8. CASE Restart
  BY <1>8 DEF Restart, ThreadsLocated
<1> QED
  BY <1>4, <1>5, <1>6, <1>7, <1>8
     DEF Next, ThreadsLocated, SessionsLocated, WritersLocated

----------------------------------------------------------------------------
(* The invariant is inductive *)

\* Every step, and every stutter, keeps the inductive invariant.
LEMMA NextInvariant ==
  ASSUME IndInv, [Next]_vars
  PROVE  IndInv'
<1>1. CASE Next
  <2>1. TypeOK'
    BY <1>1, SessionStepTypes, WriterStepTypes, RestartTypes DEF IndInv, Next
  <2> QED
    BY <1>1, <2>1, LocatedStep, LocksStep, CommitStepExact DEF IndInv
<1>2. CASE UNCHANGED vars
  BY <1>2 DEF IndInv, TypeOK, DiskOK, TablesOK, SessionsOK, WritersOK, RecordsOK,
              ThreadsLocated, LockTableExact, CommitTableExact, CommitTableSuffices,
              Held, Target, vars, disk, tables, sessions, writers, bounds
<1> QED
  BY <1>1, <1>2

\* The inductive invariant holds in every reachable state.
THEOREM Invariant == Spec => []IndInv
BY InitInvariant, NextInvariant, PTL DEF Spec

\* Types, and the capacity of the array of words (handle_write_file).
THEOREM TypeCorrect == Spec => []TypeOK
<1>1. IndInv => TypeOK
  BY DEF IndInv
<1> QED
  BY <1>1, Invariant, PTL

\* A sentence lock is set exactly while its session is between
\* try_acquire_lock and release_lock.
THEOREM LocksExact == Spec => []LockTableExact
<1>1. IndInv => LockTableExact
  BY DEF IndInv
<1> QED
  BY <1>1, Invariant, PTL

\* With room for every file, the commit sections of a file exclude each other.
THEOREM CommitsSerialised ==
  ASSUME CommitTableSuffices
  PROVE  Spec => []CommitSerialised
<1>1. IndInv => CommitSerialised
  <2> SUFFICES ASSUME IndInv, NEW s \in Sessions, NEW t \in Sessions, s # t,
                      pc[s] \in Critical, pc[t] \in Critical, file[s] = file[t]
               PROVE  FALSE
    BY DEF CommitSerialised
  <2>1. file[s] \in Files
    BY BusySession DEF IndInv, Critical
  <2> QED
    BY <2>1 DEF IndInv, CommitTableExact
<1> QED
  BY <1>1, Invariant, PTL

-----------------------------------------------------------------------------
(***************************************************************************)
(* What WriteSession guarantees when sessions are the only writers: no     *)
(* UNDO, revert or naming-server command changes a file (MaxOps = 0), and  *)
(* file_commit_locks has room for every file.  A commit then merges into   *)
(* the text it replaces and loses no word of it, backups follow their      *)
(* files as long as no restart comes between, and the module implements    *)
(* SentenceStore.                                                          *)
(***************************************************************************)

SessionsOnly == MaxOps = 0 /\ CommitTableSuffices

WritersIdle == \A w \in Writers : wpc[w] = "idle"

\* Between the two writes of a commit the file holds what the backup will.
MirrorPending ==
  \A s \in Sessions : pc[s] = "mirroring" => content[file[s]] = Merged(s)

SoloInv == WritersIdle /\ CommitSeesLatest /\ MirrorPending

\* No writer ever starts.
LEMMA NoWriters ==
  ASSUME SessionsOnly, IndInv, WritersIdle, Next
  PROVE  \/ \E s \in Sessions : ClientStep(s) \/ SessionStep(s)
         \/ Restart
<1>1. ops = 0
  BY DEF SessionsOnly, IndInv, TypeOK, RecordsOK
<1>2. ~WriterStart
  BY <1>1 DEF SessionsOnly, WriterStart, TakeUndo, ReadCheckpoint, CreateCheckpoint,
              CreateFile, DeleteFile, PushFile, StartWriter
<1>3. ~(\E w \in Writers : WriterStep(w))
  BY DEF WritersIdle, WriterStep, WriterWrite, WriterMirrorAndEnd, WriterMirror,
         WriterReport, WriteCheckpoint
<1> QED
  BY <1>2, <1>3 DEF Next

\* A session that neither enters nor is in its two writes, while no file changes,
\* disturbs nothing.
LEMMA SoloUndisturbed ==
  ASSUME SoloInv, UNCHANGED <<content, wpc>>,
         \A t \in Sessions :
           pc'[t] \in {"writing", "mirroring"} =>
             /\ pc'[t] = pc[t]
             /\ file'[t] = file[t] /\ latest'[t] = latest[t]
             /\ snap'[t] = snap[t] /\ idx'[t] = idx[t] /\ words'[t] = words[t]
  PROVE  SoloInv'
BY DEF SoloInv, WritersIdle, CommitSeesLatest, MirrorPending, Contents, Merged

\* Every step keeps the invariant of the sessions that are alone.
LEMMA SoloStep ==
  ASSUME SessionsOnly, IndInv, SoloInv, [Next]_vars
  PROVE  SoloInv'
<1> USE DEF Goto, disk, sessions, writers
<1>0. /\ pc \in [Sessions -> {"idle", "opened"} \cup Holding]
      /\ DOMAIN file = Sessions /\ DOMAIN snap = Sessions /\ DOMAIN idx = Sessions
      /\ DOMAIN words = Sessions /\ DOMAIN latest = Sessions
  BY DEF IndInv, TypeOK, SessionsOK
<1>1. ASSUME NEW s \in Sessions, NEW f \in Files, NEW k \in Indices, Open(s, f, k)
      PROVE  SoloInv'
  BY <1>0, <1>1, SoloUndisturbed DEF Open
<1>2. ASSUME NEW s \in Sessions, AcquireLock(s) PROVE SoloInv'
  BY <1>0, <1>2, SoloUndisturbed DEF AcquireLock
<1>3. ASSUME NEW s \in Sessions, LockRefused(s) PROVE SoloInv'
  BY <1>0, <1>3, SoloUndisturbed DEF LockRefused, EndSession
<1>4. ASSUME NEW s \in Sessions, SaveUndo(s) PROVE SoloInv'
  BY <1>0, <1>4, SoloUndisturbed DEF SaveUndo
<1>5. ASSUME NEW s \in Sessions, NEW p \in 1..MaxWords, NEW t \in Inserts,
             ReceiveWord(s, p, t)
      PROVE  SoloInv'
  BY <1>0, <1>5, SoloUndisturbed DEF ReceiveWord
<1>6. ASSUME NEW s \in Sessions, Etirw(s) \/ Disconnect(s) PROVE SoloInv'
  BY <1>0, <1>6, SoloUndisturbed DEF Etirw, Disconnect
<1>7. ASSUME NEW s \in Sessions, LockCommit(s) PROVE SoloInv'
  BY <1>0, <1>7, SoloUndisturbed DEF LockCommit
<1>8. ASSUME NEW s \in Sessions, ReadLatest(s) PROVE SoloInv'
  BY <1>0, <1>8 DEF ReadLatest, SoloInv, WritersIdle, CommitSeesLatest, MirrorPending,
                    Contents, Merged
<1>9. ASSUME NEW s \in Sessions, RefuseCommit(s) PROVE SoloInv'
  BY <1>0, <1>9, SoloUndisturbed DEF RefuseCommit
<1>10. ASSUME NEW s \in Sessions, WriteFile(s) PROVE SoloInv'
  <2>1. file[s] \in Files /\ commitLock[file[s]] = s
    BY <1>10, BusySession DEF WriteFile, IndInv, SessionsOnly, CommitTableExact, Critical
  <2>2. \A t \in Sessions \ {s} : pc[t] \in Critical => file[t] # file[s]
    BY <2>1 DEF IndInv, SessionsOnly, CommitTableExact
  <2>3. content' = [content EXCEPT ![file[s]] = Merged(s)] /\ content \in [Files -> FileText]
    BY <1>10 DEF WriteFile, IndInv, TypeOK, DiskOK
  <2>4. /\ UNCHANGED <<file, idx, snap, words, latest, wpc>>
        /\ pc'[s] = "mirroring" /\ \A t \in Sessions \ {s} : pc'[t] = pc[t]
    BY <1>0, <1>10 DEF WriteFile
  <2>5. WritersIdle'
    BY <2>4 DEF SoloInv, WritersIdle
  <2>6. CommitSeesLatest'
    BY <2>2, <2>3, <2>4 DEF SoloInv, CommitSeesLatest, Contents, Critical
  <2>7. \A t \in Sessions : Merged(t)' = Merged(t)
    BY <2>4 DEF Merged
  <2>8. MirrorPending'
    BY <2>1, <2>2, <2>3, <2>4, <2>7 DEF SoloInv, MirrorPending, Critical
  <2> QED
    BY <2>5, <2>6, <2>8 DEF SoloInv
<1>11. ASSUME NEW s \in Sessions, MirrorFile(s) PROVE SoloInv'
  BY <1>0, <1>11, SoloUndisturbed DEF MirrorFile
<1>12. ASSUME NEW s \in Sessions, Reports(s) PROVE SoloInv'
  BY <1>0, <1>12, SoloUndisturbed DEF Reports, ReportCounts, AwaitAck, EndReport
<1>13. ASSUME NEW s \in Sessions, ReleaseLock(s) PROVE SoloInv'
  BY <1>0, <1>13, SoloUndisturbed DEF ReleaseLock, EndSession
<1>14. CASE Restart
  BY <1>14 DEF Restart, SoloInv, WritersIdle, CommitSeesLatest, MirrorPending
<1>15. CASE UNCHANGED vars
  BY <1>15, SoloUndisturbed DEF vars
<1>16. CASE Next
  <2>1. \/ \E s \in Sessions : ClientStep(s) \/ SessionStep(s)
        \/ Restart
    BY <1>16, NoWriters DEF SoloInv
  <2> QED
    BY <2>1, <1>1, <1>2, <1>3, <1>4, <1>5, <1>6, <1>7, <1>8, <1>9, <1>10, <1>11, <1>12,
       <1>13, <1>14 DEF ClientStep, SessionStep, Reports
<1> QED
  BY <1>15, <1>16

\* It holds in every reachable state.
LEMMA SoloInvariant ==
  ASSUME SessionsOnly
  PROVE  Spec => [](IndInv /\ SoloInv)
<1>1. Init => IndInv /\ SoloInv
  BY InitInvariant DEF Init, SoloInv, WritersIdle, CommitSeesLatest, MirrorPending
<1>2. IndInv /\ SoloInv /\ [Next]_vars => (IndInv /\ SoloInv)'
  BY NextInvariant, SoloStep
<1> QED
  BY <1>1, <1>2, PTL DEF Spec

\* The text a commit merges into is the text it replaces.
THEOREM CommitMergesLatest ==
  ASSUME SessionsOnly
  PROVE  Spec => []CommitSeesLatest
<1>1. IndInv /\ SoloInv => CommitSeesLatest
  BY DEF SoloInv
<1> QED
  BY <1>1, SoloInvariant, PTL
----------------------------------------------------------------------------
(* Backups *)

\* No restart can cut a commit in two.
NeverRestarts == MaxCrashes = 0

\* BackupMirrors without the other writers.
Mirrored ==
  \A f \in Files :
    \/ \E s \in Sessions : pc[s] = "mirroring" /\ file[s] = f
    \/ content[f] \in {backup[f], Absent}

\* A step that changes no file and moves no session into or out of its second
\* write leaves it so.
LEMMA MirroredUndisturbed ==
  ASSUME Mirrored, UNCHANGED <<content, backup>>,
         \A t \in Sessions : pc[t] = "mirroring" => pc'[t] = pc[t] /\ file'[t] = file[t]
  PROVE  Mirrored'
BY DEF Mirrored

\* Every step keeps backups and files together.
LEMMA MirroredStep ==
  ASSUME SessionsOnly, NeverRestarts, IndInv, SoloInv, Mirrored, [Next]_vars
  PROVE  Mirrored'
<1> USE DEF Goto, disk, sessions
<1>0. /\ pc \in [Sessions -> {"idle", "opened"} \cup Holding]
      /\ DOMAIN file = Sessions
  BY DEF IndInv, TypeOK, SessionsOK
<1>1. ASSUME NEW s \in Sessions, NEW f \in Files, NEW k \in Indices, Open(s, f, k)
      PROVE  Mirrored'
  BY <1>0, <1>1, MirroredUndisturbed DEF Open
<1>2. ASSUME NEW s \in Sessions, AcquireLock(s) PROVE Mirrored'
  BY <1>0, <1>2, MirroredUndisturbed DEF AcquireLock
<1>3. ASSUME NEW s \in Sessions, LockRefused(s) PROVE Mirrored'
  BY <1>0, <1>3, MirroredUndisturbed DEF LockRefused, EndSession
<1>4. ASSUME NEW s \in Sessions, SaveUndo(s) PROVE Mirrored'
  BY <1>0, <1>4, MirroredUndisturbed DEF SaveUndo
<1>5. ASSUME NEW s \in Sessions, NEW p \in 1..MaxWords, NEW t \in Inserts,
             ReceiveWord(s, p, t)
      PROVE  Mirrored'
  BY <1>0, <1>5, MirroredUndisturbed DEF ReceiveWord
<1>6. ASSUME NEW s \in Sessions, Etirw(s) \/ Disconnect(s) PROVE Mirrored'
  BY <1>0, <1>6, MirroredUndisturbed DEF Etirw, Disconnect
<1>7. ASSUME NEW s \in Sessions, LockCommit(s) PROVE Mirrored'
  BY <1>0, <1>7, MirroredUndisturbed DEF LockCommit
<1>8. ASSUME NEW s \in Sessions, ReadLatest(s) \/ RefuseCommit(s) PROVE Mirrored'
  BY <1>0, <1>8, MirroredUndisturbed DEF ReadLatest, RefuseCommit
<1>9. ASSUME NEW s \in Sessions, WriteFile(s) PROVE Mirrored'
  <2>1. file[s] \in Files /\ DOMAIN content = Files
    BY <1>9, BusySession DEF WriteFile, IndInv, TypeOK, DiskOK
  <2>2. pc'[s] = "mirroring" /\ file'[s] = file[s]
    BY <1>0, <1>9 DEF WriteFile
  <2>3. \A f \in Files \ {file[s]} : content'[f] = content[f] /\ backup'[f] = backup[f]
    BY <1>9, <2>1 DEF WriteFile
  <2>4. \A t \in Sessions :
          pc[t] = "mirroring" => pc'[t] = "mirroring" /\ file'[t] = file[t]
    BY <1>0, <1>9 DEF WriteFile
  <2> QED
    BY <2>2, <2>3, <2>4 DEF Mirrored
<1>10. ASSUME NEW s \in Sessions, MirrorFile(s) PROVE Mirrored'
  <2>1. file[s] \in Files /\ DOMAIN backup = Files
    BY <1>10, BusySession DEF MirrorFile, IndInv, TypeOK, DiskOK
  <2>2. content'[file[s]] = Merged(s) /\ backup'[file[s]] = Merged(s)
    BY <1>10, <2>1 DEF MirrorFile, SoloInv, MirrorPending
  <2>3. \A f \in Files \ {file[s]} : content'[f] = content[f] /\ backup'[f] = backup[f]
    BY <1>10, <2>1 DEF MirrorFile
  <2>4. \A t \in Sessions \ {s} : pc'[t] = pc[t] /\ file'[t] = file[t]
    BY <1>0, <1>10 DEF MirrorFile
  <2> QED
    BY <2>2, <2>3, <2>4 DEF Mirrored
<1>11. ASSUME NEW s \in Sessions, Reports(s) PROVE Mirrored'
  BY <1>0, <1>11, MirroredUndisturbed DEF Reports, ReportCounts, AwaitAck, EndReport
<1>12. ASSUME NEW s \in Sessions, ReleaseLock(s) PROVE Mirrored'
  BY <1>0, <1>12, MirroredUndisturbed DEF ReleaseLock, EndSession
<1>13. ~Restart
  BY BoundFacts DEF NeverRestarts, Restart, IndInv, TypeOK, RecordsOK
<1>14. CASE UNCHANGED vars
  BY <1>14, MirroredUndisturbed DEF vars
<1>15. CASE Next
  <2>1. \E s \in Sessions : ClientStep(s) \/ SessionStep(s)
    BY <1>13, <1>15, NoWriters DEF SoloInv
  <2> QED
    BY <2>1, <1>1, <1>2, <1>3, <1>4, <1>5, <1>6, <1>7, <1>8, <1>9, <1>10, <1>11, <1>12
    DEF ClientStep, SessionStep, Reports
<1> QED
  BY <1>14, <1>15

\* While sessions are the only writers and the server does not restart, a
\* backup differs from its file only between the two writes of a commit.
THEOREM BackupsFollow ==
  ASSUME SessionsOnly, NeverRestarts
  PROVE  Spec => []BackupMirrors
<1>1. Init => Mirrored
  BY DEF Init, Mirrored
<1>2. IndInv /\ SoloInv /\ Mirrored /\ [Next]_vars => Mirrored'
  BY MirroredStep
<1>3. Mirrored => BackupMirrors
  BY DEF Mirrored, BackupMirrors
<1> QED
  BY <1>1, <1>2, <1>3, SoloInvariant, PTL DEF Spec
----------------------------------------------------------------------------
(* Words are kept *)

\* An element of a set of positions is found by how many come up to it.
LEMMA NthLeastOfRank ==
  ASSUME NEW n \in Nat, NEW S \in SUBSET (1..n), NEW i \in S
  PROVE  /\ Cardinality({j \in S : j <= i}) \in 1..Cardinality(S)
         /\ NthLeast(S, Cardinality({j \in S : j <= i})) = i
<1> DEFINE Upto(x) == {j \in S : j <= x}
           k == Cardinality(Upto(i))
<1>0. \A j \in S : j \in Nat
  OBVIOUS
<1>1. IsFiniteSet(S) /\ Cardinality(S) \in Nat /\ \A j \in S : j \in Nat
  BY <1>0, PositionsFinite
<1>2. \A x : Upto(x) \in SUBSET S
  OBVIOUS
<1>3. \A x : IsFiniteSet(Upto(x)) /\ Cardinality(Upto(x)) \in Nat
  BY <1>1, <1>2, FS_Subset, FS_CardinalityType
<1>4. Upto(i) # {}
  BY <1>1
<1>5. k # 0 /\ k <= Cardinality(S)
  <2> HIDE DEF Upto
  <2> QED
    BY <1>1, <1>2, <1>3, <1>4, FS_EmptySet, FS_Subset
<1>6. k \in 1..Cardinality(S)
  BY <1>1, <1>3, <1>5
<1>7. \A x, y \in S : x < y => Cardinality(Upto(x)) # Cardinality(Upto(y))
  <2> SUFFICES ASSUME NEW x \in S, NEW y \in S, x < y
               PROVE  Cardinality(Upto(x)) # Cardinality(Upto(y))
    OBVIOUS
  <2>1. Upto(x) \in SUBSET Upto(y)
    <3> SUFFICES ASSUME NEW j \in S, j <= x PROVE j <= y
      OBVIOUS
    <3> QED
      BY <1>0
  <2>2. y \in Upto(y) /\ y \notin Upto(x)
    BY <1>1
  <2> HIDE DEF Upto
  <2> QED
    BY <1>3, <2>1, <2>2, FS_Subset
<1> DEFINE m == NthLeast(S, k)
<1>8. m \in S /\ Cardinality(Upto(m)) = k
  <2> HIDE DEF k
  <2> QED
    BY <1>6, NthLeastIsElement
<1> HIDE DEF Upto, m
<1>9. ~(m < i) /\ ~(i < m)
  BY <1>7, <1>8
<1>10. m = i
  BY <1>1, <1>8, <1>9
<1> QED
  BY <1>6, <1>10 DEF m, Upto

\* A sentence begins before it ends.
LEMMA SentenceOrder ==
  ASSUME NEW c \in Text, NEW k \in Nat, k < SentenceCount(c)
  PROVE  SentenceFirst(c, k) <= SentenceLast(c, k)
<1> DEFINE S == SentenceEnds(c)
<1>1. Len(c) \in Nat /\ S \in SUBSET (1..Len(c)) /\ Cardinality(S) \in Nat /\ k < Cardinality(S)
  BY SentenceCountType DEF SentenceCount
<1> HIDE DEF S
<1>2. CASE k = 0
  BY <1>2, SentenceBounds DEF SentenceFirst
<1>3. CASE k > 0
  <2>1. PICK x, y : x = NthLeast(S, k) /\ y = NthLeast(S, k + 1)
    OBVIOUS
  <2>2. k \in 1..Cardinality(S) /\ k + 1 \in 1..Cardinality(S)
    BY <1>1, <1>3
  <2>3. x \in S /\ Cardinality({j \in S : j <= x}) = k
    BY <1>1, <2>1, <2>2, NthLeastIsElement
  <2>4. y \in S /\ Cardinality({j \in S : j <= y}) = k + 1
    BY <1>1, <2>1, <2>2, NthLeastIsElement
  <2>5. x \in Nat /\ y \in Nat /\ \A j \in S : j \in Nat
    BY <1>1, <2>3, <2>4
  <2>6. CASE y <= x
    <3>1. {j \in S : j <= y} \in SUBSET {j \in S : j <= x}
      BY <2>5, <2>6
    <3>2. IsFiniteSet(S)
      BY <1>1, PositionsFinite
    <3>3. IsFiniteSet({j \in S : j <= x})
      BY <3>2, FS_Subset
    <3>4. k + 1 <= k
      BY <2>3, <2>4, <3>1, <3>3, FS_Subset
    <3> QED
      BY <3>4
  <2>7. CASE x < y
    BY <1>1, <1>3, <2>1, <2>5, <2>7 DEF SentenceFirst, SentenceLast, S
  <2> QED
    BY <2>5, <2>6, <2>7
<1> QED
  BY <1>2, <1>3

\* Where a fragment occurs.
LEMMA SpotsAre ==
  ASSUME NEW c, NEW a, NEW x
  PROVE  x \in Spots(c, a) <=>
           \E i \in DOMAIN c : \E j \in DOMAIN c[i].atoms : x = <<i, j>> /\ c[i].atoms[j] = a
BY DEF Spots

\* A text has finitely many fragments.
LEMMA SpotsFinite ==
  ASSUME NEW c \in Text, NEW a
  PROVE  IsFiniteSet(Spots(c, a)) /\ Occurrences(c, a) \in Nat
<1> DEFINE Row(i) == {<<i, j>> : j \in {l \in DOMAIN c[i].atoms : c[i].atoms[l] = a}}
           rows == {Row(i) : i \in DOMAIN c}
<1>1. Len(c) \in Nat /\ DOMAIN c = 1..Len(c)
  BY DEF Text
<1>2. ASSUME NEW i \in DOMAIN c PROVE IsFiniteSet(Row(i))
  <2> DEFINE here == {l \in DOMAIN c[i].atoms : c[i].atoms[l] = a}
             f == [j \in here |-> <<i, j>>]
  <2>1. c[i] \in Token
    BY <1>1, <1>2 DEF Text
  <2>2. Len(c[i].atoms) \in Nat /\ here \in SUBSET (1..Len(c[i].atoms))
    BY <2>1 DEF Token
  <2>3. IsFiniteSet(here)
    BY <2>2, PositionsFinite
  <2>4. f \in Surjection(here, Row(i))
    <3>1. \A x \in Row(i) : \E j \in here : f[j] = x
      OBVIOUS
    <3>2. f \in [here -> Row(i)]
      OBVIOUS
    <3> QED
      BY <3>1, <3>2 DEF Surjection
  <2> HIDE DEF here, f, Row
  <2> QED
    BY <2>3, <2>4, FS_Surjection
<1>3. IsFiniteSet(rows)
  <2> DEFINE g == [i \in 1..Len(c) |-> Row(i)]
  <2> HIDE DEF Row
  <2>1. g \in Surjection(1..Len(c), rows)
    BY <1>1 DEF Surjection
  <2>2. IsFiniteSet(1..Len(c))
    BY <1>1, FS_Interval
  <2> HIDE DEF g, rows
  <2> QED
    BY <2>1, <2>2, FS_Surjection
<1>4. \A r \in rows : IsFiniteSet(r)
  BY <1>2
<1>5. Spots(c, a) = UNION rows
  BY DEF Spots
<1> HIDE DEF rows
<1>6. IsFiniteSet(Spots(c, a))
  BY <1>3, <1>4, <1>5, FS_UNION
<1> QED
  BY <1>6, FS_CardinalityType DEF Occurrences

\* at says where the tokens of c are in d: each that has fragments in a token of its
\* own, which has these fragments at its beginning.
Carries(c, d, at) ==
  /\ \A i \in 1..Len(c) : \A j \in DOMAIN c[i].atoms :
       /\ at[i] \in 1..Len(d) /\ j \in DOMAIN d[at[i]].atoms
       /\ d[at[i]].atoms[j] = c[i].atoms[j]
  /\ \A i, k \in 1..Len(c) :
       (DOMAIN c[i].atoms # {} /\ DOMAIN c[k].atoms # {} /\ at[i] = at[k]) => i = k

LEMMA CarriedOver ==
  ASSUME NEW c \in Text, NEW d \in Text, NEW a, NEW at, Carries(c, d, at)
  PROVE  Occurrences(c, a) <= Occurrences(d, a)
<1> DEFINE f == [x \in Spots(c, a) |-> <<at[x[1]], x[2]>>]
<1>1. DOMAIN c = 1..Len(c) /\ DOMAIN d = 1..Len(d)
  BY DEF Text
<1>2. ASSUME NEW x \in Spots(c, a)
      PROVE  /\ x[1] \in 1..Len(c) /\ x[2] \in DOMAIN c[x[1]].atoms
             /\ x = <<x[1], x[2]>> /\ c[x[1]].atoms[x[2]] = a
  <2>1. PICK i \in DOMAIN c : \E j \in DOMAIN c[i].atoms : x = <<i, j>> /\ c[i].atoms[j] = a
    BY SpotsAre
  <2>2. PICK j \in DOMAIN c[i].atoms : x = <<i, j>> /\ c[i].atoms[j] = a
    BY <2>1
  <2> QED
    BY <1>1, <2>2
<1>3. ASSUME NEW x \in Spots(c, a)
      PROVE  f[x] \in Spots(d, a)
  <2>1. /\ at[x[1]] \in 1..Len(d) /\ x[2] \in DOMAIN d[at[x[1]]].atoms
        /\ d[at[x[1]]].atoms[x[2]] = a
    BY <1>2 DEF Carries
  <2>2. f[x] = <<at[x[1]], x[2]>>
    OBVIOUS
  <2> QED
    BY <1>1, <2>1, <2>2, SpotsAre
<1>4. ASSUME NEW x \in Spots(c, a), NEW y \in Spots(c, a), f[x] = f[y]
      PROVE  x = y
  <2>1. at[x[1]] = at[y[1]] /\ x[2] = y[2]
    BY <1>4
  <2>2. x[1] = y[1]
    BY <1>2, <2>1 DEF Carries
  <2> QED
    BY <1>2, <2>1, <2>2
<1>5. f \in [Spots(c, a) -> Spots(d, a)]
  BY <1>3
<1>6. f \in Injection(Spots(c, a), Spots(d, a))
  <2> HIDE DEF f
  <2> QED
    BY <1>4, <1>5, Fun_IsInj
<1> HIDE DEF f
<1>7. Cardinality(Spots(c, a)) <= Cardinality(Spots(d, a))
  BY <1>6, SpotsFinite, FS_Injection
<1> QED
  BY <1>7 DEF Occurrences

\* What occurs in two texts one after the other.
LEMMA JoinedOccurrences ==
  ASSUME NEW c \in Text, NEW d \in Text, NEW a
  PROVE  Occurrences(c \o d, a) = Occurrences(c, a) + Occurrences(d, a)
<1> DEFINE n == Len(c)
           shifted == {x \in Spots(c \o d, a) : x[1] > n}
           f == [x \in Spots(d, a) |-> <<x[1] + n, x[2]>>]
<1>1. /\ n \in Nat /\ Len(d) \in Nat /\ DOMAIN c = 1..n /\ DOMAIN d = 1..Len(d)
      /\ c \o d \in Text /\ Len(c \o d) = n + Len(d) /\ DOMAIN (c \o d) = 1..(n + Len(d))
      /\ \A i \in 1..n : (c \o d)[i] = c[i]
      /\ \A i \in 1..Len(d) : (c \o d)[i + n] = d[i]
  BY DEF Text
<1>2. ASSUME NEW e \in Text, NEW x \in Spots(e, a)
      PROVE  /\ x[1] \in 1..Len(e) /\ x[2] \in DOMAIN e[x[1]].atoms
             /\ x = <<x[1], x[2]>> /\ e[x[1]].atoms[x[2]] = a
  <2>1. PICK i \in DOMAIN e : \E j \in DOMAIN e[i].atoms : x = <<i, j>> /\ e[i].atoms[j] = a
    BY SpotsAre
  <2>2. PICK j \in DOMAIN e[i].atoms : x = <<i, j>> /\ e[i].atoms[j] = a
    BY <2>1
  <2>3. DOMAIN e = 1..Len(e)
    BY DEF Text
  <2> QED
    BY <2>2, <2>3
<1>3. ASSUME NEW x \in Spots(d, a)
      PROVE  f[x] \in shifted
  <2>1. x[1] \in 1..Len(d) /\ x[2] \in DOMAIN d[x[1]].atoms /\ d[x[1]].atoms[x[2]] = a
    BY <1>2
  <2>2. f[x] = <<x[1] + n, x[2]>> /\ f[x][1] = x[1] + n
    OBVIOUS
  <2>3. x[1] + n \in DOMAIN (c \o d) /\ (c \o d)[x[1] + n] = d[x[1]] /\ x[1] + n > n
    BY <1>1, <2>1
  <2>4. f[x] \in Spots(c \o d, a)
    BY <2>1, <2>2, <2>3, SpotsAre
  <2> QED
    BY <2>2, <2>3, <2>4
<1>4. ASSUME NEW x \in Spots(d, a), NEW y \in Spots(d, a), f[x] = f[y]
      PROVE  x = y
  <2>1. x[1] \in 1..Len(d) /\ y[1] \in 1..Len(d) /\ x = <<x[1], x[2]>> /\ y = <<y[1], y[2]>>
    BY <1>2
  <2>2. x[1] + n = y[1] + n /\ x[2] = y[2]
    BY <1>4
  <2>3. x[1] = y[1]
    BY <1>1, <2>1, <2>2
  <2> QED
    BY <2>1, <2>2, <2>3
<1>5. ASSUME NEW y \in shifted
      PROVE  \E x \in Spots(d, a) : f[x] = y
  <2>1. /\ y[1] \in 1..(n + Len(d)) /\ y[1] > n /\ y[2] \in DOMAIN (c \o d)[y[1]].atoms
        /\ y = <<y[1], y[2]>> /\ (c \o d)[y[1]].atoms[y[2]] = a
    BY <1>1, <1>2
  <2>2. y[1] - n \in 1..Len(d) /\ (y[1] - n) + n = y[1]
    BY <1>1, <2>1
  <2>3. (c \o d)[y[1]] = d[y[1] - n]
    BY <1>1, <2>2
  <2>4. <<y[1] - n, y[2]>> \in Spots(d, a)
    BY <1>1, <2>1, <2>2, <2>3, SpotsAre
  <2>5. f[<<y[1] - n, y[2]>>] = y
    BY <2>1, <2>2, <2>4
  <2> QED
    BY <2>4, <2>5
<1>6. Cardinality(shifted) = Occurrences(d, a) /\ IsFiniteSet(shifted)
  <2>1. f \in [Spots(d, a) -> shifted]
    BY <1>3
  <2> HIDE DEF f, shifted
  <2>2. f \in Bijection(Spots(d, a), shifted)
    BY <1>4, <1>5, <2>1, Fun_IsBij
  <2>3. ExistsBijection(Spots(d, a), shifted)
    BY <2>2 DEF ExistsBijection
  <2> QED
    BY <2>3, SpotsFinite, FS_Bijection DEF Occurrences
<1>7. Spots(c \o d, a) = Spots(c, a) \cup shifted
  <2>1. ASSUME NEW x \in Spots(c, a) PROVE x \in Spots(c \o d, a)
    <3>1. x[1] \in 1..n /\ x[2] \in DOMAIN c[x[1]].atoms /\ x = <<x[1], x[2]>> /\ c[x[1]].atoms[x[2]] = a
      BY <1>2
    <3>2. x[1] \in DOMAIN (c \o d) /\ (c \o d)[x[1]] = c[x[1]]
      BY <1>1, <3>1
    <3> QED
      BY <3>1, <3>2, SpotsAre
  <2>2. ASSUME NEW x \in Spots(c \o d, a), ~(x[1] > n) PROVE x \in Spots(c, a)
    <3>1. /\ x[1] \in 1..(n + Len(d)) /\ x[2] \in DOMAIN (c \o d)[x[1]].atoms
          /\ x = <<x[1], x[2]>> /\ (c \o d)[x[1]].atoms[x[2]] = a
      BY <1>1, <1>2
    <3>2. x[1] \in DOMAIN c /\ (c \o d)[x[1]] = c[x[1]]
      BY <1>1, <2>2, <3>1
    <3> QED
      BY <3>1, <3>2, SpotsAre
  <2> QED
    BY <2>1, <2>2
<1>8. Spots(c, a) \cap shifted = {}
  <2>1. \A x \in Spots(c, a) : ~(x[1] > n)
    BY <1>1, <1>2
  <2> QED
    BY <2>1
<1> HIDE DEF shifted, f
<1>9. /\ IsFiniteSet(Spots(c, a)) /\ Occurrences(c, a) \in Nat /\ Occurrences(d, a) \in Nat
  BY SpotsFinite
<1>10. Cardinality(Spots(c \o d, a)) = Cardinality(Spots(c, a)) + Cardinality(shifted) - 0
  BY <1>6, <1>7, <1>8, <1>9, FS_Union, FS_EmptySet
<1> QED
  BY <1>6, <1>9, <1>10 DEF Occurrences

\* Two sequences, one after the other.
LEMMA Glued ==
  ASSUME NEW S, NEW x \in Seq(S), NEW y \in Seq(S)
  PROVE  /\ x \o y \in Seq(S) /\ Len(x \o y) = Len(x) + Len(y)
         /\ Len(x) \in Nat /\ Len(y) \in Nat
         /\ DOMAIN x = 1..Len(x) /\ DOMAIN (x \o y) = 1..(Len(x) + Len(y))
         /\ \A i \in 1..Len(x) : (x \o y)[i] = x[i]
         /\ \A i \in 1..Len(y) : (x \o y)[Len(x) + i] = y[i]
OBVIOUS

\* A fragment belongs to a token that is more than a delimiter.
LEMMA FragmentsInWords ==
  ASSUME NEW ws \in Text, NEW i \in 1..Len(ws), NEW j \in DOMAIN ws[i].atoms
  PROVE  ~Standalone(ws[i])
BY DEF Standalone

\* Insertion keeps every word that is there.
LEMMA InsertionKeeps ==
  ASSUME NEW ws \in Text, NEW p \in Nat, NEW t \in Token, PositionValid(ws, p), NEW a
  PROVE  Occurrences(ws, a) <= Occurrences(InsertWord(ws, p, t), a)
<1>1. Len(ws) \in Nat /\ p \in 1..(Len(ws) + 1)
  BY DEF PositionValid, Text
<1>2. InsertWord(ws, p, t) \in Text
  BY InsertWordType
<1>3. CASE MergesInMiddle(ws, p) \/ MergesAtEnd(ws, p, t)
  <2> DEFINE at == [i \in 1..Len(ws) |-> i]
             merged == [atoms |-> ws[p - 1].atoms \o t.atoms, delim |-> TRUE]
  <2>1. p - 1 \in 1..Len(ws)
    BY <1>1, <1>3 DEF MergesInMiddle, MergesAtEnd
  <2>2. ws[p - 1].atoms \in Seq(Atom) /\ t.atoms \in Seq(Atom)
    <3>1. ws[p - 1] \in Token
      BY <2>1 DEF Text
    <3> QED
      BY <3>1 DEF Token
  <2>3. \A j \in DOMAIN ws[p - 1].atoms :
          j \in DOMAIN merged.atoms /\ merged.atoms[j] = ws[p - 1].atoms[j]
    <3>1. merged.atoms = ws[p - 1].atoms \o t.atoms
      OBVIOUS
    <3>2. PICK x, y : x = ws[p - 1].atoms /\ y = t.atoms
      OBVIOUS
    <3>3. \A j \in DOMAIN x : j \in DOMAIN (x \o y) /\ (x \o y)[j] = x[j]
      <4>1. x \in Seq(Atom) /\ y \in Seq(Atom)
        BY <2>2, <3>2
      <4>2. /\ Len(x) \in Nat /\ Len(y) \in Nat
            /\ DOMAIN x = 1..Len(x) /\ DOMAIN (x \o y) = 1..(Len(x) + Len(y))
            /\ \A i \in 1..Len(x) : (x \o y)[i] = x[i]
        BY <4>1, Glued
      <4> QED
        BY <4>2
    <3> QED
      BY <3>1, <3>2, <3>3
  <2>4. InsertWord(ws, p, t) = [ws EXCEPT ![p - 1] = merged]
    BY <1>3 DEF InsertWord, MergeInto
  <2>5. Len([ws EXCEPT ![p - 1] = merged]) = Len(ws)
    BY <2>1 DEF Text
  <2> HIDE DEF merged
  <2>6. /\ [ws EXCEPT ![p - 1] = merged][p - 1] = merged
        /\ \A i \in 1..Len(ws) : i # p - 1 => [ws EXCEPT ![p - 1] = merged][i] = ws[i]
    BY <2>1 DEF Text
  <2>7. Carries(ws, [ws EXCEPT ![p - 1] = merged], at)
    BY <2>3, <2>5, <2>6 DEF Carries
  <2> HIDE DEF at
  <2> QED
    BY <1>2, <2>4, <2>7, CarriedOver
<1>4. CASE ~(MergesInMiddle(ws, p) \/ MergesAtEnd(ws, p, t))
  <2> DEFINE front == SubSeq(ws, 1, p - 1)
             back == SubSeq(ws, p, Len(ws))
             at == [i \in 1..Len(ws) |-> IF i < p THEN i ELSE i + 1]
  <2>1. /\ front \in Text /\ Len(front) = p - 1
        /\ \A i \in 1..(p - 1) : front[i] = ws[i]
    BY <1>1 DEF Text
  <2>2. /\ back \in Text /\ Len(back) = Len(ws) - p + 1
        /\ \A i \in 1..Len(ws) : i >= p => back[i - p + 1] = ws[i]
    BY <1>1 DEF Text
  <2>3. InsertWord(ws, p, t) = (front \o <<t>>) \o back
    BY <1>4 DEF InsertWord, InsertAtPosition
  <2> HIDE DEF front, back
  <2>4. /\ front \o <<t>> \in Text /\ Len(front \o <<t>>) = p
        /\ \A i \in 1..(p - 1) : (front \o <<t>>)[i] = ws[i]
    BY <1>1, <2>1 DEF Text
  <2> DEFINE head == front \o <<t>>
  <2> HIDE DEF head
  <2>5. /\ head \in Text /\ Len(head) = p
        /\ \A i \in 1..(p - 1) : head[i] = ws[i]
    BY <2>4 DEF head
  <2>6. /\ Len(head \o back) = Len(ws) + 1
        /\ \A i \in 1..(p - 1) : (head \o back)[i] = ws[i]
    <3>1. head \in Seq(Token) /\ back \in Seq(Token)
      BY <2>2, <2>5 DEF Text
    <3>2. /\ Len(head \o back) = Len(head) + Len(back)
          /\ \A i \in 1..Len(head) : (head \o back)[i] = head[i]
      BY <3>1, Glued
    <3>3. Len(head \o back) = Len(ws) + 1
      BY <1>1, <2>2, <2>5, <3>2
    <3>4. \A i \in 1..(p - 1) : (head \o back)[i] = ws[i]
      BY <1>1, <2>5, <3>2
    <3> QED
      BY <3>3, <3>4
  <2>7. \A i \in 1..Len(ws) : i >= p => (head \o back)[i + 1] = ws[i]
    <3> SUFFICES ASSUME NEW i \in 1..Len(ws), i >= p PROVE (head \o back)[i + 1] = ws[i]
      OBVIOUS
    <3>1. (head \o back)[i + 1] = back[i + 1 - p]
      BY <1>1, <2>2, <2>5 DEF Text
    <3>2. i + 1 - p = i - p + 1
      BY <1>1
    <3> QED
      BY <2>2, <3>1, <3>2
  <2>8. \A i \in 1..Len(ws) : at[i] \in 1..(Len(ws) + 1) /\ (head \o back)[at[i]] = ws[i]
    BY <1>1, <2>6, <2>7
  <2>9. \A i, k \in 1..Len(ws) : at[i] = at[k] => i = k
    BY <1>1
  <2> HIDE DEF at
  <2>10. Carries(ws, head \o back, at)
    BY <2>6, <2>8, <2>9 DEF Carries
  <2> QED
    BY <1>2, <2>3, <2>10, CarriedOver DEF head
<1> QED
  BY <1>3, <1>4

\* Rebuilding a sentence drops delimiters, no words.
LEMMA RebuildKeeps ==
  ASSUME NEW ws \in Text, NEW a
  PROVE  Occurrences(ws, a) <= Occurrences(Rebuild(ws), a)
<1> DEFINE S == Kept(ws)
           at == [i \in 1..Len(ws) |-> Cardinality({j \in S : j <= i})]
<1>1. Len(ws) \in Nat /\ S \in SUBSET (1..Len(ws)) /\ Cardinality(S) \in Nat
  <2>1. Len(ws) \in Nat /\ S \in SUBSET (1..Len(ws))
    BY DEF Kept, Text
  <2> QED
    BY <2>1, PositionsFinite
<1>2. Rebuild(ws) \in Text
  BY RebuildType
<1>3. Len(Rebuild(ws)) = Cardinality(S)
  BY <1>1 DEF Rebuild
<1>4. ASSUME NEW i \in 1..Len(ws), ~Standalone(ws[i])
      PROVE  i \in S
  BY <1>4 DEF Kept, Attached
<1>5. ASSUME NEW i \in S
      PROVE  at[i] \in 1..Cardinality(S) /\ NthLeast(S, at[i]) = i
  <2>1. at[i] = Cardinality({j \in S : j <= i})
    BY <1>1
  <2> QED
    BY <1>1, <2>1, NthLeastOfRank
<1>6. \A i \in S : Rebuild(ws)[at[i]] = Closed(ws, i)
  BY <1>5 DEF Rebuild
<1>7. \A i \in S : Closed(ws, i).atoms = ws[i].atoms
  BY DEF Closed
<1> HIDE DEF S, at
<1>8. Carries(ws, Rebuild(ws), at)
  <2>1. ASSUME NEW i \in 1..Len(ws), NEW j \in DOMAIN ws[i].atoms
        PROVE  /\ at[i] \in 1..Len(Rebuild(ws)) /\ j \in DOMAIN Rebuild(ws)[at[i]].atoms
               /\ Rebuild(ws)[at[i]].atoms[j] = ws[i].atoms[j]
    <3>1. i \in S
      BY <1>4, FragmentsInWords
    <3> QED
      BY <1>3, <1>5, <1>6, <1>7, <3>1
  <2>2. ASSUME NEW i \in 1..Len(ws), NEW k \in 1..Len(ws), DOMAIN ws[i].atoms # {},
               DOMAIN ws[k].atoms # {}, at[i] = at[k]
        PROVE  i = k
    <3>1. i \in S /\ k \in S
      BY <1>4, <2>2, FragmentsInWords
    <3> QED
      BY <1>5, <2>2, <3>1
  <2> QED
    BY <2>1, <2>2 DEF Carries
<1> QED
  BY <1>2, <1>8, CarriedOver

\* A text is what comes before a part of it, the part and what comes after.
LEMMA ThreeParts ==
  ASSUME NEW c \in Text, NEW x \in 1..Len(c), NEW y \in 1..Len(c), x <= y
  PROVE  c = (SubSeq(c, 1, x - 1) \o SubSeq(c, x, y)) \o SubSeq(c, y + 1, Len(c))
<1> DEFINE f == SubSeq(c, 1, x - 1)
           m == SubSeq(c, x, y)
           b == SubSeq(c, y + 1, Len(c))
<1>1. Len(c) \in Nat /\ x \in Nat /\ y \in Nat /\ 1 <= x /\ y <= Len(c) /\ c \in Seq(Token)
  BY DEF Text
<1>2. f \in Seq(Token) /\ Len(f) = x - 1 /\ \A i \in 1..(x - 1) : f[i] = c[i]
  BY <1>1
<1>3. m \in Seq(Token) /\ Len(m) = y - x + 1 /\ \A i \in 1..(y - x + 1) : m[i] = c[x + i - 1]
  BY <1>1
<1>4. b \in Seq(Token) /\ Len(b) = Len(c) - y /\ \A i \in 1..(Len(c) - y) : b[i] = c[y + i]
  BY <1>1
<1> HIDE DEF f, m, b
<1>5. /\ f \o m \in Seq(Token) /\ Len(f \o m) = y
      /\ \A i \in 1..(x - 1) : (f \o m)[i] = c[i]
      /\ \A i \in x..y : (f \o m)[i] = c[i]
  <2>1. f \o m \in Seq(Token) /\ Len(f \o m) = y
    <3>1. f \o m \in Seq(Token) /\ Len(f \o m) = Len(f) + Len(m)
      BY <1>2, <1>3, Glued
    <3> QED
      BY <1>1, <1>2, <1>3, <3>1
  <2>2. \A i \in 1..(x - 1) : (f \o m)[i] = c[i]
    BY <1>1, <1>2, <1>3
  <2>3. ASSUME NEW i \in x..y PROVE (f \o m)[i] = c[i]
    <3>1. (f \o m)[i] = m[i - (x - 1)]
      BY <1>1, <1>2, <1>3
    <3>2. m[i - (x - 1)] = c[x + (i - (x - 1)) - 1]
      BY <1>1, <1>3
    <3> QED
      BY <1>1, <3>1, <3>2
  <2> QED
    BY <2>1, <2>2, <2>3
<1> DEFINE h == f \o m
<1> HIDE DEF h
<1>6. h \in Seq(Token) /\ Len(h) = y /\ \A i \in 1..y : h[i] = c[i]
  BY <1>1, <1>5 DEF h
<1> DEFINE g == h \o b
<1>7. /\ g \in Seq(Token) /\ Len(g) = Len(h) + Len(b)
      /\ \A i \in 1..Len(h) : g[i] = h[i]
      /\ \A i \in 1..Len(b) : g[Len(h) + i] = b[i]
  <2>1. h \in Seq(Token) /\ b \in Seq(Token)
    BY <1>4, <1>6
  <2>2. h \o b \in Seq(Token) /\ Len(h \o b) = Len(h) + Len(b)
    BY <2>1, Glued
  <2>3. \A i \in 1..Len(h) : (h \o b)[i] = h[i]
    BY <2>1, Glued
  <2>4. \A i \in 1..Len(b) : (h \o b)[Len(h) + i] = b[i]
    BY <2>1, Glued
  <2> HIDE DEF h
  <2> QED
    BY <2>2, <2>3, <2>4, Zenon
<1> HIDE DEF g
<1>8. \A i \in 1..Len(c) : g[i] = c[i]
  <2> SUFFICES ASSUME NEW i \in 1..Len(c) PROVE g[i] = c[i]
    OBVIOUS
  <2>1. CASE i <= y
    BY <1>1, <1>6, <1>7, <2>1
  <2>2. CASE i > y
    <3>1. PICK j \in 1..Len(b) : i = Len(h) + j
      BY <1>1, <1>4, <1>6, <2>2
    <3>2. g[i] = b[j]
      BY <1>7, <3>1
    <3>3. b[j] = c[y + j]
      BY <1>1, <1>4
    <3> QED
      BY <1>6, <3>1, <3>2, <3>3
  <2> QED
    BY <1>1, <2>1, <2>2
<1>9. g = c
  <2>1. Len(g) = Len(c)
    BY <1>1, <1>4, <1>6, <1>7
  <2> QED
    BY <1>1, <1>7, <1>8, <2>1
<1> QED
  BY <1>9 DEF g, h, f, m, b

\* A splice keeps what is around the sentence and what the new one keeps of it.
LEMMA SpliceKeeps ==
  ASSUME NEW c \in Text, NEW k \in Nat, NEW new \in Text, NEW a,
         k < SentenceCount(c) => Occurrences(Sentence(c, k), a) <= Occurrences(new, a)
  PROVE  Occurrences(c, a) <= Occurrences(Splice(c, k, new), a)
<1>1. CASE k < SentenceCount(c)
  <2> DEFINE front == SubSeq(c, 1, SentenceFirst(c, k) - 1)
             mid   == Sentence(c, k)
             back  == SubSeq(c, SentenceLast(c, k) + 1, Len(c))
  <2>1. Len(c) \in Nat
    BY SentenceCountType
  <2>2. /\ SentenceFirst(c, k) \in 1..(Len(c) + 1) /\ SentenceLast(c, k) \in 1..Len(c)
        /\ SentenceFirst(c, k) <= SentenceLast(c, k)
    BY <1>1, SentenceBounds, SentenceOrder
  <2>3. front \in Text /\ mid \in Text /\ back \in Text
    BY <1>1, <2>1, <2>2, SentenceType DEF Text
  <2>4. c = (front \o mid) \o back
    <3> DEFINE x == SentenceFirst(c, k)
               y == SentenceLast(c, k)
    <3> HIDE DEF x, y
    <3>1. x \in 1..Len(c) /\ y \in 1..Len(c) /\ x <= y
      BY <2>1, <2>2 DEF x, y
    <3>2. c = (SubSeq(c, 1, x - 1) \o SubSeq(c, x, y)) \o SubSeq(c, y + 1, Len(c))
      BY <2>1, <3>1, ThreeParts
    <3> QED
      BY <3>2 DEF x, y, Sentence
  <2>5. Splice(c, k, new) = (front \o new) \o back
    BY <1>1 DEF Splice
  <2> HIDE DEF front, mid, back
  <2>6. Occurrences(mid, a) <= Occurrences(new, a)
    BY <1>1 DEF mid
  <2>7. front \o mid \in Text /\ front \o new \in Text
    BY <2>3 DEF Text
  <2>8. /\ Occurrences((front \o mid) \o back, a)
             = Occurrences(front, a) + Occurrences(mid, a) + Occurrences(back, a)
        /\ Occurrences((front \o new) \o back, a)
             = Occurrences(front, a) + Occurrences(new, a) + Occurrences(back, a)
    BY <2>3, <2>7, JoinedOccurrences
  <2>9. /\ Occurrences(front, a) \in Nat /\ Occurrences(mid, a) \in Nat
        /\ Occurrences(new, a) \in Nat /\ Occurrences(back, a) \in Nat
    BY <2>3, SpotsFinite
  <2> QED
    BY <2>4, <2>5, <2>6, <2>8, <2>9
<1>2. CASE ~(k < SentenceCount(c))
  BY <1>2, JoinedOccurrences, SpotsFinite DEF Splice
<1> QED
  BY <1>1, <1>2

\* A commit whose sentence is still in the file replaces that sentence.
LEMMA TargetFound ==
  ASSUME NEW c \in Text, NEW k \in Nat, NEW d \in Text, k < SentenceCount(c),
         Matches(d, Sentence(c, k)) # {}, CommitTarget(c, k, d) # -1
  PROVE  /\ CommitTarget(c, k, d) \in Nat /\ CommitTarget(c, k, d) < SentenceCount(d)
         /\ Sentence(d, CommitTarget(c, k, d)) = Sentence(c, k)
<1> DEFINE same == Matches(d, Sentence(c, k))
           n == SentenceCount(d)
<1>1. n \in Nat /\ SentenceCount(c) \in Nat
  BY SentenceCountType
<1>2. same \in SUBSET Nat /\ \A j \in same : j < n /\ Sentence(d, j) = Sentence(c, k)
  BY <1>1 DEF Matches
<1>3. FirstOf(same) \in same
  BY <1>2, FirstOfType
<1>4. CommitTarget(c, k, d) = RemapTarget(c, k, d)
  BY <1>1 DEF CommitTarget, IsAppend
<1> HIDE DEF same, n
<1>5. ~(k > n)
  BY <1>1, <1>4 DEF RemapTarget, n
<1>6. CASE k \in same
  <2>1. RemapTarget(c, k, d) = k
    BY <1>1, <1>5, <1>6 DEF RemapTarget, same, n
  <2> QED
    BY <1>2, <1>4, <1>6, <2>1 DEF n
<1>7. CASE k \notin same
  <2>1. RemapTarget(c, k, d) = FirstOf(same)
    BY <1>1, <1>5, <1>7 DEF RemapTarget, same, n
  <2>2. FirstOf(same) \in Nat /\ FirstOf(same) < n /\ Sentence(d, FirstOf(same)) = Sentence(c, k)
    BY <1>2, <1>3
  <2> QED
    BY <1>4, <2>1, <2>2 DEF n
<1> QED
  BY <1>6, <1>7

\* From the first word to the commit.
Editing == {"editing", "commit", "merging", "writing"}

\* The words of a session are those of its sentence and more, when the array of
\* words takes them all.
SentenceKept(s) ==
  /\ idx[s] < SentenceCount(snap[s])
  /\ Len(Sentence(snap[s], idx[s])) <= MaxWords
  => \A a \in Atom :
       Occurrences(Sentence(snap[s], idx[s]), a) <= Occurrences(words[s], a)

EditsKept ==
  \A s \in Sessions :
    /\ pc[s] # "idle" => idx[s] <= SentenceCount(snap[s])
    /\ pc[s] \in Editing => SentenceKept(s)

\* A step that edits nothing disturbs nothing.
LEMMA EditsUndisturbed ==
  ASSUME EditsKept,
         \A t \in Sessions :
           /\ pc'[t] # "idle" => /\ pc[t] # "idle"
                                 /\ idx'[t] = idx[t] /\ snap'[t] = snap[t]
           /\ pc'[t] \in Editing => pc[t] \in Editing /\ words'[t] = words[t]
  PROVE  EditsKept'
<1> SUFFICES ASSUME NEW t \in Sessions
             PROVE  /\ pc'[t] # "idle" => idx'[t] <= SentenceCount(snap'[t])
                    /\ pc'[t] \in Editing => SentenceKept(t)'
  BY DEF EditsKept
<1>1. pc'[t] # "idle" => idx'[t] <= SentenceCount(snap'[t])
  BY DEF EditsKept
<1>2. ASSUME pc'[t] \in Editing PROVE SentenceKept(t)'
  <2>1. idx'[t] = idx[t] /\ snap'[t] = snap[t] /\ words'[t] = words[t]
    BY <1>2 DEF Editing
  <2>2. SentenceKept(t)
    BY <1>2 DEF EditsKept
  <2> QED
    BY <2>1, <2>2 DEF SentenceKept
<1> QED
  BY <1>1, <1>2

\* Every step keeps the words of the sentences in the sessions.
LEMMA EditsStep ==
  ASSUME IndInv, EditsKept, [Next]_vars
  PROVE  EditsKept'
<1> USE DEF Goto, sessions, writers
<1>0. /\ pc \in [Sessions -> {"idle", "opened"} \cup Holding]
      /\ DOMAIN file = Sessions /\ DOMAIN snap = Sessions /\ DOMAIN idx = Sessions
      /\ DOMAIN words = Sessions /\ DOMAIN latest = Sessions
  BY DEF IndInv, TypeOK, SessionsOK
<1>texts. \A t \in Sessions : snap[t] \in Text /\ idx[t] \in Nat /\ words[t] \in Text
  BY DEF IndInv, TypeOK, SessionsOK
<1>1. ASSUME NEW s \in Sessions, NEW f \in Files, NEW k \in Indices, Open(s, f, k)
      PROVE  EditsKept'
  <2>1. /\ pc'[s] = "opened" /\ idx'[s] = k /\ snap'[s] = Contents(f)
        /\ \A t \in Sessions \ {s} :
             pc'[t] = pc[t] /\ idx'[t] = idx[t] /\ snap'[t] = snap[t] /\ words'[t] = words[t]
    BY <1>0, <1>1 DEF Open
  <2>2. k <= SentenceCount(Contents(f))
    <3>1. Contents(f) \in Text
      BY ContentsType DEF IndInv, TypeOK
    <3>2. k \in 0..SentenceCount(Contents(f)) /\ SentenceCount(Contents(f)) \in Nat
      BY <1>1, <3>1, SentenceCountType DEF Open, IndexValid
    <3> QED
      BY <3>2
  <2> SUFFICES ASSUME NEW t \in Sessions
               PROVE  /\ pc'[t] # "idle" => idx'[t] <= SentenceCount(snap'[t])
                      /\ pc'[t] \in Editing => SentenceKept(t)'
    BY DEF EditsKept
  <2>3. CASE t = s
    BY <2>1, <2>2, <2>3 DEF Editing
  <2>4. CASE t # s
    <3>1. SentenceKept(t) => SentenceKept(t)'
      BY <2>1, <2>4 DEF SentenceKept
    <3> QED
      BY <2>1, <2>4, <3>1 DEF EditsKept
  <2> QED
    BY <2>3, <2>4
<1>2. ASSUME NEW s \in Sessions, AcquireLock(s) PROVE EditsKept'
  BY <1>0, <1>2, EditsUndisturbed DEF AcquireLock, Editing
<1>3. ASSUME NEW s \in Sessions, LockRefused(s) PROVE EditsKept'
  BY <1>0, <1>3, EditsUndisturbed DEF LockRefused, EndSession, Editing
<1>4. ASSUME NEW s \in Sessions, SaveUndo(s) PROVE EditsKept'
  <2>1. /\ pc[s] = "locked" /\ pc'[s] = "editing"
        /\ words'[s] = TargetWords(snap[s], idx[s])
        /\ \A t \in Sessions \ {s} : pc'[t] = pc[t] /\ words'[t] = words[t]
        /\ UNCHANGED <<idx, snap>>
    BY <1>0, <1>4 DEF SaveUndo
  <2> SUFFICES ASSUME NEW t \in Sessions
               PROVE  /\ pc'[t] # "idle" => idx'[t] <= SentenceCount(snap'[t])
                      /\ pc'[t] \in Editing => SentenceKept(t)'
    BY DEF EditsKept
  <2>2. CASE t = s
    <3>1. idx[s] <= SentenceCount(snap[s])
      BY <2>1 DEF EditsKept
    <3>2. ASSUME idx[s] < SentenceCount(snap[s]), Len(Sentence(snap[s], idx[s])) <= MaxWords
          PROVE  words'[s] = Sentence(snap[s], idx[s])
      <4> DEFINE x == Sentence(snap[s], idx[s])
      <4>1. x \in Seq(Token)
        BY <1>texts, <3>2, SentenceType DEF Text
      <4>2. TargetWords(snap[s], idx[s])
              = SubSeq(x, 1, IF Len(x) < MaxWords THEN Len(x) ELSE MaxWords)
        BY <3>2 DEF TargetWords
      <4> HIDE DEF x
      <4>3. Len(x) <= MaxWords
        BY <3>2 DEF x
      <4>4. (IF Len(x) < MaxWords THEN Len(x) ELSE MaxWords) = Len(x)
        BY <4>1, <4>3, MaxWordsAssumption
      <4>5. SubSeq(x, 1, Len(x)) = x
        BY <4>1
      <4> QED
        BY <2>1, <4>2, <4>4, <4>5 DEF x
    <3>3. ASSUME idx[s] < SentenceCount(snap[s]), Len(Sentence(snap[s], idx[s])) <= MaxWords,
                 NEW a \in Atom
          PROVE  Occurrences(Sentence(snap[s], idx[s]), a) <= Occurrences(words'[s], a)
      <4>1. Sentence(snap[s], idx[s]) \in Text
        BY <1>texts, <3>3, SentenceType
      <4> QED
        BY <3>2, <3>3, <4>1, SpotsFinite
    <3>4. SentenceKept(s)'
      BY <2>1, <3>3 DEF SentenceKept
    <3> QED
      BY <2>1, <2>2, <3>1, <3>4
  <2>3. CASE t # s
    <3>1. SentenceKept(t) => SentenceKept(t)'
      BY <2>1, <2>3 DEF SentenceKept
    <3> QED
      BY <2>1, <2>3, <3>1 DEF EditsKept
  <2> QED
    BY <2>2, <2>3
<1>5. ASSUME NEW s \in Sessions, NEW p \in 1..MaxWords, NEW w \in Inserts,
             ReceiveWord(s, p, w)
      PROVE  EditsKept'
  <2>1. /\ pc[s] = "editing" /\ words'[s] = InsertWord(words[s], p, w)
        /\ \A t \in Sessions \ {s} : words'[t] = words[t]
        /\ UNCHANGED <<pc, idx, snap>>
    BY <1>0, <1>5 DEF ReceiveWord
  <2>2. p \in Nat /\ w \in Token /\ PositionValid(words[s], p)
    BY <1>5, ConstantFacts, MaxWordsAssumption DEF ReceiveWord
  <2> SUFFICES ASSUME NEW t \in Sessions
               PROVE  /\ pc'[t] # "idle" => idx'[t] <= SentenceCount(snap'[t])
                      /\ pc'[t] \in Editing => SentenceKept(t)'
    BY DEF EditsKept
  <2>3. CASE t = s
    <3>1. SentenceKept(s) /\ idx[s] <= SentenceCount(snap[s])
      BY <2>1 DEF EditsKept, Editing
    <3>2. ASSUME NEW a \in Atom, idx[s] < SentenceCount(snap[s]),
                 Len(Sentence(snap[s], idx[s])) <= MaxWords
          PROVE  Occurrences(Sentence(snap[s], idx[s]), a) <= Occurrences(words'[s], a)
      <4>1. Occurrences(Sentence(snap[s], idx[s]), a) <= Occurrences(words[s], a)
        BY <3>1, <3>2 DEF SentenceKept
      <4>2. Occurrences(words[s], a) <= Occurrences(words'[s], a)
        BY <1>texts, <2>1, <2>2, InsertionKeeps
      <4>3. Sentence(snap[s], idx[s]) \in Text /\ words'[s] \in Text
        BY <1>texts, <2>1, <2>2, <3>2, SentenceType, InsertWordType
      <4>4. /\ Occurrences(Sentence(snap[s], idx[s]), a) \in Nat
            /\ Occurrences(words[s], a) \in Nat /\ Occurrences(words'[s], a) \in Nat
        BY <1>texts, <4>3, SpotsFinite
      <4> QED
        BY <4>1, <4>2, <4>4
    <3>3. SentenceKept(s)'
      BY <2>1, <3>2 DEF SentenceKept
    <3> QED
      BY <2>1, <2>3, <3>1, <3>3
  <2>4. CASE t # s
    <3>1. SentenceKept(t) => SentenceKept(t)'
      BY <2>1, <2>4 DEF SentenceKept
    <3> QED
      BY <2>1, <2>4, <3>1 DEF EditsKept
  <2> QED
    BY <2>3, <2>4
<1>6. ASSUME NEW s \in Sessions, Etirw(s) \/ Disconnect(s) PROVE EditsKept'
  BY <1>0, <1>6, EditsUndisturbed DEF Etirw, Disconnect, Editing
<1>7. ASSUME NEW s \in Sessions, LockCommit(s) PROVE EditsKept'
  BY <1>0, <1>7, EditsUndisturbed DEF LockCommit, Editing
<1>8. ASSUME NEW s \in Sessions, ReadLatest(s) \/ RefuseCommit(s) PROVE EditsKept'
  BY <1>0, <1>8, EditsUndisturbed DEF ReadLatest, RefuseCommit, Editing
<1>9. ASSUME NEW s \in Sessions, WriteFile(s) \/ MirrorFile(s) \/ Reports(s)
      PROVE  EditsKept'
  BY <1>0, <1>9, EditsUndisturbed
     DEF WriteFile, MirrorFile, Reports, ReportCounts, AwaitAck, EndReport, Editing
<1>10. ASSUME NEW s \in Sessions, ReleaseLock(s) PROVE EditsKept'
  BY <1>0, <1>10, EditsUndisturbed DEF ReleaseLock, EndSession, Editing
<1>11. CASE WriterStart
  <2>1. UNCHANGED <<pc, idx, snap, words>>
    BY <1>11 DEF WriterStart, TakeUndo, ReadCheckpoint, CreateCheckpoint, CreateFile,
                 DeleteFile, PushFile
  <2> QED
    BY <2>1, EditsUndisturbed
<1>12. ASSUME NEW w \in Writers, WriterStep(w) PROVE EditsKept'
  <2>1. UNCHANGED <<pc, idx, snap, words>>
    BY <1>12 DEF WriterStep, WriterWrite, WriterMirrorAndEnd, WriterMirror, WriterReport,
                 WriteCheckpoint
  <2> QED
    BY <2>1, EditsUndisturbed
<1>13. CASE Restart
  BY <1>13, EditsUndisturbed DEF Restart, Editing
<1>14. CASE UNCHANGED vars
  BY <1>14, EditsUndisturbed DEF vars
<1>15. CASE Next
  BY <1>15, <1>1, <1>2, <1>3, <1>4, <1>5, <1>6, <1>7, <1>8, <1>9, <1>10, <1>11, <1>12,
     <1>13, StepCases
<1> QED
  BY <1>14, <1>15

\* The step of a commit is the session's own write.
LEMMA CommitIsWrite ==
  ASSUME TypeOK, Next, NEW s \in Sessions, CommitStep(s)
  PROVE  WriteFile(s)
<1> USE DEF Goto, sessions, writers
<1>0. pc \in [Sessions -> {"idle", "opened"} \cup Holding]
  BY DEF TypeOK, SessionsOK
<1>1. pc[s] = "writing" /\ pc'[s] = "mirroring"
  BY DEF CommitStep
<1>2. ASSUME NEW t \in Sessions, ClientStep(t) PROVE FALSE
  BY <1>0, <1>1, <1>2 DEF ClientStep, Open, ReceiveWord, Etirw, Disconnect
<1>3. ASSUME NEW t \in Sessions, SessionStep(t) PROVE WriteFile(s)
  <2>1. CASE WriteFile(t)
    BY <1>0, <1>1, <2>1 DEF WriteFile
  <2>2. CASE ~WriteFile(t)
    BY <1>0, <1>1, <1>3, <2>2
       DEF SessionStep, AcquireLock, LockRefused, SaveUndo, LockCommit, ReadLatest,
           RefuseCommit, MirrorFile, ReportCounts, AwaitAck, EndReport, ReleaseLock,
           EndSession
  <2> QED
    BY <2>1, <2>2
<1>4. CASE WriterStart
  BY <1>1, <1>4 DEF WriterStart, TakeUndo, ReadCheckpoint, CreateCheckpoint, CreateFile,
                    DeleteFile, PushFile
<1>5. ASSUME NEW w \in Writers, WriterStep(w) PROVE FALSE
  BY <1>1, <1>5 DEF WriterStep, WriterWrite, WriterMirrorAndEnd, WriterMirror, WriterReport,
                    WriteCheckpoint
<1>6. CASE Restart
  BY <1>1, <1>6 DEF Restart
<1> QED
  BY <1>2, <1>3, <1>4, <1>5, <1>6 DEF Next

\* A commit that appends, or whose sentence is still in the file and fits the
\* array of words.
SentenceThere(s) ==
  \/ IsAppend(snap[s], idx[s])
  \/ /\ Len(Sentence(snap[s], idx[s])) <= MaxWords
     /\ Matches(latest[s], Sentence(snap[s], idx[s])) # {}

\* Such a commit loses no word of the file.
LEMMA CommitKeeps ==
  ASSUME IndInv, SoloInv, EditsKept, Next, NEW s \in Sessions, CommitStep(s),
         SentenceThere(s)
  PROVE  NoWordLostBy(s)
<1>1. WriteFile(s) /\ pc[s] = "writing"
  BY CommitIsWrite DEF IndInv, CommitStep
<1>2. /\ snap[s] \in Text /\ idx[s] \in Nat /\ words[s] \in Text /\ latest[s] \in Text
      /\ file[s] \in Files /\ Target(s) # -1
  BY <1>1, BusySession DEF IndInv, TypeOK, SessionsOK, ThreadsLocated
<1>3. content'[file[s]] = Merged(s)
  BY <1>1, <1>2 DEF WriteFile, IndInv, TypeOK, DiskOK
<1>4. Contents(file[s]) = latest[s]
  BY <1>1 DEF SoloInv, CommitSeesLatest
<1> DEFINE k == Target(s)
           new == Rebuild(words[s])
<1>5. k \in Nat /\ new \in Text /\ Merged(s) = Splice(latest[s], k, new)
  <2>1. k \in Nat
    BY <1>2, CommitTargetType, SentenceCountType DEF Target
  <2> QED
    BY <1>2, <2>1, RebuildType DEF Target, Merged, Merge
<1>6. ASSUME NEW a \in Atom, k < SentenceCount(latest[s])
      PROVE  Occurrences(Sentence(latest[s], k), a) <= Occurrences(new, a)
  <2>1. idx[s] <= SentenceCount(snap[s]) /\ SentenceKept(s)
    BY <1>1 DEF EditsKept, Editing
  <2>2. SentenceCount(snap[s]) \in Nat /\ SentenceCount(latest[s]) \in Nat
    BY <1>2, SentenceCountType
  <2>3. ~IsAppend(snap[s], idx[s])
    BY <1>2, <1>6, <2>2 DEF Target, CommitTarget, AppendTarget
  <2>4. /\ idx[s] < SentenceCount(snap[s])
        /\ Len(Sentence(snap[s], idx[s])) <= MaxWords
        /\ Matches(latest[s], Sentence(snap[s], idx[s])) # {}
    BY <1>2, <2>1, <2>2, <2>3 DEF SentenceThere, IsAppend
  <2>5. Sentence(latest[s], k) = Sentence(snap[s], idx[s])
    BY <1>2, <2>4, TargetFound DEF Target
  <2>6. Occurrences(Sentence(snap[s], idx[s]), a) <= Occurrences(words[s], a)
    BY <2>1, <2>4 DEF SentenceKept
  <2>7. Occurrences(words[s], a) <= Occurrences(new, a)
    BY <1>2, RebuildKeeps
  <2>8. /\ Occurrences(Sentence(snap[s], idx[s]), a) \in Nat
        /\ Occurrences(words[s], a) \in Nat /\ Occurrences(new, a) \in Nat
    BY <1>2, <1>5, <2>4, SentenceType, SpotsFinite
  <2> HIDE DEF k, new
  <2> QED
    BY <2>5, <2>6, <2>7, <2>8
<1> HIDE DEF k, new
<1>7. \A a \in Atom :
        /\ Occurrences(latest[s], a) <= Occurrences(Splice(latest[s], k, new), a)
        /\ Occurrences(latest[s], a) \in Nat
        /\ Occurrences(Splice(latest[s], k, new), a) \in Nat
  BY <1>2, <1>5, <1>6, SpliceKeeps, SpliceType, SpotsFinite
<1> QED
  BY <1>3, <1>4, <1>5, <1>7 DEF NoWordLostBy

\* While sessions are the only writers, a commit whose sentence is still in the
\* file, or that appends, keeps every word of the file.
THEOREM CommitsKeepWords ==
  ASSUME SessionsOnly
  PROVE  Spec => CommitKeepsWords
<1>1. Init => EditsKept
  BY DEF Init, EditsKept, Editing
<1>2. IndInv /\ EditsKept /\ [Next]_vars => EditsKept'
  BY EditsStep
<1>3. IndInv /\ SoloInv /\ EditsKept /\ [Next]_vars
        => [\A s \in Sessions :
              /\ CommitStep(s)
              /\ \/ IsAppend(snap[s], idx[s])
                 \/ /\ Len(Sentence(snap[s], idx[s])) <= MaxWords
                    /\ Matches(latest[s], Sentence(snap[s], idx[s])) # {}
              => NoWordLostBy(s)]_vars
  BY CommitKeeps DEF SentenceThere
<1> QED
  BY <1>1, <1>2, <1>3, SoloInvariant, PTL DEF Spec, CommitKeepsWords

----------------------------------------------------------------------------
(* SentenceStore *)

\* The text between the front and the back of a text glued from three.
LEMMA MiddlePart ==
  ASSUME NEW a \in Text, NEW m \in Text, NEW b \in Text
  PROVE  /\ Len(a \o m \o b) = Len(a) + Len(m) + Len(b)
         /\ SubSeq(a \o m \o b, Len(a) + 1, Len(a) + Len(m)) = m
<1> DEFINE all == a \o m \o b
           mid == SubSeq(all, Len(a) + 1, Len(a) + Len(m))
<1>1. Len(a) \in Nat /\ Len(m) \in Nat /\ Len(b) \in Nat
  BY DEF Text
<1>2. all \in Seq(Token) /\ Len(all) = Len(a) + Len(m) + Len(b)
  BY DEF Text
<1>3. Len(mid) = Len(m) /\ mid \in Seq(Token)
  BY <1>1, <1>2
<1>4. \A i \in 1..Len(m) : mid[i] = m[i]
  <2> TAKE i \in 1..Len(m)
  <2>1. mid[i] = all[Len(a) + i]
    <3> HIDE DEF all
    <3>1. /\ Len(a) + 1 \in 1..(Len(all) + 1) /\ Len(a) + Len(m) \in 0..Len(all)
          /\ i \in 1..((Len(a) + Len(m)) - (Len(a) + 1) + 1)
          /\ (Len(a) + 1) + i - 1 = Len(a) + i
      BY <1>1, <1>2
    <3> QED
      BY <1>1, <1>2, <3>1
  <2>2. all[Len(a) + i] = (a \o m)[Len(a) + i]
    BY <1>1 DEF Text
  <2>3. (a \o m)[Len(a) + i] = m[i]
    BY <1>1 DEF Text
  <2> QED
    BY <2>1, <2>2, <2>3
<1> HIDE DEF mid, all
<1>5. mid = m
  BY <1>3, <1>4 DEF Text
<1> QED
  BY <1>2, <1>5 DEF mid, all

\* SentenceStore finds the sentences of a text where the server does.
LEMMA SameSentences ==
  ASSUME NEW c, NEW k
  PROVE  /\ Store!SentenceCount(c) = SentenceCount(c)
         /\ Store!SentenceFirst(c, k) = SentenceFirst(c, k)
         /\ Store!SentenceLast(c, k) = SentenceLast(c, k)
<1>0. \A S : Store!Cardinality(S) = Cardinality(S)
  BY DEF Store!Cardinality, Cardinality
<1>1. Store!SentenceEnds(c) = SentenceEnds(c)
  BY DEF Store!SentenceEnds, SentenceEnds
<1>2. \A S, n : Store!NthLeast(S, n) = NthLeast(S, n)
  BY <1>0 DEF Store!NthLeast, NthLeast
<1>3. Store!SentenceCount(c) = SentenceCount(c)
  BY <1>0, <1>1 DEF Store!SentenceCount, SentenceCount
<1>4. Store!SentenceFirst(c, k) = SentenceFirst(c, k)
  BY <1>1, <1>2 DEF Store!SentenceFirst, SentenceFirst
<1>5. Store!SentenceLast(c, k) = SentenceLast(c, k)
  BY <1>1, <1>2 DEF Store!SentenceLast, SentenceLast
<1> QED
  BY <1>3, <1>4, <1>5

\* A splice replaces one sentence and nothing else.
LEMMA SpliceReplaces ==
  ASSUME NEW c \in Text, NEW j \in 0..SentenceCount(c), NEW x \in Text
  PROVE  Store!ReplacesSentence(c, Splice(c, j, x), j)
<1>0. Len(c) \in Nat /\ SentenceCount(c) \in Nat /\ c \in Seq(Token) /\ x \in Seq(Token)
  BY SentenceCountType DEF Text
<1> DEFINE new == Splice(c, j, x)
<1>1. CASE j < SentenceCount(c)
  <2> DEFINE front == SubSeq(c, 1, SentenceFirst(c, j) - 1)
             back  == SubSeq(c, SentenceLast(c, j) + 1, Len(c))
  <2>1. SentenceFirst(c, j) \in 1..(Len(c) + 1) /\ SentenceLast(c, j) \in 1..Len(c)
    BY <1>0, <1>1, SentenceBounds
  <2>2. front \in Text /\ Len(front) = SentenceFirst(c, j) - 1
    BY <1>0, <2>1 DEF Text
  <2>3. back \in Text /\ Len(back) = Len(c) - SentenceLast(c, j)
    BY <1>0, <2>1 DEF Text
  <2>4. new = front \o x \o back
    BY <1>1 DEF Splice
  <2> HIDE DEF front, back, new
  <2>5. /\ Len(new) = Len(front) + Len(x) + Len(back)
        /\ SubSeq(new, Len(front) + 1, Len(front) + Len(x)) = x
    BY <2>2, <2>3, <2>4, MiddlePart
  <2>6. /\ Len(new) >= Len(front) + Len(back)
        /\ Len(new) - Len(back) = Len(front) + Len(x)
    BY <1>0, <2>2, <2>3, <2>5 DEF Text
  <2>7. Store!Splice(c, j, x) = new
    BY SameSentences DEF Store!Splice, Splice, new
  <2> QED
    BY <1>1, <2>2, <2>3, <2>5, <2>6, <2>7, SameSentences DEF Store!ReplacesSentence, new
<1>2. CASE j = SentenceCount(c)
  <2>1. new = c \o x \o <<>>
    BY <1>0, <1>2 DEF Splice
  <2> HIDE DEF new
  <2>2. /\ Len(new) = Len(c) + Len(x) + 0
        /\ SubSeq(new, Len(c) + 1, Len(c) + Len(x)) = x
    BY <2>1, MiddlePart, EmptyText
  <2>3. Len(new) >= Len(c) + 0 /\ Len(new) - 0 = Len(c) + Len(x)
    BY <1>0, <2>2
  <2>4. Store!Splice(c, j, x) = new
    BY SameSentences DEF Store!Splice, Splice, new
  <2>5. ~(j < Store!SentenceCount(c))
    BY <1>0, <1>2, SameSentences
  <2>6. SubSeq(new, Len(c) + 1, Len(new) - 0) = x
    BY <2>2, <2>3
  <2> QED
    BY <2>3, <2>4, <2>5, <2>6 DEF Store!ReplacesSentence, new
<1> QED
  BY <1>0, <1>1, <1>2
\* What SentenceStore sees: the texts, and who holds which lock.
Texts   == [f \in Files |-> Contents(f)]
Holders == [e \in Entries |-> IF locks[e] = NoEntry THEN Free ELSE locks[e]]

\* A step that changes neither files nor locks changes nothing there.
LEMMA StoreStutters ==
  ASSUME UNCHANGED <<content, locks>>
  PROVE  UNCHANGED Texts /\ UNCHANGED Holders
BY DEF Texts, Holders, Contents

\* The program starts as the store does.
LEMMA StoreInit ==
  ASSUME Init
  PROVE  Store!Init
<1>1. \A f \in Files : Contents(f) \in Text
  BY ConstantsAssumption, EmptyText DEF Init, Contents
<1>2. Store!Text = Text
  BY DEF Store!Text, Text, Store!Token, Token
<1>3. \A e \in Entries : (IF locks[e] = NoEntry THEN Free ELSE locks[e]) = Free
  BY DEF Init
<1> QED
  BY <1>1, <1>2, <1>3 DEF Store!Init, Entries

\* Taking a lock is taking it in the store.
LEMMA StoreLock ==
  ASSUME IndInv, NEW s \in Sessions, AcquireLock(s),
         NEW f \in Files, NEW k \in Indices, f = file[s], k = idx[s]
  PROVE  Store!Lock(s, f, k)
<1>1. Held(s) \in Entries /\ DOMAIN locks = Entries
  BY BusySession DEF AcquireLock, IndInv, TypeOK, TablesOK
<1>2. UNCHANGED Texts
  BY DEF AcquireLock, disk, Texts, Contents
<1>3. Holders[Held(s)] = Free
  BY <1>1 DEF AcquireLock, Holders
<1>4. Holders' = [Holders EXCEPT ![Held(s)] = s]
  BY <1>1, SentinelFacts DEF AcquireLock, Holders
<1> QED
  BY <1>2, <1>3, <1>4 DEF Store!Lock, Texts, Holders, Held

\* Giving a lock back is giving it back in the store.
LEMMA StoreUnlock ==
  ASSUME IndInv, NEW s \in Sessions, ReleaseLock(s),
         NEW f \in Files, NEW k \in Indices, f = file[s], k = idx[s]
  PROVE  Store!Unlock(s, f, k)
<1>1. Held(s) \in Entries /\ DOMAIN locks = Entries /\ locks[Held(s)] = s
  BY BusySession DEF ReleaseLock, IndInv, TypeOK, TablesOK, LockTableExact, Holding
<1>2. UNCHANGED Texts
  BY DEF ReleaseLock, disk, Texts, Contents
<1>3. Holders[Held(s)] = s
  BY <1>1, SentinelFacts DEF Holders
<1>4. Holders' = [Holders EXCEPT ![Held(s)] = Free]
  BY <1>1, SentinelFacts DEF ReleaseLock, Holders
<1> QED
  BY <1>2, <1>3, <1>4 DEF Store!Unlock, Texts, Holders, Held

\* Writing the merged text replaces one sentence of the text that is there.
LEMMA StoreCommit ==
  ASSUME IndInv, SoloInv, NEW s \in Sessions, WriteFile(s),
         NEW f \in Files, NEW k \in Indices, f = file[s], k = idx[s]
  PROVE  Store!Commit(s, f, k)
<1>1. Held(s) \in Entries /\ locks[Held(s)] = s
  BY BusySession DEF WriteFile, IndInv, LockTableExact, Holding
<1>2. /\ snap[s] \in Text /\ idx[s] \in Nat /\ words[s] \in Text /\ latest[s] \in Text
      /\ DOMAIN content = Files /\ latest[s] = Contents(f) /\ Target(s) # -1
  BY DEF WriteFile, IndInv, TypeOK, SessionsOK, DiskOK, SoloInv, CommitSeesLatest,
         ThreadsLocated
<1>3. Target(s) \in 0..SentenceCount(Contents(f))
  BY <1>2, CommitTargetType DEF Target
<1>4. Merged(s) = Splice(Contents(f), Target(s), Rebuild(words[s]))
  BY <1>2 DEF Merged, Merge, Target
<1>5. Store!ReplacesSentence(Contents(f), Merged(s), Target(s))
  BY <1>2, <1>3, <1>4, RebuildType, SpliceReplaces
<1>6. Merged(s) # Absent
  BY <1>2, MergedType, SentinelFacts DEF IndInv
<1>7. content' = [content EXCEPT ![f] = Merged(s)] /\ UNCHANGED locks
  BY DEF WriteFile, tables
<1>8. Texts' = [Texts EXCEPT ![f] = Merged(s)]
  BY <1>1, <1>2, <1>6, <1>7 DEF Texts, Contents
<1>9. Texts[f] = Contents(f) /\ Texts'[f] = Merged(s)
  BY <1>1, <1>8 DEF Texts
<1>10. Holders[Held(s)] = s /\ UNCHANGED Holders
  BY <1>1, <1>7, SentinelFacts DEF Holders
<1>11. \E j \in 0..SentenceCount(Texts[f]) :
          Store!ReplacesSentence(Texts[f], Texts'[f], j)
  BY <1>3, <1>5, <1>9
<1>12. Store!SentenceCount(Texts[f]) = SentenceCount(Texts[f])
  BY SameSentences
<1>13. Texts' = [Texts EXCEPT ![f] = Texts'[f]]
  BY <1>8, <1>9
<1> QED
  BY <1>10, <1>11, <1>12, <1>13 DEF Store!Commit, Texts, Holders, Held

\* Every step is a step of the store, or changes nothing there.
LEMMA StoreStep ==
  ASSUME SessionsOnly, IndInv, SoloInv, [Next]_vars
  PROVE  [Store!Next]_(Store!svars)
<1> DEFINE Same == UNCHANGED Texts /\ UNCHANGED Holders
<1>0. Same => [Store!Next]_(Store!svars)
  BY DEF Store!svars, Texts, Holders
<1> HIDE DEF Same
<1>1. \A s \in Sessions : pc[s] # "idle" => file[s] \in Files /\ idx[s] \in Indices
  BY BusySession DEF IndInv
<1>2. ASSUME NEW s \in Sessions, AcquireLock(s) PROVE Store!Next
  <2>1. PICK f \in Files, k \in Indices : f = file[s] /\ k = idx[s]
    BY <1>1, <1>2 DEF AcquireLock
  <2>2. Store!Lock(s, f, k)
    BY <1>2, <2>1, StoreLock
  <2> QED
    BY <2>2 DEF Store!Next
<1>3. ASSUME NEW s \in Sessions, WriteFile(s) PROVE Store!Next
  <2>1. PICK f \in Files, k \in Indices : f = file[s] /\ k = idx[s]
    BY <1>1, <1>3 DEF WriteFile
  <2>2. Store!Commit(s, f, k)
    BY <1>3, <2>1, StoreCommit
  <2> QED
    BY <2>2 DEF Store!Next
<1>4. ASSUME NEW s \in Sessions, ReleaseLock(s) PROVE Store!Next
  <2>1. PICK f \in Files, k \in Indices : f = file[s] /\ k = idx[s]
    BY <1>1, <1>4 DEF ReleaseLock
  <2>2. Store!Unlock(s, f, k)
    BY <1>4, <2>1, StoreUnlock
  <2> QED
    BY <2>2 DEF Store!Next
<1>5. ASSUME NEW s \in Sessions,
             \/ ClientStep(s) \/ LockRefused(s) \/ SaveUndo(s) \/ LockCommit(s)
             \/ ReadLatest(s) \/ RefuseCommit(s) \/ MirrorFile(s) \/ Reports(s)
      PROVE  Same
  <2>1. UNCHANGED <<content, locks>>
    BY <1>5 DEF ClientStep, Open, ReceiveWord, Etirw, Disconnect, LockRefused, SaveUndo,
                LockCommit, ReadLatest, RefuseCommit, MirrorFile, Reports, ReportCounts,
                AwaitAck, EndReport, disk, tables
  <2> QED
    BY <2>1, StoreStutters DEF Same
<1>6. CASE Restart
  <2>1. UNCHANGED Texts
    BY <1>6 DEF Restart, disk, Texts, Contents
  <2>2. Holders' = [e \in Files \X Indices |-> Free]
    BY <1>6 DEF Restart, Holders, Entries
  <2>3. Store!Restart
    BY <2>1, <2>2 DEF Store!Restart, Texts, Holders
  <2> QED
    BY <2>3 DEF Store!Next
<1>7. CASE UNCHANGED vars
  BY <1>0, <1>7, StoreStutters DEF vars, disk, tables, Same
<1>8. CASE Next
  <2>1. (\E s \in Sessions : ClientStep(s) \/ SessionStep(s)) \/ Restart
    BY <1>8, NoWriters DEF SoloInv
  <2> QED
    BY <2>1, <1>0, <1>2, <1>3, <1>4, <1>5, <1>6 DEF SessionStep, Reports
<1> QED
  BY <1>7, <1>8

\* WriteSession implements SentenceStore when sessions are the only writers:
\* whoever holds a lock replaces one sentence of the text that is there when it
\* writes, and no session's step changes another sentence.
THEOREM StoreImplemented ==
  ASSUME SessionsOnly
  PROVE  Spec => ImplementsStore
<1>1. Init => Store!Init
  BY StoreInit
<1>2. IndInv /\ SoloInv /\ [Next]_vars => [Store!Next]_(Store!svars)
  BY StoreStep
<1> QED
  BY <1>1, <1>2, SoloInvariant, PTL DEF Spec, ImplementsStore, Store!Spec
=============================================================================
