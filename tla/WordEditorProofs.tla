---------------------------- MODULE WordEditorProofs ------------------------
(***************************************************************************)
(* The strings of the word array and the tokens of Sentences stay in step  *)
(* for every text, every word and every alphabet: what the loops over      *)
(* characters compute is what the token operators say.  The loops are      *)
(* folds over sequences; what a fold computes is proved by adding one      *)
(* element at a time (SequenceInduction).                                  *)
(***************************************************************************)
EXTENDS WordEditor, SequenceTheorems, FiniteSetTheorems, NaturalsInduction,
        WellFoundedInduction, TLAPS

-----------------------------------------------------------------------------
(* Numbers and sequences                                                    *)

\* A set of numbers that is not empty has a least element.
LEMMA LeastElement ==
  ASSUME NEW S \in SUBSET Nat, S # {}
  PROVE  \E m \in S : \A n \in S : m <= n
<1>1. IsWellFoundedOn(OpToRel(<, Nat), Nat)
  BY NatLessThanWellFounded
<1>2. PICK m \in S : \A n \in S : ~(<<n, m>> \in OpToRel(<, Nat))
  BY <1>1, WFMin
<1>3. \A n \in S : ~(n < m)
  BY <1>2 DEF OpToRel
<1> QED
  BY <1>3

\* A sequence is empty, or it is a shorter one with an element added.
LEMMA FrontAndLast ==
  ASSUME NEW E, NEW s \in Seq(E), s # <<>>
  PROVE  \E f \in Seq(E), x \in E : s = Append(f, x) /\ Len(f) = Len(s) - 1
<1>1. Len(s) \in Nat /\ Len(s) # 0 /\ \A i \in 1..Len(s) : s[i] \in E
  OBVIOUS
<1> DEFINE n == Len(s) - 1
<1>0. n \in Nat /\ n < Len(s)
  BY <1>1
<1>2. PICK f \in Seq(E) : Len(f) = Len(s) - 1 /\ \A i \in 1..(Len(s) - 1) : f[i] = s[i]
  <2> HIDE DEF n
  <2>1. \A i \in 1..n : s[i] \in E
    BY <1>0, <1>1
  <2>2. /\ SubSeq(s, 1, n) \in Seq(E)
        /\ Len(SubSeq(s, 1, n)) = IF 1 <= n THEN n - 1 + 1 ELSE 0
        /\ \A i \in 1..(n - 1 + 1) : SubSeq(s, 1, n)[i] = s[1 + i - 1]
    BY <1>0, <2>1, SubSeqProperties
  <2>3. Len(SubSeq(s, 1, n)) = n /\ \A i \in 1..n : SubSeq(s, 1, n)[i] = s[i]
    BY <1>0, <2>2
  <2> QED
    BY <2>2, <2>3 DEF n
<1>3. Append(f, s[Len(s)]) \in Seq(E) /\ Len(Append(f, s[Len(s)])) = Len(s)
  BY <1>1, <1>2
<1>4. \A i \in 1..Len(s) : Append(f, s[Len(s)])[i] = s[i]
  BY <1>1, <1>2
<1>5. s = Append(f, s[Len(s)])
  BY <1>3, <1>4, SeqEqual
<1> QED
  BY <1>1, <1>2, <1>5

\* A set that has the empty sequence, and every sequence one longer than one of
\* its own, has all of them.
LEMMA SequenceInduction ==
  ASSUME NEW E, NEW S, <<>> \in S,
         \A s \in Seq(E), x \in E : s \in S => Append(s, x) \in S
  PROVE  \A s \in Seq(E) : s \in S
<1> DEFINE Missing == {n \in Nat : \E s \in Seq(E) : s \notin S /\ Len(s) = n}
<1>1. CASE Missing = {}
  BY <1>1
<1>2. CASE Missing # {}
  <2>1. PICK m \in Missing : \A n \in Missing : m <= n
    <3>1. Missing \in SUBSET Nat
      OBVIOUS
    <3> HIDE DEF Missing
    <3> QED
      BY <1>2, <3>1, LeastElement
  <2>2. PICK s \in Seq(E) : s \notin S /\ Len(s) = m
    OBVIOUS
  <2>3. PICK f \in Seq(E), x \in E : s = Append(f, x) /\ Len(f) = Len(s) - 1
    BY <2>2, FrontAndLast
  <2>4. f \notin S
    BY <2>2, <2>3
  <2>5. Len(f) \in Missing
    BY <2>4
  <2> QED
    BY <2>1, <2>2, <2>3, <2>5
<1> QED
  BY <1>1, <1>2

\* The largest of some positions.
LEMMA LargestPosition ==
  ASSUME NEW n \in Nat, NEW t \in SUBSET (1..n), t # {}
  PROVE  Max(t) \in t /\ \A j \in t : j <= Max(t)
<1> DEFINE Above == {m \in Nat : \A j \in t : j <= m}
<1>1. Above \in SUBSET Nat /\ n \in Above
  OBVIOUS
<1>2. PICK m \in Above : \A k \in Above : m <= k
  <2> HIDE DEF Above
  <2> QED
    BY <1>1, LeastElement
<1>3. m \in t
  <2> SUFFICES ASSUME m \notin t
               PROVE  FALSE
    OBVIOUS
  <2>1. \A j \in t : j \in Nat /\ j >= 1 /\ j <= m - 1
    BY <1>2
  <2>2. m - 1 \in Nat
    <3>1. PICK j \in t : TRUE
      OBVIOUS
    <3> QED
      BY <2>1, <3>1
  <2>3. m - 1 \in Above
    BY <2>1, <2>2
  <2> QED
    BY <1>2, <2>2, <2>3
<1>4. \E x \in t : \A y \in t : x >= y
  BY <1>2, <1>3
<1>5. Max(t) \in t /\ \A y \in t : Max(t) >= y
  BY <1>4 DEF Max
<1> QED
  BY <1>5

-----------------------------------------------------------------------------
(* The loops of the model are folds, and a fold goes one element further    *)
(* with one more step.  FoldStep has the step of every loop.                *)

FoldStep(kind, acc, x) ==
  CASE kind = "join"     -> (IF acc = <<>> THEN x ELSE acc \o <<Space>> \o x)
    [] kind = "attach"   -> AttachWord(acc, x)
    [] kind = "word"     -> ScanWord(acc, x)
    [] kind = "sentence" -> ScanSentence(acc, x)
    [] kind = "letters"  -> (IF x \in Atom THEN Append(acc, x) ELSE acc)
    [] kind = "walk"     -> (IF acc # <<>> /\ Head(acc) = x THEN Tail(acc) ELSE acc)

\* f gives the fold over every part of s, the last element taken last.
Folds(f, kind, base, s) ==
  f = [t \in SUBSET DOMAIN s |->
         IF t = {} THEN base ELSE FoldStep(kind, f[t \ {Max(t)}], s[Max(t)])]

Loop(kind, base, s) == (CHOOSE f : Folds(f, kind, base, s))[DOMAIN s]

LEMMA FoldExists ==
  ASSUME NEW E, NEW kind, NEW base
  PROVE  \A s \in Seq(E) : \E f : Folds(f, kind, base, s)
<1> DEFINE S == {s \in Seq(E) : \E f : Folds(f, kind, base, s)}
<1>1. <<>> \in S
  <2>1. <<>> \in Seq(E) /\ DOMAIN <<>> = {}
    OBVIOUS
  <2> DEFINE f == [t \in SUBSET {} |-> base]
  <2>2. f = [t \in SUBSET DOMAIN <<>> |->
              IF t = {} THEN base ELSE FoldStep(kind, f[t \ {Max(t)}], <<>>[Max(t)])]
    BY <2>1
  <2>3. Folds(f, kind, base, <<>>)
    BY <2>2 DEF Folds
  <2> QED
    BY <2>1, <2>3
<1>2. ASSUME NEW s \in Seq(E), NEW x \in E, s \in S
      PROVE  Append(s, x) \in S
  <2>1. PICK f : Folds(f, kind, base, s)
    BY <1>2
  <2> DEFINE n == Len(s) + 1
             r == Append(s, x)
             g == [t \in SUBSET (1..n) |->
                     IF n \in t THEN FoldStep(kind, f[t \ {n}], x) ELSE f[t]]
  <2>2. n \in Nat /\ DOMAIN s = 1..Len(s) /\ DOMAIN r = 1..n /\ r \in Seq(E) /\ r[n] = x
        /\ (\A i \in 1..Len(s) : r[i] = s[i])
    OBVIOUS
  <2> HIDE DEF r
  <2>3. ASSUME NEW t \in SUBSET (1..n)
        PROVE  g[t] = IF t = {} THEN base ELSE FoldStep(kind, g[t \ {Max(t)}], r[Max(t)])
    <3>1. CASE n \in t
      <4>1. Max(t) = n
        <5>1. n \in Nat /\ t # {}
          BY <2>2, <3>1
        <5>2. Max(t) \in t /\ \A j \in t : j <= Max(t)
          BY <5>1, LargestPosition
        <5>3. Max(t) \in 1..n /\ n <= Max(t)
          BY <3>1, <5>2
        <5> QED
          BY <5>1, <5>3
      <4>2. t \ {n} \in SUBSET (1..n) /\ n \notin t \ {n}
        OBVIOUS
      <4>3. g[t \ {n}] = f[t \ {n}]
        BY <4>2
      <4> QED
        BY <2>2, <3>1, <4>1, <4>3
    <3>2. CASE n \notin t
      <4>1. t \in SUBSET DOMAIN s
        BY <2>2, <3>2
      <4>2. f[t] = IF t = {} THEN base ELSE FoldStep(kind, f[t \ {Max(t)}], s[Max(t)])
        BY <2>1, <4>1 DEF Folds
      <4>3. CASE t = {}
        BY <3>2, <4>2, <4>3
      <4>4. CASE t # {}
        <5>1. Max(t) \in t
          BY <2>2, <4>4, LargestPosition
        <5>2. r[Max(t)] = s[Max(t)]
          BY <2>2, <4>1, <5>1
        <5>3. t \ {Max(t)} \in SUBSET (1..n) /\ n \notin t \ {Max(t)}
          BY <3>2
        <5>4. g[t \ {Max(t)}] = f[t \ {Max(t)}]
          BY <5>3
        <5> QED
          BY <3>2, <4>2, <4>4, <5>2, <5>4
      <4> QED
        BY <4>3, <4>4
    <3> QED
      BY <3>1, <3>2
  <2>4. g = [t \in SUBSET DOMAIN r |->
              IF t = {} THEN base ELSE FoldStep(kind, g[t \ {Max(t)}], r[Max(t)])]
    BY <2>2, <2>3
  <2>5. Folds(g, kind, base, r)
    BY <2>4 DEF Folds
  <2> QED
    BY <2>2, <2>5 DEF r
<1> HIDE DEF S
<1>3. \A s \in Seq(E) : s \in S
  BY <1>1, <1>2, SequenceInduction
<1> QED
  BY <1>3 DEF S

\* Two folds agree on the positions where their sequences do.
LEMMA FoldsAgree ==
  ASSUME NEW E, NEW kind, NEW base, NEW s \in Seq(E), NEW r \in Seq(E),
         NEW f, NEW g, Folds(f, kind, base, s), Folds(g, kind, base, r),
         Len(s) <= Len(r), \A i \in 1..Len(s) : r[i] = s[i]
  PROVE  g[DOMAIN s] = f[DOMAIN s]
<1>1. Len(s) \in Nat /\ Len(r) \in Nat /\ DOMAIN s = 1..Len(s) /\ DOMAIN r = 1..Len(r)
  OBVIOUS
<1> DEFINE Wrong == {k \in Nat : \E t \in SUBSET (1..k) : t \subseteq 1..Len(s) /\ g[t] # f[t]}
<1>2. CASE Wrong = {}
  BY <1>1, <1>2
<1>3. CASE Wrong # {}
  <2>1. PICK k \in Wrong : \A j \in Wrong : k <= j
    <3>1. Wrong \in SUBSET Nat
      OBVIOUS
    <3> HIDE DEF Wrong
    <3> QED
      BY <1>3, <3>1, LeastElement
  <2>2. PICK t \in SUBSET (1..k) : t \subseteq 1..Len(s) /\ g[t] # f[t]
    OBVIOUS
  <2>3. t \in SUBSET DOMAIN s /\ t \in SUBSET DOMAIN r
    BY <1>1, <2>2
  <2>4. f[t] = IF t = {} THEN base ELSE FoldStep(kind, f[t \ {Max(t)}], s[Max(t)])
    BY <2>3 DEF Folds
  <2>5. g[t] = IF t = {} THEN base ELSE FoldStep(kind, g[t \ {Max(t)}], r[Max(t)])
    BY <2>3 DEF Folds
  <2>6. t # {}
    BY <2>2, <2>4, <2>5
  <2>7. Max(t) \in t /\ \A j \in t : j <= Max(t)
    BY <1>1, <2>2, <2>6, LargestPosition
  <2>8. r[Max(t)] = s[Max(t)]
    BY <2>2, <2>7
  <2>9. g[t \ {Max(t)}] # f[t \ {Max(t)}]
    BY <2>2, <2>4, <2>5, <2>6, <2>8
  <2>10. k \in Nat /\ k - 1 \in Nat /\ t \ {Max(t)} \in SUBSET (1..(k - 1))
    <3>1. k \in Nat /\ Max(t) \in 1..k /\ \A j \in t : j \in 1..k /\ j <= Max(t)
      BY <2>2, <2>7
    <3>2. k - 1 \in Nat /\ \A j \in t \ {Max(t)} : j \in 1..(k - 1)
      BY <3>1
    <3> QED
      BY <3>1, <3>2
  <2>11. k - 1 \in Wrong
    BY <2>2, <2>9, <2>10
  <2> QED
    BY <2>1, <2>10, <2>11
<1> QED
  BY <1>2, <1>3

LEMMA LoopValue ==
  ASSUME NEW E, NEW kind, NEW base, NEW s \in Seq(E), NEW f, Folds(f, kind, base, s)
  PROVE  Loop(kind, base, s) = f[DOMAIN s]
<1> DEFINE g == CHOOSE h : Folds(h, kind, base, s)
<1>1. Folds(g, kind, base, s)
  OBVIOUS
<1> HIDE DEF g
<1>2. Len(s) <= Len(s)
  OBVIOUS
<1>3. g[DOMAIN s] = f[DOMAIN s]
  BY <1>1, <1>2, FoldsAgree
<1> QED
  BY <1>3 DEF Loop, g

LEMMA LoopEmpty ==
  ASSUME NEW kind, NEW base
  PROVE  Loop(kind, base, <<>>) = base
<1> DEFINE none == <<>>
<1>1. none \in Seq({}) /\ DOMAIN none = {}
  OBVIOUS
<1> HIDE DEF none
<1>2. PICK f : Folds(f, kind, base, none)
  BY <1>1, FoldExists
<1>3. f[{}] = base
  BY <1>1, <1>2 DEF Folds
<1>4. \A s \in Seq({}) : Folds(f, kind, base, s) => Loop(kind, base, s) = f[DOMAIN s]
  BY LoopValue
<1>5. Loop(kind, base, none) = f[DOMAIN none]
  BY <1>1, <1>2, <1>4
<1> QED
  BY <1>1, <1>3, <1>5 DEF none

\* One more element, one more step.
LEMMA LoopAppend ==
  ASSUME NEW E, NEW kind, NEW base, NEW s \in Seq(E), NEW x \in E
  PROVE  Loop(kind, base, Append(s, x)) = FoldStep(kind, Loop(kind, base, s), x)
<1> DEFINE r == Append(s, x)
           n == Len(s) + 1
<1>1. n \in Nat /\ DOMAIN s = 1..Len(s) /\ DOMAIN r = 1..n /\ r \in Seq(E) /\ r[n] = x
      /\ (\A i \in 1..Len(s) : r[i] = s[i]) /\ Len(s) <= Len(r)
  OBVIOUS
<1> HIDE DEF r
<1>2. PICK f : Folds(f, kind, base, s)
  BY FoldExists
<1>3. PICK g : Folds(g, kind, base, r)
  BY <1>1, FoldExists
<1>4. Loop(kind, base, s) = f[DOMAIN s] /\ Loop(kind, base, r) = g[DOMAIN r]
  BY <1>1, <1>2, <1>3, LoopValue
<1>5. g[DOMAIN s] = f[DOMAIN s]
  BY <1>1, <1>2, <1>3, FoldsAgree
<1>6. DOMAIN r # {} /\ Max(DOMAIN r) = n
  <2>1. 1..n \in SUBSET (1..n) /\ 1..n # {} /\ n \in 1..n
    BY <1>1
  <2>2. Max(1..n) \in 1..n /\ \A j \in 1..n : j <= Max(1..n)
    BY <1>1, <2>1, LargestPosition
  <2>3. Max(1..n) = n
    BY <1>1, <2>1, <2>2
  <2> QED
    BY <1>1, <2>1, <2>3
<1>7. DOMAIN r \ {n} = DOMAIN s
  BY <1>1
<1>8. g[DOMAIN r] = FoldStep(kind, g[DOMAIN r \ {Max(DOMAIN r)}], r[Max(DOMAIN r)])
  BY <1>3, <1>6 DEF Folds
<1> QED
  BY <1>1, <1>4, <1>5, <1>6, <1>7, <1>8 DEF r

\* Each loop of the model is the fold with its step.
LEMMA JoinLoop ==
  ASSUME NEW E, NEW s \in Seq(E)
  PROVE  Join(s) = Loop("join", <<>>, s)
<1> DEFINE g == CHOOSE f : f = [t \in SUBSET DOMAIN s |->
                  IF t = {} THEN <<>>
                  ELSE IF f[t \ {Max(t)}] = <<>> THEN s[Max(t)]
                       ELSE f[t \ {Max(t)}] \o <<Space>> \o s[Max(t)]]
<1>1. Join(s) = g[DOMAIN s]
  BY DEF Join, FoldLeft, MapThenFoldSet
<1>2. \A f : f = [t \in SUBSET DOMAIN s |->
                  IF t = {} THEN <<>>
                  ELSE IF f[t \ {Max(t)}] = <<>> THEN s[Max(t)]
                       ELSE f[t \ {Max(t)}] \o <<Space>> \o s[Max(t)]]
             <=> Folds(f, "join", <<>>, s)
  BY DEF Folds, FoldStep
<1>3. \E f : Folds(f, "join", <<>>, s)
  BY FoldExists
<1>4. Folds(g, "join", <<>>, s)
  BY <1>2, <1>3
<1> HIDE DEF g
<1>5. Loop("join", <<>>, s) = g[DOMAIN s]
  BY <1>4, LoopValue
<1> QED
  BY <1>1, <1>5

LEMMA NewSentenceLoop ==
  ASSUME NEW E, NEW s \in Seq(E)
  PROVE  NewSentence(s) = Loop("attach", <<>>, s)
<1> DEFINE g == CHOOSE f : f = [t \in SUBSET DOMAIN s |->
                  IF t = {} THEN <<>>
                  ELSE AttachWord(f[t \ {Max(t)}], s[Max(t)])]
<1>1. NewSentence(s) = g[DOMAIN s]
  BY DEF NewSentence, FoldLeft, MapThenFoldSet
<1>2. \A f : f = [t \in SUBSET DOMAIN s |->
                  IF t = {} THEN <<>>
                  ELSE AttachWord(f[t \ {Max(t)}], s[Max(t)])]
             <=> Folds(f, "attach", <<>>, s)
  BY DEF Folds, FoldStep
<1>3. \E f : Folds(f, "attach", <<>>, s)
  BY FoldExists
<1>4. Folds(g, "attach", <<>>, s)
  BY <1>2, <1>3
<1> HIDE DEF g
<1>5. Loop("attach", <<>>, s) = g[DOMAIN s]
  BY <1>4, LoopValue
<1> QED
  BY <1>1, <1>5

LEMMA ScanWordLoop ==
  ASSUME NEW E, NEW base, NEW s \in Seq(E)
  PROVE  FoldLeft(ScanWord, base, s) = Loop("word", base, s)
<1> DEFINE g == CHOOSE f : f = [t \in SUBSET DOMAIN s |->
                  IF t = {} THEN base
                  ELSE ScanWord(f[t \ {Max(t)}], s[Max(t)])]
<1>1. FoldLeft(ScanWord, base, s) = g[DOMAIN s]
  BY DEF FoldLeft, MapThenFoldSet
<1>2. \A f : f = [t \in SUBSET DOMAIN s |->
                  IF t = {} THEN base
                  ELSE ScanWord(f[t \ {Max(t)}], s[Max(t)])]
             <=> Folds(f, "word", base, s)
  BY DEF Folds, FoldStep
<1>3. \E f : Folds(f, "word", base, s)
  BY FoldExists
<1>4. Folds(g, "word", base, s)
  BY <1>2, <1>3
<1> HIDE DEF g
<1>5. Loop("word", base, s) = g[DOMAIN s]
  BY <1>4, LoopValue
<1> QED
  BY <1>1, <1>5

LEMMA ScanSentenceLoop ==
  ASSUME NEW E, NEW base, NEW s \in Seq(E)
  PROVE  FoldLeft(ScanSentence, base, s) = Loop("sentence", base, s)
<1> DEFINE g == CHOOSE f : f = [t \in SUBSET DOMAIN s |->
                  IF t = {} THEN base
                  ELSE ScanSentence(f[t \ {Max(t)}], s[Max(t)])]
<1>1. FoldLeft(ScanSentence, base, s) = g[DOMAIN s]
  BY DEF FoldLeft, MapThenFoldSet
<1>2. \A f : f = [t \in SUBSET DOMAIN s |->
                  IF t = {} THEN base
                  ELSE ScanSentence(f[t \ {Max(t)}], s[Max(t)])]
             <=> Folds(f, "sentence", base, s)
  BY DEF Folds, FoldStep
<1>3. \E f : Folds(f, "sentence", base, s)
  BY FoldExists
<1>4. Folds(g, "sentence", base, s)
  BY <1>2, <1>3
<1> HIDE DEF g
<1>5. Loop("sentence", base, s) = g[DOMAIN s]
  BY <1>4, LoopValue
<1> QED
  BY <1>1, <1>5

LEMMA LettersLoop ==
  ASSUME NEW E, NEW s \in Seq(E)
  PROVE  Letters(s) = Loop("letters", <<>>, s)
<1> DEFINE g == CHOOSE f : f = [t \in SUBSET DOMAIN s |->
                  IF t = {} THEN <<>>
                  ELSE IF s[Max(t)] \in Atom THEN Append(f[t \ {Max(t)}], s[Max(t)]) ELSE f[t \ {Max(t)}]]
<1>1. Letters(s) = g[DOMAIN s]
  BY DEF Letters, FoldLeft, MapThenFoldSet
<1>2. \A f : f = [t \in SUBSET DOMAIN s |->
                  IF t = {} THEN <<>>
                  ELSE IF s[Max(t)] \in Atom THEN Append(f[t \ {Max(t)}], s[Max(t)]) ELSE f[t \ {Max(t)}]]
             <=> Folds(f, "letters", <<>>, s)
  BY DEF Folds, FoldStep
<1>3. \E f : Folds(f, "letters", <<>>, s)
  BY FoldExists
<1>4. Folds(g, "letters", <<>>, s)
  BY <1>2, <1>3
<1> HIDE DEF g
<1>5. Loop("letters", <<>>, s) = g[DOMAIN s]
  BY <1>4, LoopValue
<1> QED
  BY <1>1, <1>5

LEMMA WalkLoop ==
  ASSUME NEW E, NEW a, NEW s \in Seq(E)
  PROVE  IsSubsequence(a, s) <=> Loop("walk", a, s) = <<>>
<1> DEFINE g == CHOOSE f : f = [t \in SUBSET DOMAIN s |->
                  IF t = {} THEN a
                  ELSE IF f[t \ {Max(t)}] # <<>> /\ Head(f[t \ {Max(t)}]) = s[Max(t)]
                         THEN Tail(f[t \ {Max(t)}]) ELSE f[t \ {Max(t)}]]
<1>1. IsSubsequence(a, s) <=> g[DOMAIN s] = <<>>
  BY DEF IsSubsequence, FoldLeft, MapThenFoldSet
<1>2. \A f : f = [t \in SUBSET DOMAIN s |->
                  IF t = {} THEN a
                  ELSE IF f[t \ {Max(t)}] # <<>> /\ Head(f[t \ {Max(t)}]) = s[Max(t)]
                         THEN Tail(f[t \ {Max(t)}]) ELSE f[t \ {Max(t)}]]
             <=> Folds(f, "walk", a, s)
  BY DEF Folds, FoldStep
<1>3. \E f : Folds(f, "walk", a, s)
  BY FoldExists
<1>4. Folds(g, "walk", a, s)
  BY <1>2, <1>3
<1> HIDE DEF g
<1>5. Loop("walk", a, s) = g[DOMAIN s]
  BY <1>4, LoopValue
<1> QED
  BY <1>1, <1>5

-----------------------------------------------------------------------------
(* Folds over sequences put together                                        *)

LEMMA AppendFacts ==
  ASSUME NEW E, NEW a \in Seq(E), NEW x \in E
  PROVE  /\ Append(a, x) \in Seq(E) /\ Len(Append(a, x)) = Len(a) + 1
         /\ DOMAIN Append(a, x) = 1..(Len(a) + 1)
         /\ Append(a, x)[Len(a) + 1] = x
         /\ \A i \in 1..Len(a) : Append(a, x)[i] = a[i]
         /\ Append(a, x) # <<>>
OBVIOUS

LEMMA ConcatOne ==
  ASSUME NEW E, NEW a \in Seq(E), NEW x \in E
  PROVE  a \o <<x>> = Append(a, x) /\ <<x>> \in Seq(E)
<1>1. <<x>> \in Seq(E) /\ Len(<<x>>) = 1 /\ <<x>>[1] = x
  OBVIOUS
<1>2. /\ a \o <<x>> \in Seq(E) /\ Len(a \o <<x>>) = Len(a) + 1
      /\ \A i \in 1..(Len(a) + 1) : (a \o <<x>>)[i] = IF i <= Len(a) THEN a[i] ELSE <<x>>[i - Len(a)]
  BY <1>1, ConcatProperties
<1>3. /\ Append(a, x) \in Seq(E) /\ Len(Append(a, x)) = Len(a) + 1 /\ Len(a) \in Nat
      /\ Append(a, x)[Len(a) + 1] = x
      /\ \A i \in 1..Len(a) : Append(a, x)[i] = a[i]
  OBVIOUS
<1>4. ASSUME NEW i \in 1..(Len(a) + 1)
      PROVE  (a \o <<x>>)[i] = Append(a, x)[i]
  BY <1>1, <1>2, <1>3
<1> QED
  BY <1>1, <1>2, <1>3, <1>4, SeqEqual

LEMMA ConcatAppend ==
  ASSUME NEW E, NEW a \in Seq(E), NEW c \in Seq(E), NEW x \in E
  PROVE  a \o Append(c, x) = Append(a \o c, x)
<1>1. <<x>> \in Seq(E) /\ c \o <<x>> = Append(c, x)
  BY ConcatOne
<1>2. a \o c \in Seq(E)
  OBVIOUS
<1>3. (a \o c) \o <<x>> = Append(a \o c, x)
  BY <1>2, ConcatOne
<1>4. (a \o c) \o <<x>> = a \o (c \o <<x>>)
  BY <1>1, ConcatAssociative
<1> QED
  BY <1>1, <1>3, <1>4

LEMMA LettersGrouped == \A u, v, w \in Seq(Atom) : (u \o v) \o w = u \o (v \o w)
BY ConcatAssociative

LEMMA LoopOne ==
  ASSUME NEW kind, NEW base, NEW x
  PROVE  Loop(kind, base, <<x>>) = FoldStep(kind, base, x)
<1>1. <<>> \in Seq({x}) /\ x \in {x} /\ Append(<<>>, x) = <<x>>
  OBVIOUS
<1>2. \A s \in Seq({x}), y \in {x} :
        Loop(kind, base, Append(s, y)) = FoldStep(kind, Loop(kind, base, s), y)
  BY LoopAppend
<1> QED
  BY <1>1, <1>2, LoopEmpty

\* A fold over two sequences goes on over the second from where the first left it.
LEMMA LoopConcat ==
  ASSUME NEW E, NEW kind, NEW base, NEW a \in Seq(E), NEW c \in Seq(E)
  PROVE  Loop(kind, base, a \o c) = Loop(kind, Loop(kind, base, a), c)
<1> DEFINE S == {d \in Seq(E) : Loop(kind, base, a \o d) = Loop(kind, Loop(kind, base, a), d)}
<1>1. <<>> \in S
  <2>1. a \o <<>> = a /\ <<>> \in Seq(E)
    BY ConcatEmptySeq
  <2> QED
    BY <2>1, LoopEmpty
<1>2. ASSUME NEW d \in Seq(E), NEW x \in E, d \in S
      PROVE  Append(d, x) \in S
  <2>1. a \o Append(d, x) = Append(a \o d, x) /\ a \o d \in Seq(E) /\ Append(d, x) \in Seq(E)
    BY ConcatAppend
  <2>2. \A s \in Seq(E) : Loop(kind, base, Append(s, x)) = FoldStep(kind, Loop(kind, base, s), x)
    BY LoopAppend
  <2>3. Loop(kind, Loop(kind, base, a), Append(d, x))
          = FoldStep(kind, Loop(kind, Loop(kind, base, a), d), x)
    BY LoopAppend
  <2> QED
    BY <1>2, <2>1, <2>2, <2>3
<1> HIDE DEF S
<1>3. \A d \in Seq(E) : d \in S
  BY <1>1, <1>2, SequenceInduction
<1> QED
  BY <1>3 DEF S

LEMMA LoopConcatTwice ==
  ASSUME NEW E, NEW kind, NEW base, NEW a \in Seq(E), NEW c \in Seq(E), NEW d \in Seq(E)
  PROVE  Loop(kind, base, (a \o c) \o d) = Loop(kind, Loop(kind, Loop(kind, base, a), c), d)
<1> DEFINE ac == a \o c
<1>1. ac \in Seq(E) /\ Loop(kind, base, ac) = Loop(kind, Loop(kind, base, a), c)
  BY LoopConcat
<1> HIDE DEF ac
<1>2. Loop(kind, base, ac \o d) = Loop(kind, Loop(kind, base, ac), d)
  BY <1>1, LoopConcat
<1> QED
  BY <1>1, <1>2 DEF ac

-----------------------------------------------------------------------------
(* Words as strings                                                         *)

Char == Atom \cup {Space, Dot}

\* Words that strtok can yield.
WordToken == {t \in Token : t.atoms = <<>> => t.delim}

Strings(c) == [i \in DOMAIN c |-> AsString(c[i])]

Scan(done, cur) == [done |-> done, cur |-> cur]

LEMMA CharFacts ==
  /\ Space \in Char /\ Dot \in Char /\ Space # Dot
  /\ \A x \in Atom : x \in Char /\ x # Space /\ x # Dot
BY CharAssumption DEF Char

LEMMA AsStringFacts ==
  ASSUME NEW t \in WordToken
  PROVE  /\ AsString(t) \in Seq(Char) /\ AsString(t) # <<>>
         /\ t.atoms \in Seq(Atom) /\ t.atoms \in Seq(Char) /\ t.delim \in BOOLEAN
         /\ t.delim => AsString(t) = Append(t.atoms, Dot)
         /\ ~t.delim => AsString(t) = t.atoms
<1>1. t.atoms \in Seq(Atom) /\ t.delim \in BOOLEAN /\ (t.atoms = <<>> => t.delim)
  BY DEF WordToken, Token
<1>2. t.atoms \in Seq(Char)
  <2>1. Atom \subseteq Char
    BY DEF Char
  <2> QED
    BY <1>1, <2>1, SeqMonotonic
<1>3. CASE t.delim
  <2>1. AsString(t) = t.atoms \o <<Dot>>
    BY <1>3 DEF AsString
  <2>2. t.atoms \o <<Dot>> = Append(t.atoms, Dot)
    BY <1>2, CharFacts, ConcatOne
  <2>3. Append(t.atoms, Dot) \in Seq(Char) /\ Append(t.atoms, Dot) # <<>>
    BY <1>2, CharFacts, AppendFacts
  <2> QED
    BY <1>1, <1>2, <1>3, <2>1, <2>2, <2>3
<1>4. CASE ~t.delim
  <2>1. AsString(t) = t.atoms \o <<>>
    BY <1>4 DEF AsString
  <2>2. t.atoms \o <<>> = t.atoms
    BY <1>2, ConcatEmptySeq
  <2> QED
    BY <1>1, <1>2, <1>4, <2>1, <2>2
<1> QED
  BY <1>1, <1>3, <1>4

\* A word ends with a delimiter when its token says so.
LEMMA AsStringEnds ==
  ASSUME NEW t \in WordToken
  PROVE  EndsWithDelimiter(AsString(t)) <=> t.delim
<1> DEFINE s == AsString(t)
<1>1. /\ s \in Seq(Char) /\ s # <<>> /\ t.atoms \in Seq(Atom) /\ t.atoms \in Seq(Char)
      /\ t.delim \in BOOLEAN
      /\ t.delim => s = Append(t.atoms, Dot)
      /\ ~t.delim => s = t.atoms
  BY AsStringFacts
<1> HIDE DEF s
<1>2. CASE t.delim
  <2>1. s[Len(s)] = Dot
    BY <1>1, <1>2, CharFacts, AppendFacts
  <2> QED
    BY <1>1, <1>2, <2>1 DEF EndsWithDelimiter, IsDelimiter, s
<1>3. CASE ~t.delim
  <2>1. Len(s) \in 1..Len(s)
    BY <1>1
  <2>2. s[Len(s)] \in Atom
    BY <1>1, <1>3, <2>1, ElementOfSeq
  <2> QED
    BY <1>3, <2>2, CharFacts DEF EndsWithDelimiter, IsDelimiter, s
<1> QED
  BY <1>1, <1>2, <1>3

LEMMA StringsFacts ==
  ASSUME NEW c \in Seq(WordToken)
  PROVE  /\ Strings(c) \in Seq(Seq(Char)) /\ Len(Strings(c)) = Len(c)
         /\ \A i \in 1..Len(c) : Strings(c)[i] = AsString(c[i]) /\ c[i] \in WordToken
<1>1. Len(c) \in Nat /\ DOMAIN c = 1..Len(c) /\ \A i \in 1..Len(c) : c[i] \in WordToken
  OBVIOUS
<1>2. \A i \in 1..Len(c) : AsString(c[i]) \in Seq(Char)
  BY <1>1, AsStringFacts
<1>3. Strings(c) = [i \in 1..Len(c) |-> AsString(c[i])]
  BY <1>1 DEF Strings
<1>4. Strings(c) \in [1..Len(c) -> Seq(Char)]
  BY <1>2, <1>3
<1> QED
  BY <1>1, <1>3, <1>4

LEMMA StringsEmpty == Strings(<<>>) = <<>> /\ <<>> \in Seq(WordToken)
BY DEF Strings

LEMMA StringsAppend ==
  ASSUME NEW c \in Seq(WordToken), NEW t \in WordToken
  PROVE  Strings(Append(c, t)) = Append(Strings(c), AsString(t))
<1> DEFINE d == Append(c, t)
           a == Strings(d)
           b == Append(Strings(c), AsString(t))
<1>1. /\ d \in Seq(WordToken) /\ Len(d) = Len(c) + 1 /\ d[Len(c) + 1] = t
      /\ \A i \in 1..Len(c) : d[i] = c[i]
  BY AppendFacts
<1>2. AsString(t) \in Seq(Char)
  BY AsStringFacts
<1>3. Strings(c) \in Seq(Seq(Char)) /\ Len(Strings(c)) = Len(c)
      /\ \A i \in 1..Len(c) : Strings(c)[i] = AsString(c[i])
  BY StringsFacts
<1>4. /\ b \in Seq(Seq(Char)) /\ Len(b) = Len(c) + 1 /\ b[Len(c) + 1] = AsString(t)
      /\ \A i \in 1..Len(c) : b[i] = Strings(c)[i]
  BY <1>2, <1>3, AppendFacts
<1>5. /\ a \in Seq(Seq(Char)) /\ Len(a) = Len(d)
      /\ \A i \in 1..Len(d) : a[i] = AsString(d[i])
  BY <1>1, StringsFacts
<1> HIDE DEF a, b, d
<1>6. \A i \in 1..(Len(c) + 1) : a[i] = b[i]
  <2> TAKE i \in 1..(Len(c) + 1)
  <2>1. i \in 1..Len(c) \/ i = Len(c) + 1
    OBVIOUS
  <2> QED
    BY <1>1, <1>3, <1>4, <1>5, <2>1
<1>7. a = b
  BY <1>1, <1>4, <1>5, <1>6, SeqEqual
<1> QED
  BY <1>7 DEF a, b, d

-----------------------------------------------------------------------------
(* Joining words and splitting them again                                   *)

\* A run of letters goes to the end of the current word or sentence.
LEMMA LettersScanned ==
  ASSUME NEW done, NEW cur \in Seq(Char), NEW a \in Seq(Atom)
  PROVE  /\ Loop("word", Scan(done, cur), a) = Scan(done, cur \o a)
         /\ Loop("sentence", Scan(done, cur), a) = Scan(done, cur \o a)
<1> DEFINE S == {d \in Seq(Atom) : /\ Loop("word", Scan(done, cur), d) = Scan(done, cur \o d)
                                   /\ Loop("sentence", Scan(done, cur), d) = Scan(done, cur \o d)}
<1>1. <<>> \in S
  <2>1. cur \o <<>> = cur /\ <<>> \in Seq(Atom)
    BY ConcatEmptySeq
  <2> QED
    BY <2>1, LoopEmpty
<1>2. ASSUME NEW d \in Seq(Atom), NEW x \in Atom, d \in S
      PROVE  Append(d, x) \in S
  <2>1. Append(d, x) \in Seq(Atom)
    BY AppendFacts
  <2>2. d \in Seq(Char) /\ x \in Char /\ x # Space /\ x # Dot
    <3>1. Atom \subseteq Char
      BY DEF Char
    <3> QED
      BY <3>1, SeqMonotonic, CharFacts
  <2>3. cur \o Append(d, x) = Append(cur \o d, x)
    BY <2>2, ConcatAppend
  <2>4. \A kind, base : Loop(kind, base, Append(d, x)) = FoldStep(kind, Loop(kind, base, d), x)
    BY LoopAppend
  <2>5. FoldStep("word", Scan(done, cur \o d), x) = Scan(done, Append(cur \o d, x))
    BY <2>2 DEF FoldStep, ScanWord, Scan
  <2>6. FoldStep("sentence", Scan(done, cur \o d), x) = Scan(done, Append(cur \o d, x))
    BY <2>2 DEF FoldStep, ScanSentence, Scan, IsDelimiter
  <2> QED
    BY <1>2, <2>1, <2>3, <2>4, <2>5, <2>6
<1> HIDE DEF S
<1>3. \A d \in Seq(Atom) : d \in S
  BY <1>1, <1>2, SequenceInduction
<1> QED
  BY <1>3 DEF S

LEMMA WordScanned ==
  ASSUME NEW done, NEW t \in WordToken
  PROVE  Loop("word", Scan(done, <<>>), AsString(t)) = Scan(done, AsString(t))
<1>1. /\ t.atoms \in Seq(Atom) /\ t.atoms \in Seq(Char) /\ t.delim \in BOOLEAN
      /\ t.delim => AsString(t) = Append(t.atoms, Dot)
      /\ ~t.delim => AsString(t) = t.atoms
  BY AsStringFacts
<1>2. <<>> \in Seq(Char) /\ <<>> \o t.atoms = t.atoms
  BY <1>1, ConcatEmptySeq
<1>3. Loop("word", Scan(done, <<>>), t.atoms) = Scan(done, t.atoms)
  BY <1>1, <1>2, LettersScanned
<1>4. CASE t.delim
  <2>1. \A base : Loop("word", base, Append(t.atoms, Dot)) = FoldStep("word", Loop("word", base, t.atoms), Dot)
    BY <1>1, CharFacts, LoopAppend
  <2>2. FoldStep("word", Scan(done, t.atoms), Dot) = Scan(done, Append(t.atoms, Dot))
    BY CharFacts DEF FoldStep, ScanWord, Scan
  <2> QED
    BY <1>1, <1>3, <1>4, <2>1, <2>2
<1>5. CASE ~t.delim
  BY <1>1, <1>3, <1>5
<1> QED
  BY <1>1, <1>4, <1>5

\* One more word comes after a space.
LEMMA JoinAppend ==
  ASSUME NEW E, NEW s \in Seq(E), NEW w \in E
  PROVE  Join(Append(s, w)) = IF Join(s) = <<>> THEN w ELSE Join(s) \o <<Space>> \o w
<1>1. Append(s, w) \in Seq(E)
  BY AppendFacts
<1>2. Join(Append(s, w)) = Loop("join", <<>>, Append(s, w)) /\ Join(s) = Loop("join", <<>>, s)
  BY <1>1, JoinLoop
<1>3. Loop("join", <<>>, Append(s, w)) = FoldStep("join", Loop("join", <<>>, s), w)
  BY LoopAppend
<1> QED
  BY <1>2, <1>3 DEF FoldStep

LEMMA JoinEmpty == Join(<<>>) = <<>>
<1>1. \A s \in Seq({}) : Join(s) = Loop("join", <<>>, s)
  BY JoinLoop
<1>2. <<>> \in Seq({})
  OBVIOUS
<1> QED
  BY <1>1, <1>2, LoopEmpty

\* A joined array of words is a string, empty when the array is.
LEMMA JoinType ==
  ASSUME NEW c \in Seq(WordToken)
  PROVE  Join(Strings(c)) \in Seq(Char) /\ (Join(Strings(c)) = <<>> <=> c = <<>>)
<1> DEFINE S == {d \in Seq(WordToken) : /\ Join(Strings(d)) \in Seq(Char)
                                        /\ Join(Strings(d)) = <<>> <=> d = <<>>}
<1>1. <<>> \in S
  <2>1. <<>> \in Seq(Char)
    OBVIOUS
  <2> QED
    BY <2>1, StringsEmpty, JoinEmpty
<1>2. ASSUME NEW d \in Seq(WordToken), NEW t \in WordToken, d \in S
      PROVE  Append(d, t) \in S
  <2> DEFINE u == Join(Strings(d))
             w == AsString(t)
  <2>1. Append(d, t) \in Seq(WordToken) /\ Append(d, t) # <<>>
    BY AppendFacts
  <2>2. w \in Seq(Char) /\ w # <<>>
    BY AsStringFacts
  <2>3. Strings(d) \in Seq(Seq(Char)) /\ u \in Seq(Char)
    BY <1>2, StringsFacts
  <2>4. Join(Append(Strings(d), w)) = IF u = <<>> THEN w ELSE u \o <<Space>> \o w
    BY <2>2, <2>3, JoinAppend
  <2> HIDE DEF u, w
  <2>5. u \o <<Space>> \o w \in Seq(Char) /\ u \o <<Space>> \o w # <<>>
    <3>1. <<Space>> \in Seq(Char) /\ <<Space>> # <<>>
      BY CharFacts
    <3>2. u \o <<Space>> \in Seq(Char)
      BY <2>3, <3>1
    <3> QED
      BY <2>2, <3>2, ConcatEqualIffEmpty
  <2>6. Join(Strings(Append(d, t))) = Join(Append(Strings(d), w))
    BY StringsAppend DEF w
  <2> QED
    BY <2>1, <2>2, <2>4, <2>5, <2>6
<1> HIDE DEF S
<1>3. \A d \in Seq(WordToken) : d \in S
  BY <1>1, <1>2, SequenceInduction
<1> QED
  BY <1>3 DEF S

\* Scanning a joined array: every word but the last is finished.
LEMMA JoinScanned ==
  ASSUME NEW c \in Seq(WordToken), c # <<>>
  PROVE  \E f \in Seq(WordToken), t \in WordToken :
           /\ c = Append(f, t)
           /\ Loop("word", Scan(<<>>, <<>>), Join(Strings(c))) = Scan(Strings(f), AsString(t))
<1> DEFINE Done(d) == \E f \in Seq(WordToken), t \in WordToken :
             /\ d = Append(f, t)
             /\ Loop("word", Scan(<<>>, <<>>), Join(Strings(d))) = Scan(Strings(f), AsString(t))
           S == {d \in Seq(WordToken) : d # <<>> => Done(d)}
<1>1. <<>> \in S
  BY StringsEmpty
<1>2. ASSUME NEW d \in Seq(WordToken), NEW t \in WordToken, d \in S
      PROVE  Append(d, t) \in S
  <2> DEFINE u == Join(Strings(d))
             w == AsString(t)
  <2>1. Append(d, t) \in Seq(WordToken)
    BY AppendFacts
  <2>2. w \in Seq(Char) /\ w # <<>>
    BY AsStringFacts
  <2>3. Strings(d) \in Seq(Seq(Char)) /\ u \in Seq(Char) /\ (u = <<>> <=> d = <<>>)
    BY JoinType, StringsFacts
  <2>4. Join(Append(Strings(d), w)) = IF u = <<>> THEN w ELSE u \o <<Space>> \o w
    BY <2>2, <2>3, JoinAppend
  <2>5. Strings(Append(d, t)) = Append(Strings(d), w)
    BY StringsAppend
  <2>6. \A done : Loop("word", Scan(done, <<>>), w) = Scan(done, w)
    BY WordScanned
  <2> HIDE DEF u, w
  <2>7. CASE d = <<>>
    <3>1. Loop("word", Scan(<<>>, <<>>), Join(Strings(Append(d, t)))) = Scan(Strings(d), w)
      BY <2>3, <2>4, <2>5, <2>6, <2>7, StringsEmpty
    <3> QED
      BY <2>1, <3>1 DEF w
  <2>8. CASE d # <<>>
    <3>1. PICK f \in Seq(WordToken), q \in WordToken :
            /\ d = Append(f, q)
            /\ Loop("word", Scan(<<>>, <<>>), u) = Scan(Strings(f), AsString(q))
      BY <1>2, <2>8 DEF u
    <3> DEFINE p == AsString(q)
    <3>2. p # <<>> /\ Strings(d) = Append(Strings(f), p)
      BY <3>1, AsStringFacts, StringsAppend
    <3>3. <<Space>> \in Seq(Char) /\ u \o <<Space>> \in Seq(Char)
      BY <2>3, CharFacts
    <3> DEFINE gap == <<Space>>
               first == Scan(<<>>, <<>>)
    <3> HIDE DEF gap, first
    <3>4. gap \in Seq(Char)
      BY <3>3 DEF gap
    <3>5. Loop("word", first, (u \o gap) \o w)
            = Loop("word", Loop("word", Loop("word", first, u), gap), w)
      BY <2>2, <2>3, <3>4, LoopConcatTwice
    <3>6. \A base : Loop("word", base, <<Space>>) = FoldStep("word", base, Space)
      BY LoopOne
    <3> HIDE DEF p
    <3>7. FoldStep("word", Scan(Strings(f), p), Space) = Scan(Append(Strings(f), p), <<>>)
      BY <3>2 DEF FoldStep, ScanWord, Scan
    <3>8. Loop("word", Scan(<<>>, <<>>), u) = Scan(Strings(f), p)
      BY <3>1 DEF p
    <3>9. Loop("word", Scan(<<>>, <<>>), (u \o <<Space>>) \o w) = Scan(Strings(d), w)
      BY <2>6, <3>2, <3>5, <3>6, <3>7, <3>8 DEF gap, first
    <3>10. Join(Strings(Append(d, t))) = (u \o <<Space>>) \o w
      BY <2>3, <2>4, <2>5, <2>8
    <3> QED
      BY <2>1, <3>9, <3>10 DEF w
  <2> QED
    BY <2>7, <2>8
<1> HIDE DEF S
<1>3. \A d \in Seq(WordToken) : d \in S
  BY <1>1, <1>2, SequenceInduction
<1> QED
  BY <1>3 DEF S

\* strtok gets back the words that were joined.
LEMMA SplitJoin ==
  ASSUME NEW c \in Seq(WordToken)
  PROVE  SplitWords(Join(Strings(c))) = Strings(c)
<1> DEFINE s == Join(Strings(c))
           end == Loop("word", Scan(<<>>, <<>>), s)
<1>1. s \in Seq(Char) /\ (s = <<>> <=> c = <<>>)
  BY JoinType
<1>2. FoldLeft(ScanWord, Scan(<<>>, <<>>), s) = end
  BY <1>1, ScanWordLoop
<1>3. SplitWords(s) = IF end.cur = <<>> THEN end.done ELSE Append(end.done, end.cur)
  BY <1>2 DEF SplitWords, Scan
<1> HIDE DEF s, end
<1>4. CASE c = <<>>
  <2>1. end = Scan(<<>>, <<>>)
    BY <1>1, <1>4, LoopEmpty DEF end
  <2> QED
    BY <1>3, <1>4, <2>1, StringsEmpty DEF Scan, s
<1>5. CASE c # <<>>
  <2>1. PICK f \in Seq(WordToken), t \in WordToken :
          c = Append(f, t) /\ end = Scan(Strings(f), AsString(t))
    BY <1>5, JoinScanned DEF end, s
  <2>2. AsString(t) # <<>> /\ Strings(c) = Append(Strings(f), AsString(t))
    BY <2>1, AsStringFacts, StringsAppend
  <2> QED
    BY <1>3, <2>1, <2>2 DEF Scan, s
<1> QED
  BY <1>4, <1>5

-----------------------------------------------------------------------------
(* The letters of a string                                                  *)

LEMMA LettersAppend ==
  ASSUME NEW s \in Seq(Char), NEW x \in Char
  PROVE  Letters(Append(s, x)) = IF x \in Atom THEN Append(Letters(s), x) ELSE Letters(s)
<1>1. Append(s, x) \in Seq(Char)
  BY AppendFacts
<1>2. Letters(Append(s, x)) = Loop("letters", <<>>, Append(s, x)) /\ Letters(s) = Loop("letters", <<>>, s)
  BY <1>1, LettersLoop
<1>3. Loop("letters", <<>>, Append(s, x)) = FoldStep("letters", Loop("letters", <<>>, s), x)
  BY LoopAppend
<1> QED
  BY <1>2, <1>3 DEF FoldStep

LEMMA LettersEmpty == Letters(<<>>) = <<>>
<1>1. \A s \in Seq({}) : Letters(s) = Loop("letters", <<>>, s)
  BY LettersLoop
<1>2. <<>> \in Seq({})
  OBVIOUS
<1> QED
  BY <1>1, <1>2, LoopEmpty

LEMMA LettersType ==
  ASSUME NEW s \in Seq(Char)
  PROVE  Letters(s) \in Seq(Atom)
<1> DEFINE S == {d \in Seq(Char) : Letters(d) \in Seq(Atom)}
<1>1. <<>> \in S
  <2>1. <<>> \in Seq(Char) /\ <<>> \in Seq(Atom)
    OBVIOUS
  <2> QED
    BY <2>1, LettersEmpty
<1>2. ASSUME NEW d \in Seq(Char), NEW x \in Char, d \in S
      PROVE  Append(d, x) \in S
  <2>1. Append(d, x) \in Seq(Char)
    BY AppendFacts
  <2>2. x \in Atom => Append(Letters(d), x) \in Seq(Atom)
    BY <1>2, AppendFacts
  <2> QED
    BY <1>2, <2>1, <2>2, LettersAppend
<1> HIDE DEF S
<1>3. \A d \in Seq(Char) : d \in S
  BY <1>1, <1>2, SequenceInduction
<1> QED
  BY <1>3 DEF S

LEMMA LettersConcat ==
  ASSUME NEW a \in Seq(Char), NEW c \in Seq(Char)
  PROVE  Letters(a \o c) = Letters(a) \o Letters(c)
<1> DEFINE S == {d \in Seq(Char) : Letters(a \o d) = Letters(a) \o Letters(d)}
<1>0. Letters(a) \in Seq(Atom)
  BY LettersType
<1>1. <<>> \in S
  <2>1. a \o <<>> = a /\ Letters(a) \o <<>> = Letters(a) /\ <<>> \in Seq(Char)
    BY <1>0, ConcatEmptySeq
  <2> QED
    BY <2>1, LettersEmpty
<1>2. ASSUME NEW d \in Seq(Char), NEW x \in Char, d \in S
      PROVE  Append(d, x) \in S
  <2>1. Append(d, x) \in Seq(Char) /\ a \o d \in Seq(Char) /\ a \o Append(d, x) = Append(a \o d, x)
    BY ConcatAppend
  <2>2. Letters(Append(a \o d, x)) = IF x \in Atom THEN Append(Letters(a \o d), x) ELSE Letters(a \o d)
    BY <2>1, LettersAppend
  <2>3. Letters(Append(d, x)) = IF x \in Atom THEN Append(Letters(d), x) ELSE Letters(d)
    BY LettersAppend
  <2>4. x \in Atom => Letters(a) \o Append(Letters(d), x) = Append(Letters(a) \o Letters(d), x)
    BY <1>0, LettersType, ConcatAppend
  <2> QED
    BY <1>2, <2>1, <2>2, <2>3, <2>4
<1> HIDE DEF S
<1>3. \A d \in Seq(Char) : d \in S
  BY <1>1, <1>2, SequenceInduction
<1> QED
  BY <1>3 DEF S

LEMMA LettersOfAtoms ==
  ASSUME NEW a \in Seq(Atom)
  PROVE  Letters(a) = a
<1> DEFINE S == {d \in Seq(Atom) : Letters(d) = d}
<1>1. <<>> \in S
  BY LettersEmpty
<1>2. ASSUME NEW d \in Seq(Atom), NEW x \in Atom, d \in S
      PROVE  Append(d, x) \in S
  <2>1. Atom \subseteq Char
    BY DEF Char
  <2>2. d \in Seq(Char) /\ x \in Char /\ Append(d, x) \in Seq(Atom)
    BY <2>1, SeqMonotonic, AppendFacts
  <2> QED
    BY <1>2, <2>2, LettersAppend
<1> HIDE DEF S
<1>3. \A d \in Seq(Atom) : d \in S
  BY <1>1, <1>2, SequenceInduction
<1> QED
  BY <1>3 DEF S

LEMMA LettersOfWord ==
  ASSUME NEW t \in WordToken
  PROVE  Letters(AsString(t)) = t.atoms
<1>1. /\ t.atoms \in Seq(Atom) /\ t.atoms \in Seq(Char) /\ t.delim \in BOOLEAN
      /\ t.delim => AsString(t) = Append(t.atoms, Dot)
      /\ ~t.delim => AsString(t) = t.atoms
  BY AsStringFacts
<1>2. Dot \in Char /\ Dot \notin Atom
  BY CharFacts
<1>3. Letters(Append(t.atoms, Dot)) = Letters(t.atoms)
  BY <1>1, <1>2, LettersAppend
<1> QED
  BY <1>1, <1>3, LettersOfAtoms

LEMMA LettersOfSpace == Letters(<<Space>>) = <<>>
<1>1. <<>> \in Seq(Char) /\ Space \in Char /\ Space \notin Atom /\ Append(<<>>, Space) = <<Space>>
  BY CharFacts
<1>2. \A s \in Seq(Char) : Letters(Append(s, Space)) = Letters(s)
  BY <1>1, LettersAppend
<1> QED
  BY <1>1, <1>2, LettersEmpty

\* The letters of an array of words.
Spelled(c) == Letters(Join(Strings(c)))

\* A string with a space and a word after it has the letters of both.
LEMMA SpacedLetters ==
  ASSUME NEW u \in Seq(Char), NEW t \in WordToken
  PROVE  /\ u \o <<Space>> \o AsString(t) \in Seq(Char)
         /\ u \o <<Space>> \o AsString(t) # <<>>
         /\ Letters(u \o <<Space>> \o AsString(t)) = Letters(u) \o t.atoms
<1> DEFINE gap == <<Space>>
           v == u \o gap
           w == AsString(t)
<1>1. gap \in Seq(Char) /\ Letters(gap) = <<>>
  BY CharFacts, LettersOfSpace
<1>2. w \in Seq(Char) /\ w # <<>> /\ Letters(w) = t.atoms
  BY AsStringFacts, LettersOfWord
<1> HIDE DEF gap, w
<1>3. v \in Seq(Char) /\ Letters(v) = Letters(u) \o Letters(gap)
  <2>1. v \in Seq(Char)
    BY <1>1
  <2> QED
    BY <1>1, <2>1, LettersConcat
<1>4. Letters(u) \o <<>> = Letters(u)
  BY LettersType, ConcatEmptySeq
<1> HIDE DEF v
<1>5. Letters(v \o w) = Letters(v) \o Letters(w)
  BY <1>2, <1>3, LettersConcat
<1>6. v \o w \in Seq(Char) /\ v \o w # <<>>
  BY <1>2, <1>3, ConcatEqualIffEmpty
<1> QED
  BY <1>1, <1>2, <1>3, <1>4, <1>5, <1>6 DEF v, gap, w

LEMMA SpelledType ==
  ASSUME NEW c \in Seq(WordToken)
  PROVE  Spelled(c) \in Seq(Atom)
BY JoinType, LettersType DEF Spelled

LEMMA SpelledEmpty == Spelled(<<>>) = <<>>
BY StringsEmpty, JoinEmpty, LettersEmpty DEF Spelled

LEMMA SpelledAppend ==
  ASSUME NEW c \in Seq(WordToken), NEW t \in WordToken
  PROVE  Spelled(Append(c, t)) = Spelled(c) \o t.atoms
<1> DEFINE u == Join(Strings(c))
           w == AsString(t)
<1>1. u \in Seq(Char) /\ (u = <<>> <=> c = <<>>)
  BY JoinType
<1>2. Join(Strings(Append(c, t))) = IF u = <<>> THEN w ELSE u \o <<Space>> \o w
  <2>1. Strings(c) \in Seq(Seq(Char)) /\ w \in Seq(Char)
    BY StringsFacts, AsStringFacts
  <2>2. Strings(Append(c, t)) = Append(Strings(c), w)
    BY StringsAppend
  <2> HIDE DEF w
  <2>3. Join(Append(Strings(c), w)) = IF u = <<>> THEN w ELSE u \o <<Space>> \o w
    BY <2>1, JoinAppend
  <2> QED
    BY <2>2, <2>3
<1>3. Letters(u \o <<Space>> \o w) = Letters(u) \o t.atoms
  BY <1>1, SpacedLetters
<1>4. Letters(w) = t.atoms /\ t.atoms \in Seq(Atom)
  BY LettersOfWord, AsStringFacts
<1> HIDE DEF u, w
<1>5. CASE u = <<>>
  <2>1. Letters(u) = <<>> /\ <<>> \o t.atoms = t.atoms
    BY <1>4, <1>5, LettersEmpty, ConcatEmptySeq
  <2> QED
    BY <1>2, <1>4, <1>5, <2>1 DEF Spelled, u
<1>6. CASE u # <<>>
  BY <1>2, <1>3, <1>6 DEF Spelled, u
<1> QED
  BY <1>5, <1>6

LEMMA SpelledOne ==
  ASSUME NEW t \in WordToken
  PROVE  Spelled(<<t>>) = t.atoms
<1>1. \A c \in Seq(WordToken) : Spelled(Append(c, t)) = Spelled(c) \o t.atoms
  BY SpelledAppend
<1>2. <<>> \in Seq(WordToken) /\ Append(<<>>, t) = <<t>>
  OBVIOUS
<1>3. t.atoms \in Seq(Atom) /\ <<>> \o t.atoms = t.atoms
  BY AsStringFacts, ConcatEmptySeq
<1> QED
  BY <1>1, <1>2, <1>3, SpelledEmpty

LEMMA SpelledConcat ==
  ASSUME NEW a \in Seq(WordToken), NEW c \in Seq(WordToken)
  PROVE  Spelled(a \o c) = Spelled(a) \o Spelled(c)
<1> DEFINE S == {d \in Seq(WordToken) : Spelled(a \o d) = Spelled(a) \o Spelled(d)}
<1>0. Spelled(a) \in Seq(Atom)
  BY SpelledType
<1>1. <<>> \in S
  <2>1. a \o <<>> = a /\ Spelled(a) \o <<>> = Spelled(a) /\ <<>> \in Seq(WordToken)
    BY <1>0, ConcatEmptySeq
  <2> QED
    BY <2>1, SpelledEmpty
<1>2. ASSUME NEW d \in Seq(WordToken), NEW t \in WordToken, d \in S
      PROVE  Append(d, t) \in S
  <2>1. Append(d, t) \in Seq(WordToken) /\ a \o d \in Seq(WordToken) /\ a \o Append(d, t) = Append(a \o d, t)
    BY ConcatAppend
  <2>2. \A b \in Seq(WordToken) : Spelled(Append(b, t)) = Spelled(b) \o t.atoms
    BY SpelledAppend
  <2>3. (Spelled(a) \o Spelled(d)) \o t.atoms = Spelled(a) \o (Spelled(d) \o t.atoms)
    <3>1. Spelled(d) \in Seq(Atom) /\ t.atoms \in Seq(Atom)
      BY SpelledType, AsStringFacts
    <3>2. \A x, y, z \in Seq(Atom) : (x \o y) \o z = x \o (y \o z)
      BY LettersGrouped, Zenon
    <3> QED
      BY <1>0, <3>1, <3>2, Zenon
  <2> QED
    BY <1>2, <2>1, <2>2, <2>3
<1> HIDE DEF S
<1>3. \A d \in Seq(WordToken) : d \in S
  BY <1>1, <1>2, SequenceInduction
<1> QED
  BY <1>3 DEF S

\* The sentence that is built has the letters of its words.
LEMMA BuiltAppend ==
  ASSUME NEW E, NEW s \in Seq(E), NEW w \in E
  PROVE  NewSentence(Append(s, w)) = AttachWord(NewSentence(s), w)
<1>1. Append(s, w) \in Seq(E)
  BY AppendFacts
<1>2. NewSentence(Append(s, w)) = Loop("attach", <<>>, Append(s, w)) /\ NewSentence(s) = Loop("attach", <<>>, s)
  BY <1>1, NewSentenceLoop
<1>3. Loop("attach", <<>>, Append(s, w)) = FoldStep("attach", Loop("attach", <<>>, s), w)
  BY LoopAppend
<1> QED
  BY <1>2, <1>3 DEF FoldStep

LEMMA BuiltEmpty == NewSentence(<<>>) = <<>>
<1>1. \A s \in Seq({}) : NewSentence(s) = Loop("attach", <<>>, s)
  BY NewSentenceLoop
<1>2. <<>> \in Seq({})
  OBVIOUS
<1> QED
  BY <1>1, <1>2, LoopEmpty

LEMMA BuiltLetters ==
  ASSUME NEW c \in Seq(WordToken)
  PROVE  /\ NewSentence(Strings(c)) \in Seq(Char)
         /\ NewSentence(Strings(c)) = <<>> <=> c = <<>>
         /\ Letters(NewSentence(Strings(c))) = Spelled(c)
<1> DEFINE Right(d) == /\ NewSentence(Strings(d)) \in Seq(Char)
                       /\ NewSentence(Strings(d)) = <<>> <=> d = <<>>
                       /\ Letters(NewSentence(Strings(d))) = Spelled(d)
           S == {d \in Seq(WordToken) : Right(d)}
<1>1. <<>> \in S
  <2>1. <<>> \in Seq(Char)
    OBVIOUS
  <2> QED
    BY <2>1, StringsEmpty, BuiltEmpty, LettersEmpty, SpelledEmpty
<1>2. ASSUME NEW d \in Seq(WordToken), NEW t \in WordToken, d \in S
      PROVE  Append(d, t) \in S
  <2> DEFINE u == NewSentence(Strings(d))
             w == AsString(t)
  <2>1. Append(d, t) \in Seq(WordToken) /\ Append(d, t) # <<>>
    BY AppendFacts
  <2>2. w \in Seq(Char) /\ w # <<>> /\ Letters(w) = t.atoms /\ t.atoms \in Seq(Atom)
    BY AsStringFacts, LettersOfWord
  <2>3. Strings(d) \in Seq(Seq(Char)) /\ u \in Seq(Char) /\ (u = <<>> <=> d = <<>>)
        /\ Letters(u) = Spelled(d)
    BY <1>2, StringsFacts
  <2>4. NewSentence(Strings(Append(d, t))) = AttachWord(u, w)
    <3>1. Strings(Append(d, t)) = Append(Strings(d), w)
      BY StringsAppend
    <3> HIDE DEF w
    <3>2. NewSentence(Append(Strings(d), w)) = AttachWord(u, w)
      BY <2>2, <2>3, BuiltAppend
    <3> QED
      BY <3>1, <3>2
  <2>5. Spelled(Append(d, t)) = Spelled(d) \o t.atoms
    BY SpelledAppend
  <2>6. /\ u \o <<Space>> \o w \in Seq(Char)
        /\ u \o <<Space>> \o w # <<>>
        /\ Letters(u \o <<Space>> \o w) = Letters(u) \o t.atoms
    BY <2>3, SpacedLetters
  <2>7. u \o w \in Seq(Char) /\ u \o w # <<>> /\ Letters(u \o w) = Letters(u) \o t.atoms
    <3> HIDE DEF u, w
    <3>1. u \o w \in Seq(Char) /\ u \o w # <<>>
      BY <2>2, <2>3, ConcatEqualIffEmpty
    <3>2. Letters(u \o w) = Letters(u) \o Letters(w)
      BY <2>2, <2>3, LettersConcat
    <3> QED
      BY <2>2, <3>1, <3>2
  <2>8. u = <<>> => Letters(w) = Spelled(d) \o t.atoms
    BY <2>2, <2>3, SpelledEmpty, ConcatEmptySeq
  <2> HIDE DEF u, w
  <2>9. (AttachWord(u, w) = w /\ u = <<>>) \/ AttachWord(u, w) = u \o w \/ AttachWord(u, w) = u \o <<Space>> \o w
    BY DEF AttachWord
  <2>10. Right(Append(d, t))
    BY <2>1, <2>2, <2>3, <2>4, <2>5, <2>6, <2>7, <2>8, <2>9
  <2> QED
    BY <2>1, <2>10
<1> HIDE DEF S
<1>3. \A d \in Seq(WordToken) : d \in S
  BY <1>1, <1>2, SequenceInduction
<1> QED
  BY <1>3 DEF S

-----------------------------------------------------------------------------
(* Counting a letter                                                        *)

LEMMA CountType ==
  ASSUME NEW E, NEW s \in Seq(E), NEW ch
  PROVE  CountOf(s, ch) \in Nat
<1>1. Len(s) \in Nat /\ {i \in DOMAIN s : s[i] = ch} \in SUBSET (1..Len(s))
  OBVIOUS
<1>2. IsFiniteSet(1..Len(s))
  BY <1>1, FS_Interval
<1> QED
  BY <1>1, <1>2, FS_Subset, FS_CardinalityType DEF CountOf

LEMMA CountEmpty == \A ch : CountOf(<<>>, ch) = 0
<1> TAKE ch
<1>1. {i \in DOMAIN <<>> : <<>>[i] = ch} = {}
  OBVIOUS
<1> QED
  BY <1>1, FS_EmptySet DEF CountOf

LEMMA CountAppend ==
  ASSUME NEW E, NEW s \in Seq(E), NEW x \in E, NEW ch
  PROVE  CountOf(Append(s, x), ch) = CountOf(s, ch) + (IF x = ch THEN 1 ELSE 0)
<1> DEFINE n == Len(s) + 1
           r == Append(s, x)
           Old == {i \in DOMAIN s : s[i] = ch}
           New == {i \in DOMAIN r : r[i] = ch}
<1>1. n \in Nat /\ DOMAIN s = 1..Len(s) /\ DOMAIN r = 1..n /\ r[n] = x /\ Len(s) \in Nat
      /\ (\A i \in 1..Len(s) : r[i] = s[i])
  OBVIOUS
<1>2. IsFiniteSet(Old) /\ Cardinality(Old) \in Nat
  <2>1. Old \in SUBSET (1..Len(s))
    BY <1>1
  <2>2. IsFiniteSet(1..Len(s))
    BY <1>1, FS_Interval
  <2> QED
    BY <2>1, <2>2, FS_Subset, FS_CardinalityType
<1>3. n \notin Old
  BY <1>1
<1> HIDE DEF r
<1>4. CASE x = ch
  <2>1. New = Old \cup {n}
    BY <1>1, <1>4
  <2> HIDE DEF Old, New
  <2>2. Cardinality(New) = Cardinality(Old) + 1
    BY <1>2, <1>3, <2>1, FS_AddElement
  <2> QED
    BY <1>4, <2>2 DEF CountOf, Old, New, r
<1>5. CASE x # ch
  <2>1. New = Old
    BY <1>1, <1>5
  <2>2. CountOf(r, ch) = CountOf(s, ch)
    BY <2>1 DEF CountOf
  <2>3. CountOf(s, ch) \in Nat
    BY CountType
  <2> QED
    BY <1>5, <2>2, <2>3 DEF r
<1> QED
  BY <1>4, <1>5

LEMMA CountConcat ==
  ASSUME NEW E, NEW a \in Seq(E), NEW c \in Seq(E), NEW ch
  PROVE  CountOf(a \o c, ch) = CountOf(a, ch) + CountOf(c, ch)
<1> DEFINE S == {d \in Seq(E) : CountOf(a \o d, ch) = CountOf(a, ch) + CountOf(d, ch)}
<1>0. CountOf(a, ch) \in Nat
  BY CountType
<1>1. <<>> \in S
  <2>1. a \o <<>> = a /\ <<>> \in Seq(E)
    BY ConcatEmptySeq
  <2> QED
    BY <1>0, <2>1, CountEmpty
<1>2. ASSUME NEW d \in Seq(E), NEW x \in E, d \in S
      PROVE  Append(d, x) \in S
  <2>1. Append(d, x) \in Seq(E) /\ a \o d \in Seq(E) /\ a \o Append(d, x) = Append(a \o d, x)
    BY ConcatAppend
  <2>2. \A s \in Seq(E) : /\ CountOf(Append(s, x), ch) = CountOf(s, ch) + (IF x = ch THEN 1 ELSE 0)
                          /\ CountOf(s, ch) \in Nat
    BY CountAppend, CountType
  <2>3. CountOf(Append(a \o d, x), ch) = CountOf(a \o d, ch) + (IF x = ch THEN 1 ELSE 0)
    BY <2>1, <2>2
  <2>4. CountOf(Append(d, x), ch) = CountOf(d, ch) + (IF x = ch THEN 1 ELSE 0)
        /\ CountOf(d, ch) \in Nat
    BY <2>2
  <2>5. CountOf(a \o d, ch) = CountOf(a, ch) + CountOf(d, ch)
    BY <1>2
  <2>6. CountOf(a \o Append(d, x), ch) = CountOf(a, ch) + CountOf(Append(d, x), ch)
    BY <1>0, <2>1, <2>3, <2>4, <2>5
  <2> QED
    BY <2>1, <2>6
<1> HIDE DEF S
<1>3. \A d \in Seq(E) : d \in S
  BY <1>1, <1>2, SequenceInduction
<1> QED
  BY <1>3 DEF S

\* Spaces and delimiters do not count.
LEMMA CountLetters ==
  ASSUME NEW s \in Seq(Char), NEW ch \in Atom
  PROVE  CountOf(s, ch) = CountOf(Letters(s), ch)
<1> DEFINE S == {d \in Seq(Char) : CountOf(d, ch) = CountOf(Letters(d), ch)}
<1>1. <<>> \in S
  <2>1. <<>> \in Seq(Char)
    OBVIOUS
  <2> QED
    BY <2>1, LettersEmpty
<1>2. ASSUME NEW d \in Seq(Char), NEW x \in Char, d \in S
      PROVE  Append(d, x) \in S
  <2>1. Append(d, x) \in Seq(Char) /\ Letters(d) \in Seq(Atom)
    BY LettersType, AppendFacts
  <2>2. /\ CountOf(Append(d, x), ch) = CountOf(d, ch) + (IF x = ch THEN 1 ELSE 0)
        /\ CountOf(d, ch) \in Nat
    BY CountAppend, CountType
  <2>3. x \in Atom => CountOf(Append(Letters(d), x), ch) = CountOf(Letters(d), ch) + (IF x = ch THEN 1 ELSE 0)
    BY <2>1, CountAppend
  <2>4. Letters(Append(d, x)) = IF x \in Atom THEN Append(Letters(d), x) ELSE Letters(d)
    BY LettersAppend
  <2>5. CASE x \in Atom
    BY <1>2, <2>1, <2>2, <2>3, <2>4, <2>5
  <2>6. CASE x \notin Atom
    BY <1>2, <2>1, <2>2, <2>4, <2>6
  <2> QED
    BY <2>5, <2>6
<1> HIDE DEF S
<1>3. \A d \in Seq(Char) : d \in S
  BY <1>1, <1>2, SequenceInduction
<1> QED
  BY <1>3 DEF S

-----------------------------------------------------------------------------
(* An accepted word on strings and on tokens                                *)

\* The word and its delimiter with another word in between.
Merged(q, t) == [atoms |-> q.atoms \o t.atoms, delim |-> TRUE]

LEMMA MergedFacts ==
  ASSUME NEW q \in WordToken, NEW t \in WordToken
  PROVE  Merged(q, t) \in WordToken
<1>1. q.atoms \in Seq(Atom) /\ t.atoms \in Seq(Atom)
  BY AsStringFacts
<1>2. q.atoms \o t.atoms \in Seq(Atom)
  BY <1>1
<1> QED
  BY <1>2 DEF WordToken, Token, Merged

LEMMA PrefixFacts ==
  ASSUME NEW E, NEW s \in Seq(E), NEW n \in 0..Len(s)
  PROVE  SubSeq(s, 1, n) \in Seq(E) /\ Len(SubSeq(s, 1, n)) = n
         /\ \A i \in 1..n : SubSeq(s, 1, n)[i] = s[i]
<1>1. Len(s) \in Nat /\ \A i \in 1..n : s[i] \in E
  BY ElementOfSeq
<1>2. /\ SubSeq(s, 1, n) \in Seq(E)
      /\ Len(SubSeq(s, 1, n)) = IF 1 <= n THEN n - 1 + 1 ELSE 0
      /\ \A i \in 1..(n - 1 + 1) : SubSeq(s, 1, n)[i] = s[1 + i - 1]
  BY <1>1, SubSeqProperties
<1> QED
  BY <1>1, <1>2

LEMMA SuffixFacts ==
  ASSUME NEW E, NEW s \in Seq(E), NEW n \in 0..Len(s)
  PROVE  SubSeq(s, n + 1, Len(s)) \in Seq(E) /\ Len(SubSeq(s, n + 1, Len(s))) = Len(s) - n
         /\ \A i \in 1..(Len(s) - n) : SubSeq(s, n + 1, Len(s))[i] = s[n + i]
<1>1. Len(s) \in Nat /\ \A i \in (n + 1)..Len(s) : s[i] \in E
  BY ElementOfSeq
<1>2. /\ SubSeq(s, n + 1, Len(s)) \in Seq(E)
      /\ Len(SubSeq(s, n + 1, Len(s))) = IF n + 1 <= Len(s) THEN Len(s) - (n + 1) + 1 ELSE 0
      /\ \A i \in 1..(Len(s) - (n + 1) + 1) : SubSeq(s, n + 1, Len(s))[i] = s[n + 1 + i - 1]
  BY <1>1, SubSeqProperties
<1> QED
  BY <1>1, <1>2

\* A sequence is what it has up to a position and what comes after it.
LEMMA SplitAt ==
  ASSUME NEW E, NEW s \in Seq(E), NEW n \in 0..Len(s)
  PROVE  s = SubSeq(s, 1, n) \o SubSeq(s, n + 1, Len(s))
<1> DEFINE h == SubSeq(s, 1, n)
           r == SubSeq(s, n + 1, Len(s))
<1>1. /\ h \in Seq(E) /\ Len(h) = n /\ \A i \in 1..n : h[i] = s[i]
      /\ r \in Seq(E) /\ Len(r) = Len(s) - n /\ \A i \in 1..(Len(s) - n) : r[i] = s[n + i]
  BY PrefixFacts, SuffixFacts
<1> HIDE DEF h, r
<1>2. /\ h \o r \in Seq(E) /\ Len(h \o r) = Len(h) + Len(r)
      /\ \A i \in 1..(Len(h) + Len(r)) : (h \o r)[i] = IF i <= Len(h) THEN h[i] ELSE r[i - Len(h)]
  BY <1>1, ConcatProperties
<1>3. Len(s) \in Nat
  OBVIOUS
<1>4. ASSUME NEW i \in 1..Len(s)
      PROVE  s[i] = (h \o r)[i]
  <2>1. CASE i <= n
    BY <1>1, <1>2, <1>3, <2>1
  <2>2. CASE ~(i <= n)
    <3>1. (h \o r)[i] = r[i - n]
      BY <1>1, <1>2, <1>3, <2>2
    <3>2. r[i - n] = s[n + (i - n)]
      BY <1>1, <1>3, <2>2
    <3> QED
      BY <1>3, <3>1, <3>2
  <2> QED
    BY <2>1, <2>2
<1>5. Len(h \o r) = Len(s)
  BY <1>1, <1>2, <1>3
<1>6. s = h \o r
  BY <1>2, <1>4, <1>5, SeqEqual
<1> QED
  BY <1>6 DEF h, r

\* A sequence around one of its elements, and with another in its place.
Around(E, s, q, h, r) ==
  /\ h \in Seq(E) /\ r \in Seq(E) /\ Len(h) = q - 1
  /\ s = (h \o <<s[q]>>) \o r
  /\ \A x \in E : [s EXCEPT ![q] = x] = (h \o <<x>>) \o r

LEMMA AroundElement ==
  ASSUME NEW E, NEW s \in Seq(E), NEW q \in 1..Len(s)
  PROVE  \E h, r : Around(E, s, q, h, r)
<1> DEFINE h == SubSeq(s, 1, q - 1)
           r == SubSeq(s, q + 1, Len(s))
<1>1. /\ h \in Seq(E) /\ Len(h) = q - 1 /\ \A i \in 1..(q - 1) : h[i] = s[i]
      /\ r \in Seq(E) /\ Len(r) = Len(s) - q /\ \A i \in 1..(Len(s) - q) : r[i] = s[q + i]
  <2>1. q - 1 \in 0..Len(s) /\ q \in 0..Len(s)
    OBVIOUS
  <2> QED
    BY <2>1, PrefixFacts, SuffixFacts
<1> HIDE DEF h, r
<1>2. Len(s) \in Nat /\ s[q] \in E
  BY ElementOfSeq
<1>3. ASSUME NEW d \in Seq(E), Len(d) = Len(s), \A i \in 1..Len(s) : i # q => d[i] = s[i]
      PROVE  d = (h \o <<d[q]>>) \o r
  <2>1. d[q] \in E
    BY <1>3, ElementOfSeq
  <2> DEFINE f == Append(h, d[q])
  <2>2. f \in Seq(E) /\ Len(f) = q /\ f[q] = d[q] /\ (\A i \in 1..(q - 1) : f[i] = h[i])
    BY <1>1, <2>1, AppendFacts
  <2>3. f = h \o <<d[q]>>
    BY <1>1, <2>1, ConcatOne
  <2> HIDE DEF f
  <2>4. /\ f \o r \in Seq(E) /\ Len(f \o r) = Len(f) + Len(r)
        /\ \A i \in 1..(Len(f) + Len(r)) : (f \o r)[i] = IF i <= Len(f) THEN f[i] ELSE r[i - Len(f)]
    BY <1>1, <2>2, ConcatProperties, ZenonT(40)
  <2>5. ASSUME NEW i \in 1..Len(s)
        PROVE  d[i] = (f \o r)[i]
    <3>1. CASE i < q
      <4>1. (f \o r)[i] = f[i]
        BY <1>1, <1>2, <2>2, <2>4, <3>1
      <4>2. f[i] = h[i] /\ h[i] = s[i]
        BY <1>1, <1>2, <2>2, <3>1
      <4>3. d[i] = s[i]
        BY <1>3, <3>1
      <4> QED
        BY <4>1, <4>2, <4>3
    <3>2. CASE i = q
      <4>1. (f \o r)[i] = f[i]
        BY <1>1, <1>2, <2>2, <2>4, <3>2
      <4> QED
        BY <2>2, <3>2, <4>1
    <3>3. CASE i > q
      <4>1. (f \o r)[i] = r[i - q]
        BY <1>1, <1>2, <2>2, <2>4, <3>3
      <4>2. r[i - q] = s[q + (i - q)] /\ q + (i - q) = i
        BY <1>1, <1>2, <3>3
      <4> QED
        BY <1>3, <3>3, <4>1, <4>2
    <3>4. i < q \/ i = q \/ i > q
      BY <1>2
    <3> QED
      BY <3>1, <3>2, <3>3, <3>4
  <2>6. Len(f \o r) = Len(d)
    BY <1>1, <1>2, <1>3, <2>2, <2>4
  <2>7. d = f \o r
    BY <1>3, <2>4, <2>5, <2>6, SeqEqual
  <2> QED
    BY <2>3, <2>7
<1>4. s = (h \o <<s[q]>>) \o r
  BY <1>3
<1>5. ASSUME NEW x \in E
      PROVE  [s EXCEPT ![q] = x] = (h \o <<x>>) \o r
  <2> DEFINE e == [s EXCEPT ![q] = x]
  <2>1. e \in Seq(E) /\ Len(e) = Len(s) /\ \A i \in 1..Len(s) : e[i] = IF i = q THEN x ELSE s[i]
    BY ExceptSeq
  <2> HIDE DEF e
  <2>2. e = (h \o <<e[q]>>) \o r /\ e[q] = x
    BY <1>3, <2>1
  <2> QED
    BY <2>2 DEF e
<1>6. Around(E, s, q, h, r)
  BY <1>1, <1>4, <1>5 DEF Around
<1> QED
  BY <1>6

\* An accepted word comes between two parts of the array, or into a word that a
\* delimiter closes.
LEMMA InsertSplit ==
  ASSUME NEW c \in Seq(WordToken), NEW p \in 1..(Len(c) + 1), NEW t \in WordToken,
         Representable(c, p, t)
  PROVE  \E h, r \in Seq(WordToken) :
           \/ /\ c = h \o r
              /\ InsertWord(c, p, t) = (h \o <<t>>) \o r
           \/ \E q \in WordToken :
                /\ c = (h \o <<q>>) \o r
                /\ InsertWord(c, p, t) = (h \o <<Merged(q, t)>>) \o r
<1>1. Len(c) \in Nat
  OBVIOUS
<1>2. CASE MergesInMiddle(c, p) \/ MergesAtEnd(c, p, t)
  <2> DEFINE k == p - 1
  <2>1. k \in 1..Len(c)
    BY <1>1, <1>2 DEF MergesInMiddle, MergesAtEnd
  <2>2. c[k] \in WordToken
    BY <2>1, ElementOfSeq
  <2>3. Merged(c[k], t) \in WordToken
    BY <2>2, MergedFacts
  <2>4. InsertWord(c, p, t) = [c EXCEPT ![k] = Merged(c[k], t)]
    BY <1>2 DEF InsertWord, MergeInto, Merged
  <2> HIDE DEF k
  <2>5. PICK h, r : Around(WordToken, c, k, h, r)
    BY <2>1, AroundElement
  <2>6. InsertWord(c, p, t) = (h \o <<Merged(c[k], t)>>) \o r
    BY <2>3, <2>4, <2>5 DEF Around
  <2> QED
    BY <2>2, <2>5, <2>6, ZenonT(40) DEF Around
<1>3. CASE ~(MergesInMiddle(c, p) \/ MergesAtEnd(c, p, t))
  <2> DEFINE k == p - 1
  <2>1. k \in 0..Len(c) /\ k + 1 = p
    BY <1>1
  <2>2. InsertWord(c, p, t) = (SubSeq(c, 1, k) \o <<t>>) \o SubSeq(c, k + 1, Len(c))
    BY <1>3, <2>1 DEF InsertWord, InsertAtPosition
  <2> HIDE DEF k
  <2>3. /\ SubSeq(c, 1, k) \in Seq(WordToken) /\ SubSeq(c, k + 1, Len(c)) \in Seq(WordToken)
        /\ c = SubSeq(c, 1, k) \o SubSeq(c, k + 1, Len(c))
    BY <2>1, PrefixFacts, SuffixFacts, SplitAt
  <2> QED
    BY <2>2, <2>3
<1> QED
  BY <1>2, <1>3

LEMMA InsertType ==
  ASSUME NEW c \in Seq(WordToken), NEW p \in 1..(Len(c) + 1), NEW t \in WordToken,
         Representable(c, p, t)
  PROVE  InsertWord(c, p, t) \in Seq(WordToken)
<1>1. PICK h, r \in Seq(WordToken) :
         \/ InsertWord(c, p, t) = (h \o <<t>>) \o r
         \/ \E q \in WordToken : InsertWord(c, p, t) = (h \o <<Merged(q, t)>>) \o r
  BY InsertSplit
<1>2. ASSUME NEW x \in WordToken
      PROVE  (h \o <<x>>) \o r \in Seq(WordToken)
  <2>1. <<x>> \in Seq(WordToken)
    OBVIOUS
  <2>2. h \o <<x>> \in Seq(WordToken)
    BY <2>1
  <2> QED
    BY <2>2
<1> QED
  BY <1>1, <1>2, MergedFacts

\* What the strings of a part, of two arrays put together and of an array with
\* one word replaced are.
LEMMA StringsPrefix ==
  ASSUME NEW c \in Seq(WordToken), NEW n \in 0..Len(c)
  PROVE  Strings(SubSeq(c, 1, n)) = SubSeq(Strings(c), 1, n)
<1> DEFINE d == SubSeq(c, 1, n)
           ws == Strings(c)
           a == SubSeq(ws, 1, n)
           b == Strings(d)
<1>1. d \in Seq(WordToken) /\ Len(d) = n /\ \A i \in 1..n : d[i] = c[i]
  BY PrefixFacts
<1>2. ws \in Seq(Seq(Char)) /\ Len(ws) = Len(c) /\ \A i \in 1..Len(c) : ws[i] = AsString(c[i])
  BY StringsFacts
<1>3. b \in Seq(Seq(Char)) /\ Len(b) = Len(d) /\ \A i \in 1..Len(d) : b[i] = AsString(d[i])
  BY <1>1, StringsFacts
<1> HIDE DEF ws
<1>4. a \in Seq(Seq(Char)) /\ Len(a) = n /\ \A i \in 1..n : a[i] = ws[i]
  BY <1>2, PrefixFacts
<1> HIDE DEF d, a, b
<1>5. \A i \in 1..n : b[i] = a[i]
  <2> TAKE i \in 1..n
  <2>1. i \in 1..Len(c) /\ i \in 1..Len(d)
    BY <1>1
  <2> QED
    BY <1>1, <1>2, <1>3, <1>4, <2>1
<1>6. b = a
  BY <1>1, <1>3, <1>4, <1>5, SeqEqual
<1> QED
  BY <1>6 DEF a, b, d, ws

LEMMA StringsSuffix ==
  ASSUME NEW c \in Seq(WordToken), NEW n \in 0..Len(c)
  PROVE  Strings(SubSeq(c, n + 1, Len(c))) = SubSeq(Strings(c), n + 1, Len(c))
<1> DEFINE d == SubSeq(c, n + 1, Len(c))
           ws == Strings(c)
           a == SubSeq(ws, n + 1, Len(ws))
           b == Strings(d)
           m == Len(c) - n
<1>1. d \in Seq(WordToken) /\ Len(d) = m /\ \A i \in 1..m : d[i] = c[n + i]
  BY SuffixFacts
<1>2. ws \in Seq(Seq(Char)) /\ Len(ws) = Len(c) /\ \A i \in 1..Len(c) : ws[i] = AsString(c[i])
  BY StringsFacts
<1>3. b \in Seq(Seq(Char)) /\ Len(b) = Len(d) /\ \A i \in 1..Len(d) : b[i] = AsString(d[i])
  BY <1>1, StringsFacts
<1> HIDE DEF ws
<1>4. a \in Seq(Seq(Char)) /\ Len(a) = m /\ \A i \in 1..m : a[i] = ws[n + i]
  <2>1. n \in 0..Len(ws)
    BY <1>2
  <2>2. /\ a \in Seq(Seq(Char)) /\ Len(a) = Len(ws) - n
        /\ \A i \in 1..(Len(ws) - n) : a[i] = ws[n + i]
    BY <1>2, <2>1, SuffixFacts
  <2> QED
    BY <1>2, <2>2
<1>5. \A i \in 1..m : n + i \in 1..Len(c)
  OBVIOUS
<1> HIDE DEF d, a, b, m
<1>6. \A i \in 1..m : b[i] = a[i]
  BY <1>1, <1>2, <1>3, <1>4, <1>5
<1>7. b = a
  BY <1>1, <1>3, <1>4, <1>6, SeqEqual
<1> QED
  BY <1>2, <1>7 DEF a, b, d, ws

LEMMA StringsConcat ==
  ASSUME NEW a \in Seq(WordToken), NEW c \in Seq(WordToken)
  PROVE  Strings(a \o c) = Strings(a) \o Strings(c)
<1> DEFINE S == {d \in Seq(WordToken) : Strings(a \o d) = Strings(a) \o Strings(d)}
<1>0. Strings(a) \in Seq(Seq(Char))
  BY StringsFacts
<1>1. <<>> \in S
  <2>1. a \o <<>> = a /\ Strings(a) \o <<>> = Strings(a) /\ <<>> \in Seq(WordToken)
    BY <1>0, ConcatEmptySeq
  <2> QED
    BY <2>1, StringsEmpty
<1>2. ASSUME NEW d \in Seq(WordToken), NEW t \in WordToken, d \in S
      PROVE  Append(d, t) \in S
  <2>1. Append(d, t) \in Seq(WordToken) /\ a \o d \in Seq(WordToken) /\ a \o Append(d, t) = Append(a \o d, t)
    BY ConcatAppend
  <2>2. \A b \in Seq(WordToken) : Strings(Append(b, t)) = Append(Strings(b), AsString(t))
    BY StringsAppend
  <2>3. Strings(a) \o Append(Strings(d), AsString(t)) = Append(Strings(a) \o Strings(d), AsString(t))
    <3>1. Strings(d) \in Seq(Seq(Char)) /\ AsString(t) \in Seq(Char)
      BY StringsFacts, AsStringFacts
    <3> QED
      BY <1>0, <3>1, ConcatAppend
  <2> QED
    BY <1>2, <2>1, <2>2, <2>3
<1> HIDE DEF S
<1>3. \A d \in Seq(WordToken) : d \in S
  BY <1>1, <1>2, SequenceInduction
<1> QED
  BY <1>3 DEF S

LEMMA StringsExcept ==
  ASSUME NEW c \in Seq(WordToken), NEW k \in 1..Len(c), NEW t \in WordToken
  PROVE  Strings([c EXCEPT ![k] = t]) = [Strings(c) EXCEPT ![k] = AsString(t)]
<1> DEFINE d == [c EXCEPT ![k] = t]
           ws == Strings(c)
           w == AsString(t)
           a == [ws EXCEPT ![k] = w]
           b == Strings(d)
<1>1. d \in Seq(WordToken) /\ Len(d) = Len(c) /\ \A i \in 1..Len(c) : d[i] = IF i = k THEN t ELSE c[i]
  BY ExceptSeq
<1>2. ws \in Seq(Seq(Char)) /\ Len(ws) = Len(c) /\ \A i \in 1..Len(c) : ws[i] = AsString(c[i])
  BY StringsFacts
<1>3. b \in Seq(Seq(Char)) /\ Len(b) = Len(d) /\ \A i \in 1..Len(d) : b[i] = AsString(d[i])
  BY <1>1, StringsFacts
<1>4. w \in Seq(Char)
  BY AsStringFacts
<1> HIDE DEF ws, w
<1>5. a \in Seq(Seq(Char)) /\ Len(a) = Len(c) /\ \A i \in 1..Len(c) : a[i] = IF i = k THEN w ELSE ws[i]
  BY <1>2, <1>4, ExceptSeq
<1> HIDE DEF d, a, b
<1>6. \A i \in 1..Len(c) : b[i] = a[i]
  BY <1>1, <1>2, <1>3, <1>5 DEF w
<1>7. b = a
  BY <1>1, <1>3, <1>5, <1>6, SeqEqual
<1> QED
  BY <1>7 DEF a, b, d, ws, w

\* The string code puts the word before the delimiter.
LEMMA GlueIsMerge ==
  ASSUME NEW q \in WordToken, NEW t \in WordToken, q.delim, ~t.delim
  PROVE  GlueBefore(AsString(q), AsString(t)) = AsString(Merged(q, t))
<1> DEFINE s == AsString(q)
<1>1. /\ s = Append(q.atoms, Dot) /\ q.atoms \in Seq(Char) /\ AsString(t) = t.atoms
  BY AsStringFacts
<1>2. Front(s) = q.atoms /\ Last(s) = Dot
  <2>1. /\ s \in Seq(Char) /\ Len(s) = Len(q.atoms) + 1 /\ s[Len(q.atoms) + 1] = Dot
        /\ Len(q.atoms) \in Nat
        /\ \A i \in 1..Len(q.atoms) : s[i] = q.atoms[i]
    BY <1>1, CharFacts, AppendFacts
  <2> DEFINE n == Len(q.atoms)
             f == SubSeq(s, 1, n)
  <2> HIDE DEF s
  <2>2. n \in 0..Len(s)
    BY <2>1
  <2>3. f \in Seq(Char) /\ Len(f) = n /\ \A i \in 1..n : f[i] = s[i]
    BY <2>1, <2>2, PrefixFacts
  <2> HIDE DEF f
  <2>4. f = q.atoms
    BY <1>1, <2>1, <2>3, SeqEqual
  <2>5. Len(s) - 1 = n
    BY <2>1
  <2> QED
    BY <2>1, <2>4, <2>5 DEF Front, Last, f
<1>3. AsString(Merged(q, t)) = (q.atoms \o t.atoms) \o <<Dot>>
  BY DEF AsString, Merged
<1> QED
  BY <1>1, <1>2, <1>3 DEF GlueBefore

\* handle_write_file's insertion on strings is the insertion on tokens.
LEMMA EditStrings ==
  ASSUME NEW c \in Seq(WordToken), NEW p \in 1..(Len(c) + 1), NEW t \in WordToken,
         Representable(c, p, t)
  PROVE  InsertString(Strings(c), p - 1, AsString(t)) = Strings(InsertWord(c, p, t))
<1> DEFINE ws == Strings(c)
           w == AsString(t)
           k == p - 1
<1>1. /\ ws \in Seq(Seq(Char)) /\ Len(ws) = Len(c) /\ Len(c) \in Nat
      /\ \A i \in 1..Len(c) : ws[i] = AsString(c[i]) /\ c[i] \in WordToken
  BY StringsFacts
<1>2. k \in 0..Len(c) /\ k + 1 = p
  OBVIOUS
<1>3. ASSUME k > 0
      PROVE  /\ k \in 1..Len(c) /\ c[k] \in WordToken /\ ws[k] = AsString(c[k])
             /\ EndsWithDelimiter(ws[k]) <=> c[k].delim
             /\ c[k].delim \in BOOLEAN /\ t.delim \in BOOLEAN
  <2>1. k \in 1..Len(c)
    BY <1>2, <1>3
  <2>2. c[k] \in WordToken /\ ws[k] = AsString(c[k])
    BY <1>1, <2>1
  <2> QED
    BY <2>1, <2>2, AsStringEnds, AsStringFacts
<1>4. ASSUME k > 0, c[k].delim, ~t.delim
      PROVE  [ws EXCEPT ![k] = GlueBefore(ws[k], w)] = Strings(MergeInto(c, k, t))
  <2>1. GlueBefore(ws[k], w) = AsString(Merged(c[k], t)) /\ Merged(c[k], t) \in WordToken
    BY <1>3, <1>4, GlueIsMerge, MergedFacts
  <2>2. Strings([c EXCEPT ![k] = Merged(c[k], t)]) = [ws EXCEPT ![k] = AsString(Merged(c[k], t))]
    BY <1>3, <1>4, <2>1, StringsExcept
  <2> QED
    BY <2>1, <2>2 DEF MergeInto, Merged
<1>5. Strings(InsertAtPosition(c, p, t)) = (SubSeq(ws, 1, k) \o <<w>>) \o SubSeq(ws, k + 1, Len(ws))
  <2> DEFINE h == SubSeq(c, 1, k)
             r == SubSeq(c, k + 1, Len(c))
  <2>1. h \in Seq(WordToken) /\ r \in Seq(WordToken)
    BY <1>2, PrefixFacts, SuffixFacts
  <2>2. Strings(h) = SubSeq(ws, 1, k) /\ Strings(r) = SubSeq(ws, k + 1, Len(c))
    BY <1>2, StringsPrefix, StringsSuffix
  <2>3. InsertAtPosition(c, p, t) = (h \o <<t>>) \o r
    BY <1>2 DEF InsertAtPosition
  <2> HIDE DEF h, r
  <2>4. h \o <<t>> = Append(h, t) /\ Append(h, t) \in Seq(WordToken)
    BY <2>1, ConcatOne, AppendFacts
  <2>5. Strings(Append(h, t) \o r) = Strings(Append(h, t)) \o Strings(r)
    BY <2>1, <2>4, StringsConcat
  <2>6. Strings(Append(h, t)) = Append(Strings(h), w)
    BY <2>1, StringsAppend
  <2>7. Append(Strings(h), w) = Strings(h) \o <<w>>
    <3>1. Strings(h) \in Seq(Seq(Char)) /\ w \in Seq(Char)
      BY <2>1, StringsFacts, AsStringFacts
    <3> HIDE DEF w
    <3> QED
      BY <3>1, ConcatOne
  <2> QED
    BY <1>1, <2>2, <2>3, <2>4, <2>5, <2>6, <2>7
<1> HIDE DEF ws, w, k
<1>6. CASE p <= Len(c)
  <2>1. InsertString(ws, k, w) = InsertInMiddle(ws, k, w)
    BY <1>1, <1>2, <1>6 DEF InsertString
  <2>2. ~MergesAtEnd(c, p, t) /\ (MergesInMiddle(c, p) <=> k > 0 /\ c[k].delim)
    BY <1>1, <1>2, <1>6 DEF MergesAtEnd, MergesInMiddle, k
  <2>3. CASE MergesInMiddle(c, p)
    <3>1. ~t.delim /\ k > 0 /\ c[k].delim
      BY <2>2, <2>3 DEF Representable
    <3>2. InsertInMiddle(ws, k, w) = [ws EXCEPT ![k] = GlueBefore(ws[k], w)]
      BY <1>3, <3>1 DEF InsertInMiddle
    <3>3. InsertWord(c, p, t) = MergeInto(c, k, t)
      BY <2>3 DEF InsertWord, k
    <3> QED
      BY <1>4, <2>1, <3>1, <3>2, <3>3 DEF ws, w, k
  <2>4. CASE ~MergesInMiddle(c, p)
    <3>1. InsertInMiddle(ws, k, w) = (SubSeq(ws, 1, k) \o <<w>>) \o SubSeq(ws, k + 1, Len(ws))
      BY <1>3, <2>2, <2>4 DEF InsertInMiddle
    <3>2. InsertWord(c, p, t) = InsertAtPosition(c, p, t)
      BY <2>2, <2>4 DEF InsertWord
    <3> QED
      BY <1>5, <2>1, <3>1, <3>2 DEF ws, w, k
  <2> QED
    BY <2>3, <2>4
<1>7. CASE p = Len(c) + 1
  <2>1. InsertString(ws, k, w) = AppendWord(ws, w) /\ k = Len(ws)
    BY <1>1, <1>2, <1>7 DEF InsertString
  <2>2. ~MergesInMiddle(c, p)
        /\ (MergesAtEnd(c, p, t) <=> k > 0 /\ c[k].delim /\ ~Standalone(c[k]) /\ ~t.delim)
    BY <1>1, <1>2, <1>7 DEF MergesAtEnd, MergesInMiddle, k
  <2>3. EndsWithDelimiter(w) <=> t.delim
    BY AsStringEnds DEF w
  <2>4. ws # <<>> <=> k > 0
    BY <1>1, <2>1
  <2>5. ASSUME k > 0, c[k].delim
        PROVE  Len(ws[k]) > 1 <=> ~Standalone(c[k])
    <3>1. c[k] \in WordToken /\ ws[k] = AsString(c[k])
      BY <1>3, <2>5
    <3>2. ws[k] = Append(c[k].atoms, Dot) /\ c[k].atoms \in Seq(Char)
      BY <2>5, <3>1, AsStringFacts
    <3>3. Len(ws[k]) = Len(c[k].atoms) + 1 /\ Len(c[k].atoms) \in Nat
          /\ (c[k].atoms = <<>> <=> Len(c[k].atoms) = 0)
      BY <3>2, CharFacts, AppendFacts
    <3> QED
      BY <2>5, <3>3 DEF Standalone
  <2>6. CASE MergesAtEnd(c, p, t)
    <3>1. k > 0 /\ c[k].delim /\ ~Standalone(c[k]) /\ ~t.delim
      BY <2>2, <2>6
    <3>2. AppendWord(ws, w) = [ws EXCEPT ![k] = GlueBefore(ws[k], w)]
      BY <1>3, <2>1, <2>3, <2>4, <2>5, <3>1 DEF AppendWord
    <3>3. InsertWord(c, p, t) = MergeInto(c, k, t)
      BY <2>6 DEF InsertWord, k
    <3> QED
      BY <1>4, <2>1, <3>1, <3>2, <3>3 DEF ws, w, k
  <2>7. CASE ~MergesAtEnd(c, p, t)
    <3>1. AppendWord(ws, w) = Append(ws, w)
      BY <1>3, <2>1, <2>2, <2>3, <2>4, <2>5, <2>7 DEF AppendWord
    <3>2. InsertWord(c, p, t) = InsertAtPosition(c, p, t)
      BY <2>2, <2>7 DEF InsertWord
    <3>3. Append(ws, w) = (SubSeq(ws, 1, k) \o <<w>>) \o SubSeq(ws, k + 1, Len(ws))
      <4>1. w \in Seq(Char)
        BY AsStringFacts DEF w
      <4>2. SubSeq(ws, 1, k) = ws
        BY <1>1, <2>1, SubSeqFull
      <4>3. SubSeq(ws, k + 1, Len(ws)) = <<>>
        BY <1>1, <1>2, <2>1, SubSeqEmpty
      <4>4. ws \o <<w>> = Append(ws, w) /\ Append(ws, w) \in Seq(Seq(Char))
        BY <1>1, <4>1, ConcatOne, AppendFacts
      <4>5. Append(ws, w) \o <<>> = Append(ws, w)
        BY <4>4, ConcatEmptySeq
      <4> QED
        BY <4>2, <4>3, <4>4, <4>5
    <3> QED
      BY <1>5, <2>1, <3>1, <3>2, <3>3 DEF ws, w, k
  <2> QED
    BY <2>6, <2>7
<1>8. p <= Len(c) \/ p = Len(c) + 1
  BY <1>1
<1> QED
  BY <1>6, <1>7, <1>8

-----------------------------------------------------------------------------
(* A walk over a sequence finds every sequence it is made from              *)

LEMMA HeadOfConcat ==
  ASSUME NEW E, NEW x \in E, NEW z \in Seq(E)
  PROVE  /\ <<x>> \o z \in Seq(E) /\ <<x>> \o z # <<>>
         /\ Head(<<x>> \o z) = x /\ Tail(<<x>> \o z) = z
<1> DEFINE one == <<x>>
           s == one \o z
<1>1. one \in Seq(E) /\ Len(one) = 1 /\ one[1] = x
  OBVIOUS
<1> HIDE DEF one
<1>2. /\ s \in Seq(E) /\ Len(s) = Len(one) + Len(z)
      /\ \A i \in 1..(Len(one) + Len(z)) : s[i] = IF i <= Len(one) THEN one[i] ELSE z[i - Len(one)]
  BY <1>1, ConcatProperties
<1> HIDE DEF s
<1>3. Len(z) \in Nat /\ Len(s) = Len(z) + 1 /\ s[1] = x
  BY <1>1, <1>2
<1>4. s # <<>>
  BY <1>2, <1>3
<1>5. Head(s) = x
  BY <1>3, <1>4
<1>6. Tail(s) \in Seq(E) /\ Len(Tail(s)) = Len(s) - 1
      /\ \A i \in 1..Len(Tail(s)) : Tail(s)[i] = s[i + 1]
  BY <1>2, <1>4, HeadTailProperties
<1>7. ASSUME NEW i \in 1..Len(z)
      PROVE  s[i + 1] = z[i]
  <2>1. i + 1 \in 1..(Len(one) + Len(z)) /\ ~(i + 1 <= Len(one)) /\ (i + 1) - Len(one) = i
    BY <1>1, <1>3
  <2> QED
    BY <1>2, <2>1
<1>8. Len(Tail(s)) = Len(z) /\ \A i \in 1..Len(Tail(s)) : Tail(s)[i] = z[i]
  BY <1>3, <1>6, <1>7
<1>9. Tail(s) = z
  BY <1>6, <1>8, SeqEqual
<1> QED
  BY <1>2, <1>4, <1>5, <1>9 DEF s, one

\* Walking over a prefix takes it off.
LEMMA WalkPrefix ==
  ASSUME NEW a \in Seq(Atom)
  PROVE  \A z \in Seq(Atom) : Loop("walk", a \o z, a) = z
<1> DEFINE S == {d \in Seq(Atom) : \A z \in Seq(Atom) : Loop("walk", d \o z, d) = z}
<1>1. <<>> \in S
  <2>1. <<>> \in Seq(Atom)
    OBVIOUS
  <2>2. \A z \in Seq(Atom) : <<>> \o z = z
    BY ConcatEmptySeq
  <2> QED
    BY <2>1, <2>2, LoopEmpty
<1>2. ASSUME NEW d \in Seq(Atom), NEW x \in Atom, d \in S
      PROVE  Append(d, x) \in S
  <2>1. Append(d, x) \in Seq(Atom)
    BY AppendFacts
  <2>2. ASSUME NEW z \in Seq(Atom)
        PROVE  Loop("walk", Append(d, x) \o z, Append(d, x)) = z
    <3> DEFINE one == <<x>>
               rest == one \o z
               b == Append(d, x) \o z
    <3>1. /\ rest \in Seq(Atom) /\ rest # <<>> /\ Head(rest) = x /\ Tail(rest) = z
      BY HeadOfConcat
    <3>2. d \o one = Append(d, x) /\ one \in Seq(Atom)
      BY ConcatOne
    <3> HIDE DEF one
    <3>3. (d \o one) \o z = d \o (one \o z)
      BY <3>2, LettersGrouped, Zenon
    <3>4. b = d \o rest
      BY <3>2, <3>3
    <3> HIDE DEF rest, b
    <3>5. Loop("walk", b, d) = rest
      BY <1>2, <3>1, <3>4
    <3>6. Loop("walk", b, Append(d, x)) = FoldStep("walk", Loop("walk", b, d), x)
      BY LoopAppend
    <3>7. FoldStep("walk", rest, x) = z
      BY <3>1 DEF FoldStep
    <3> QED
      BY <3>5, <3>6, <3>7 DEF b
  <2> QED
    BY <2>1, <2>2
<1> HIDE DEF S
<1>3. \A d \in Seq(Atom) : d \in S
  BY <1>1, <1>2, SequenceInduction
<1> QED
  BY <1>3 DEF S

\* What is left after a walk is the end of what there was.
EndOf(r, s) == r \in Seq(Atom) /\ \E u \in Seq(Atom) : s = u \o r

LEMMA WalkSuffix ==
  ASSUME NEW w \in Seq(Atom), NEW v \in Seq(Atom)
  PROVE  EndOf(Loop("walk", w, v), w)
<1> DEFINE S == {d \in Seq(Atom) : EndOf(Loop("walk", w, d), w)}
<1>1. <<>> \in S
  <2>1. <<>> \in Seq(Atom) /\ w = <<>> \o w
    BY ConcatEmptySeq
  <2>2. EndOf(w, w)
    BY <2>1 DEF EndOf
  <2> QED
    BY <2>1, <2>2, LoopEmpty
<1>2. ASSUME NEW d \in Seq(Atom), NEW x \in Atom, d \in S
      PROVE  Append(d, x) \in S
  <2> DEFINE r == Loop("walk", w, d)
  <2>1. Append(d, x) \in Seq(Atom)
    BY AppendFacts
  <2>2. PICK u \in Seq(Atom) : r \in Seq(Atom) /\ w = u \o r
    BY <1>2 DEF EndOf
  <2>3. Loop("walk", w, Append(d, x)) = FoldStep("walk", r, x)
    BY LoopAppend
  <2> HIDE DEF r
  <2>4. CASE r # <<>> /\ Head(r) = x
    <3>1. FoldStep("walk", r, x) = Tail(r)
      BY <2>4 DEF FoldStep
    <3> DEFINE z == Tail(r)
               one == <<x>>
    <3>2. z \in Seq(Atom)
      BY <2>2, <2>4, HeadTailProperties
    <3>3. r = one \o z
      <4>1. /\ Len(r) \in 1..Len(r) /\ 1 \in 1..Len(r) /\ Len(r) \in Nat
        BY <2>2, <2>4
      <4>2. SubSeq(r, 1, Len(r)) = <<r[1]>> \o SubSeq(r, 1 + 1, Len(r))
        BY <2>2, <4>1, SubSeqRecursiveFirst
      <4>3. SubSeq(r, 1, Len(r)) = r
        BY <2>2, SubSeqFull
      <4>4. Tail(r) = SubSeq(r, 2, Len(r))
        BY <2>2, <2>4, TailIsSubSeq
      <4>5. r[1] = x
        BY <2>2, <2>4
      <4> QED
        BY <4>2, <4>3, <4>4, <4>5
    <3>4. one \in Seq(Atom)
      OBVIOUS
    <3> HIDE DEF z, one
    <3>5. (u \o one) \o z = u \o (one \o z)
      BY <3>2, <3>4, LettersGrouped, Zenon
    <3>6. u \o one \in Seq(Atom)
      BY <3>4
    <3>7. EndOf(z, w)
      BY <2>2, <3>2, <3>3, <3>5, <3>6 DEF EndOf
    <3> QED
      BY <2>1, <2>3, <3>1, <3>7 DEF z
  <2>5. CASE ~(r # <<>> /\ Head(r) = x)
    <3>1. FoldStep("walk", r, x) = r
      BY <2>5 DEF FoldStep
    <3> QED
      BY <1>2, <2>1, <2>3, <3>1 DEF r
  <2> QED
    BY <2>4, <2>5
<1> HIDE DEF S
<1>3. \A d \in Seq(Atom) : d \in S
  BY <1>1, <1>2, SequenceInduction
<1> QED
  BY <1>3 DEF S

\* A walk over a sequence takes off each of its ends.
LEMMA WalkWhole ==
  ASSUME NEW v \in Seq(Atom), NEW w \in Seq(Atom)
  PROVE  Loop("walk", w, v \o w) = <<>>
<1> DEFINE Left(a, b) == Loop("walk", b, a \o b) # <<>>
           Bad == {n \in Nat : \E a, b \in Seq(Atom) : Left(a, b) /\ Len(a) + Len(b) = n}
<1>1. CASE Bad = {}
  <2>1. Len(v) + Len(w) \in Nat
    OBVIOUS
  <2> QED
    BY <1>1, <2>1
<1>2. CASE Bad # {}
  <2>1. PICK m \in Bad : \A n \in Bad : m <= n
    <3>1. Bad \in SUBSET Nat
      OBVIOUS
    <3> HIDE DEF Bad
    <3> QED
      BY <1>2, <3>1, LeastElement
  <2>2. PICK a \in Seq(Atom), b \in Seq(Atom) : Left(a, b) /\ Len(a) + Len(b) = m
    OBVIOUS
  <2> DEFINE c == Loop("walk", b, a)
  <2>3. PICK u \in Seq(Atom) : c \in Seq(Atom) /\ b = u \o c
    BY WalkSuffix DEF EndOf
  <2>4. Loop("walk", b, a \o b) = Loop("walk", c, b)
    BY LoopConcat
  <2> HIDE DEF c
  <2>5. Left(u, c)
    BY <2>2, <2>3, <2>4
  <2>6. Len(u) + Len(c) = Len(b) /\ Len(b) \in Nat /\ Len(a) \in Nat
    BY <2>3, ConcatProperties
  <2>7. Len(b) \in Bad
    BY <2>3, <2>5, <2>6
  <2>8. Len(a) = 0
    BY <2>1, <2>2, <2>6, <2>7
  <2>9. a = <<>>
    BY <2>8
  <2>10. c = b
    BY <2>9, LoopEmpty DEF c
  <2>11. Loop("walk", b \o <<>>, b) = <<>>
    <3>1. <<>> \in Seq(Atom)
      OBVIOUS
    <3>2. \A z \in Seq(Atom) : Loop("walk", b \o z, b) = z
      BY WalkPrefix
    <3> QED
      BY <3>1, <3>2
  <2>12. b \o <<>> = b
    BY ConcatEmptySeq
  <2> QED
    BY <2>2, <2>4, <2>10, <2>11, <2>12
<1> QED
  BY <1>1, <1>2

\* A sequence is a subsequence of itself with something put in between.
LEMMA SubsequenceOfInsertion ==
  ASSUME NEW x \in Seq(Atom), NEW y \in Seq(Atom), NEW z \in Seq(Atom)
  PROVE  IsSubsequence(x \o z, (x \o y) \o z)
<1> DEFINE a == x \o z
           yz == y \o z
           s == x \o yz
<1>1. a \in Seq(Atom) /\ yz \in Seq(Atom) /\ (x \o y) \o z = x \o (y \o z)
  BY ConcatAssociative
<1>2. Loop("walk", a, x) = z
  BY WalkPrefix
<1>3. Loop("walk", z, yz) = <<>>
  BY WalkWhole
<1> HIDE DEF a, yz
<1>4. Loop("walk", a, s) = Loop("walk", Loop("walk", a, x), yz) /\ s \in Seq(Atom)
  BY <1>1, LoopConcat
<1>5. IsSubsequence(a, s) <=> Loop("walk", a, s) = <<>>
  BY <1>4, WalkLoop
<1>6. IsSubsequence(a, s)
  BY <1>2, <1>3, <1>4, <1>5
<1> QED
  BY <1>1, <1>6 DEF a, s, yz

-----------------------------------------------------------------------------
(* Sentences of a text to which another sentence is added                   *)

\* A set of positions is finite, and so is each part of it.
LEMMA PositionsFinite ==
  ASSUME NEW n \in Nat, NEW S \in SUBSET (1..n)
  PROVE  IsFiniteSet(S) /\ Cardinality(S) \in Nat
<1>1. IsFiniteSet(1..n)
  BY FS_Interval
<1>2. IsFiniteSet(S)
  BY <1>1, FS_Subset
<1> QED
  BY <1>2, FS_CardinalityType

\* The k-th smallest element exists for every k up to the size of the set, and k
\* elements come up to it.
LEMMA NthLeastIsElement ==
  ASSUME NEW n \in Nat, NEW S \in SUBSET (1..n), NEW k \in 1..Cardinality(S)
  PROVE  NthLeast(S, k) \in S /\ Cardinality({j \in S : j <= NthLeast(S, k)}) = k
<1>0. \A j \in S : j \in Nat /\ 1 <= j /\ j <= n
  OBVIOUS
<1> DEFINE Upto(i) == {j \in S : j <= i}
           Size(i) == Cardinality(Upto(i))
<1>1. \A i \in Int : Upto(i) \in SUBSET (1..n)
  OBVIOUS
<1>2. \A i \in Int : IsFiniteSet(Upto(i)) /\ Size(i) \in Nat
  BY <1>1, PositionsFinite
<1>3. Upto(n) = S
  BY <1>0
<1>4. Upto(0) = {}
  <2>1. \A j \in S : ~(j <= 0)
    BY <1>0
  <2> QED
    BY <2>1
<1>5. Size(0) = 0
  BY <1>4, FS_EmptySet
<1>6. \A i \in Nat : Size(i + 1) <= Size(i) + 1 /\ (i + 1 \notin S => Size(i + 1) = Size(i))
  <2> SUFFICES ASSUME NEW i \in Nat
               PROVE  Size(i + 1) <= Size(i) + 1 /\ (i + 1 \notin S => Size(i + 1) = Size(i))
    OBVIOUS
  <2>0. \A j \in S : j <= i + 1 <=> (j <= i \/ j = i + 1)
    BY <1>0
  <2>1. CASE i + 1 \in S
    <3>1. Upto(i + 1) = Upto(i) \cup {i + 1}
      BY <2>0, <2>1, Zenon
    <3>2. i + 1 \notin Upto(i)
      OBVIOUS
    <3>3. IsFiniteSet(Upto(i)) /\ Size(i) \in Nat
      BY <1>2
    <3> HIDE DEF Upto
    <3>4. Size(i + 1) = Size(i) + 1
      BY <3>1, <3>2, <3>3, FS_AddElement
    <3> QED
      BY <2>1, <3>3, <3>4
  <2>2. CASE i + 1 \notin S
    <3>1. Upto(i + 1) = Upto(i)
      BY <2>0, <2>2, Zenon
    <3>2. Size(i) \in Nat
      BY <1>2
    <3> HIDE DEF Upto
    <3> QED
      BY <3>1, <3>2
  <2> QED
    BY <2>1, <2>2
<1> DEFINE Reached == {i \in 0..n : Size(i) >= k}
<1>7. k \in Nat /\ 1 <= k /\ k <= Size(n)
  BY <1>3, PositionsFinite
<1>8. n \in Reached
  BY <1>7
<1> HIDE DEF Size
<1>9. \E m \in Reached : \A i \in Reached : m <= i
  <2>1. Reached \in SUBSET Nat /\ Reached # {}
    BY <1>8
  <2> HIDE DEF Reached
  <2> QED
    BY <2>1, LeastElement
<1>10. PICK m \in 0..n : Size(m) >= k /\ \A i \in 0..n : Size(i) >= k => m <= i
  BY <1>9
<1>11. m # 0
  BY <1>5, <1>7, <1>10
<1>12. m - 1 \in Nat /\ m - 1 \in 0..n /\ (m - 1) + 1 = m
  BY <1>10, <1>11
<1>13. Size(m - 1) < k /\ Size(m - 1) \in Nat /\ Size(m) \in Nat
  <2>1. Size(m - 1) \in Nat /\ Size(m) \in Nat
    <3>1. m \in Int /\ m - 1 \in Int
      BY <1>10, <1>12
    <3> HIDE DEF Upto
    <3> QED
      BY <1>2, <3>1
  <2>2. ~(Size(m - 1) >= k)
    BY <1>10, <1>12
  <2> QED
    BY <1>7, <2>1, <2>2
<1>14. m \in S /\ Size(m) = k
  BY <1>6, <1>7, <1>10, <1>12, <1>13
<1>15. Cardinality({j \in S : j <= m}) = k
  BY <1>14 DEF Size
<1> QED
  BY <1>14, <1>15 DEF NthLeast

\* An element of a set of positions is found by how many come up to it.
LEMMA NthLeastOfRank ==
  ASSUME NEW n \in Nat, NEW S \in SUBSET (1..n), NEW i \in S
  PROVE  /\ Cardinality({j \in S : j <= i}) \in 1..Cardinality(S)
         /\ NthLeast(S, Cardinality({j \in S : j <= i})) = i
<1> DEFINE Upto(x) == {j \in S : j <= x}
           k == Cardinality(Upto(i))
<1>0. \A j \in S : j \in Nat
  OBVIOUS
<1>1. IsFiniteSet(S) /\ Cardinality(S) \in Nat /\ \A j \in S : j \in Nat
  BY <1>0, PositionsFinite
<1>2. \A x : Upto(x) \in SUBSET S
  OBVIOUS
<1>3. \A x : IsFiniteSet(Upto(x)) /\ Cardinality(Upto(x)) \in Nat
  BY <1>1, <1>2, FS_Subset, FS_CardinalityType
<1>4. Upto(i) # {}
  BY <1>1
<1>5. k # 0 /\ k <= Cardinality(S)
  <2> HIDE DEF Upto
  <2> QED
    BY <1>1, <1>2, <1>3, <1>4, FS_EmptySet, FS_Subset
<1>6. k \in 1..Cardinality(S)
  BY <1>1, <1>3, <1>5
<1>7. \A x, y \in S : x < y => Cardinality(Upto(x)) # Cardinality(Upto(y))
  <2> SUFFICES ASSUME NEW x \in S, NEW y \in S, x < y
               PROVE  Cardinality(Upto(x)) # Cardinality(Upto(y))
    OBVIOUS
  <2>1. Upto(x) \in SUBSET Upto(y)
    <3> SUFFICES ASSUME NEW j \in S, j <= x PROVE j <= y
      OBVIOUS
    <3> QED
      BY <1>0
  <2>2. y \in Upto(y) /\ y \notin Upto(x)
    BY <1>1
  <2> HIDE DEF Upto
  <2> QED
    BY <1>3, <2>1, <2>2, FS_Subset
<1> DEFINE m == NthLeast(S, k)
<1>8. m \in S /\ Cardinality(Upto(m)) = k
  <2> HIDE DEF k
  <2> QED
    BY <1>6, NthLeastIsElement
<1> HIDE DEF Upto, m
<1>9. ~(m < i) /\ ~(i < m)
  BY <1>7, <1>8
<1>10. m = i
  BY <1>1, <1>8, <1>9
<1> QED
  BY <1>6, <1>10 DEF m, Upto

\* A number above the others is the last one.
LEMMA NthLeastAdded ==
  ASSUME NEW n \in Nat, NEW S \in SUBSET (1..n), NEW m \in Nat, m > n
  PROVE  /\ Cardinality(S) \in Nat /\ Cardinality(S \cup {m}) = Cardinality(S) + 1
         /\ \A k \in 1..Cardinality(S) : NthLeast(S \cup {m}, k) = NthLeast(S, k)
         /\ NthLeast(S \cup {m}, Cardinality(S) + 1) = m
<1> DEFINE T == S \cup {m}
<1>1. IsFiniteSet(S) /\ Cardinality(S) \in Nat
  BY PositionsFinite
<1>2. m \notin S /\ T \in SUBSET (1..m) /\ m \in T
  OBVIOUS
<1>3. Cardinality(T) = Cardinality(S) + 1
  BY <1>1, <1>2, FS_AddElement
<1>4. ASSUME NEW k \in 1..Cardinality(S)
      PROVE  NthLeast(T, k) = NthLeast(S, k)
  <2> DEFINE i == NthLeast(S, k)
  <2>1. i \in S /\ Cardinality({j \in S : j <= i}) = k
    BY NthLeastIsElement
  <2> HIDE DEF i
  <2>2. {j \in T : j <= i} = {j \in S : j <= i}
    BY <2>1
  <2>3. i \in T
    BY <2>1
  <2> HIDE DEF T
  <2>4. NthLeast(T, Cardinality({j \in T : j <= i})) = i
    BY <1>2, <2>3, NthLeastOfRank
  <2> QED
    BY <2>1, <2>2, <2>4 DEF i
<1>5. NthLeast(T, Cardinality(S) + 1) = m
  <2>0. \A j \in T : j <= m
    BY <1>2
  <2>1. {j \in T : j <= m} = T
    BY <2>0, Zenon
  <2> HIDE DEF T
  <2>2. NthLeast(T, Cardinality({j \in T : j <= m})) = m
    BY <1>2, NthLeastOfRank
  <2> QED
    BY <1>3, <2>1, <2>2
<1> QED
  BY <1>1, <1>3, <1>4, <1>5

\* The largest of some positions is the last of them.
LEMMA NthLeastLargest ==
  ASSUME NEW n \in Nat, NEW S \in SUBSET (1..n), n \in S
  PROVE  Cardinality(S) \in Nat \ {0} /\ NthLeast(S, Cardinality(S)) = n
<1>0. \A j \in S : j <= n
  OBVIOUS
<1>1. {j \in S : j <= n} = S
  BY <1>0, Zenon
<1>2. /\ Cardinality({j \in S : j <= n}) \in 1..Cardinality(S)
      /\ NthLeast(S, Cardinality({j \in S : j <= n})) = n
  BY NthLeastOfRank
<1>3. Cardinality(S) \in Nat
  BY PositionsFinite
<1> QED
  BY <1>1, <1>2, <1>3

\* A text that is empty or ends with a delimiter.
Complete(c) == c = <<>> \/ c[Len(c)].delim

\* A sentence: a delimiter can only close its last word.
OneSentence(e) == e # <<>> /\ \A i \in 1..Len(e) : e[i].delim => i = Len(e)

LEMMA ConcatFacts ==
  ASSUME NEW E, NEW a \in Seq(E), NEW c \in Seq(E)
  PROVE  /\ a \o c \in Seq(E) /\ Len(a \o c) = Len(a) + Len(c)
         /\ \A i \in 1..Len(a) : (a \o c)[i] = a[i]
         /\ \A i \in 1..Len(c) : (a \o c)[Len(a) + i] = c[i]
         /\ Len(a) \in Nat /\ Len(c) \in Nat
<1> DEFINE s == a \o c
<1>1. /\ s \in Seq(E) /\ Len(s) = Len(a) + Len(c)
      /\ \A i \in 1..(Len(a) + Len(c)) : s[i] = IF i <= Len(a) THEN a[i] ELSE c[i - Len(a)]
  BY ConcatProperties
<1>2. Len(a) \in Nat /\ Len(c) \in Nat
  OBVIOUS
<1> HIDE DEF s
<1>3. \A i \in 1..Len(a) : s[i] = a[i]
  BY <1>1, <1>2
<1>4. ASSUME NEW i \in 1..Len(c)
      PROVE  s[Len(a) + i] = c[i]
  <2>1. /\ Len(a) + i \in 1..(Len(a) + Len(c)) /\ ~(Len(a) + i <= Len(a))
        /\ (Len(a) + i) - Len(a) = i
    BY <1>2
  <2> QED
    BY <1>1, <2>1
<1> QED
  BY <1>1, <1>2, <1>3, <1>4 DEF s

LEMMA EndsFacts ==
  ASSUME NEW c \in Seq(WordToken)
  PROVE  /\ Len(c) \in Nat /\ SentenceEnds(c) \in SUBSET (1..Len(c))
         /\ SentenceCount(c) \in Nat
         /\ c # <<>> => /\ Len(c) \in SentenceEnds(c) /\ SentenceCount(c) # 0
                        /\ NthLeast(SentenceEnds(c), SentenceCount(c)) = Len(c)
         /\ c = <<>> => SentenceCount(c) = 0
<1>1. Len(c) \in Nat /\ SentenceEnds(c) \in SUBSET (1..Len(c))
  BY DEF SentenceEnds
<1>2. SentenceCount(c) \in Nat
  BY <1>1, PositionsFinite DEF SentenceCount
<1>3. c # <<>> => Len(c) \in SentenceEnds(c)
  BY <1>1 DEF SentenceEnds
<1>4. c = <<>> => SentenceEnds(c) = {}
  BY <1>1 DEF SentenceEnds
<1> QED
  BY <1>1, <1>2, <1>3, <1>4, NthLeastLargest, FS_EmptySet DEF SentenceCount

\* A part that lies in the first of two sequences put together.
LEMMA PartOfFirst ==
  ASSUME NEW E, NEW a \in Seq(E), NEW c \in Seq(E), NEW m \in Nat, m >= 1, NEW n \in 0..Len(a)
  PROVE  SubSeq(a, m, n) \in Seq(E) /\ SubSeq(a \o c, m, n) = SubSeq(a, m, n)
<1> DEFINE s == a \o c
<1>1. /\ Len(a) \in Nat /\ Len(c) \in Nat /\ s \in Seq(E) /\ Len(s) = Len(a) + Len(c)
      /\ \A i \in 1..Len(a) : s[i] = a[i]
  BY ConcatFacts
<1> HIDE DEF s
<1>2. \A i \in m..n : i \in 1..Len(a)
  BY <1>1
<1>3. \A i \in m..n : a[i] \in E /\ s[i] \in E /\ s[i] = a[i]
  BY <1>1, <1>2, ElementOfSeq
<1>4. m \in Int /\ n \in Int
  OBVIOUS
<1> DEFINE A == SubSeq(a, m, n)
           C == SubSeq(s, m, n)
           len == IF m <= n THEN n - m + 1 ELSE 0
<1>5. A \in Seq(E) /\ Len(A) = len /\ \A i \in 1..(n - m + 1) : A[i] = a[m + i - 1]
  BY <1>3, <1>4, SubSeqProperties
<1>6. C \in Seq(E) /\ Len(C) = len /\ \A i \in 1..(n - m + 1) : C[i] = s[m + i - 1]
  BY <1>3, <1>4, SubSeqProperties
<1> HIDE DEF A, C
<1>7. \A i \in 1..len : C[i] = A[i]
  <2> TAKE i \in 1..len
  <2>1. i \in 1..(n - m + 1) /\ m + i - 1 \in m..n
    OBVIOUS
  <2> QED
    BY <1>3, <1>5, <1>6, <2>1
<1>8. C = A
  BY <1>5, <1>6, <1>7, SeqEqual
<1> QED
  BY <1>5, <1>8 DEF A, C, s

\* A sentence after a complete text adds the one end that is its own.
LEMMA CutEnds ==
  ASSUME NEW c \in Seq(WordToken), NEW e \in Seq(WordToken), Complete(c), OneSentence(e)
  PROVE  /\ SentenceEnds(c \o e) = SentenceEnds(c) \cup {Len(c) + Len(e)}
         /\ Len(c) \in Nat /\ Len(e) \in Nat /\ Len(e) > 0 /\ Len(c \o e) = Len(c) + Len(e)
<1> DEFINE s == c \o e
           n == Len(c)
           m == Len(e)
<1>1. /\ s \in Seq(WordToken) /\ Len(s) = n + m /\ n \in Nat /\ m \in Nat
      /\ \A i \in 1..n : s[i] = c[i]
      /\ \A i \in 1..m : s[n + i] = e[i]
  BY ConcatFacts
<1>2. m > 0 /\ \A i \in 1..m : e[i].delim => i = m
  BY DEF OneSentence
<1>3. c # <<>> => c[n].delim
  BY DEF Complete
<1>4. n > 0 => c # <<>>
  OBVIOUS
<1> HIDE DEF s
<1>5. ASSUME NEW i \in 1..(n + m)
      PROVE  (s[i].delim \/ i = n + m) <=> ((i \in 1..n /\ (c[i].delim \/ i = n)) \/ i = n + m)
  <2> HIDE DEF n, m
  <2>1. CASE i \in 1..n
    BY <1>1, <1>2, <1>3, <1>4, <2>1
  <2>2. CASE i \notin 1..n
    <3>1. i - n \in 1..m /\ n + (i - n) = i
      BY <1>1, <2>2
    <3>2. s[i] = e[i - n]
      BY <1>1, <3>1
    <3>3. s[i].delim => i = n + m
      BY <1>1, <1>2, <3>1, <3>2
    <3> QED
      BY <2>2, <3>3
  <2> QED
    BY <2>1, <2>2
<1>6. SentenceEnds(s) = {i \in 1..(n + m) : s[i].delim \/ i = n + m}
  BY <1>1 DEF SentenceEnds
<1>7. SentenceEnds(c) = {i \in 1..n : c[i].delim \/ i = n}
  BY DEF SentenceEnds
<1>8. \A i : i \in 1..n => i \in 1..(n + m)
  BY <1>1
<1>9. n + m \in 1..(n + m)
  BY <1>1, <1>2
<1> HIDE DEF n, m
<1>10. SentenceEnds(s) = SentenceEnds(c) \cup {n + m}
  BY <1>5, <1>6, <1>7, <1>8, <1>9, Zenon
<1> QED
  BY <1>1, <1>2, <1>10 DEF s, n, m

\* Where the sentences of a text begin and end.
LEMMA SentenceBounds ==
  ASSUME NEW c \in Seq(WordToken), NEW k \in 0..(SentenceCount(c) - 1)
  PROVE  /\ SentenceFirst(c, k) \in Nat /\ SentenceFirst(c, k) >= 1
         /\ SentenceLast(c, k) \in 0..Len(c)
<1> DEFINE S == SentenceEnds(c)
<1>1. S \in SUBSET (1..Len(c)) /\ Len(c) \in Nat /\ SentenceCount(c) \in Nat
  BY EndsFacts
<1>2. \A i \in 1..SentenceCount(c) : NthLeast(S, i) \in 1..Len(c)
  BY <1>1, NthLeastIsElement DEF SentenceCount
<1> HIDE DEF S
<1>3. k + 1 \in 1..SentenceCount(c) /\ (k # 0 => k \in 1..SentenceCount(c))
  BY <1>1
<1>4. NthLeast(S, k + 1) \in 1..Len(c) /\ (k # 0 => NthLeast(S, k) \in 1..Len(c))
  BY <1>2, <1>3
<1> QED
  BY <1>1, <1>4 DEF SentenceFirst, SentenceLast, S

LEMMA SentenceType ==
  ASSUME NEW c \in Seq(WordToken), NEW k \in 0..(SentenceCount(c) - 1)
  PROVE  Sentence(c, k) \in Seq(WordToken)
<1>1. /\ SentenceFirst(c, k) \in Nat /\ SentenceFirst(c, k) >= 1
      /\ SentenceLast(c, k) \in 0..Len(c)
  BY SentenceBounds
<1> QED
  BY <1>1, PartOfFirst DEF Sentence

\* A sentence after a complete text is one sentence more.
LEMMA CutSentences ==
  ASSUME NEW c \in Seq(WordToken), NEW e \in Seq(WordToken), Complete(c), OneSentence(e)
  PROVE  /\ SentenceCount(c) \in Nat /\ SentenceCount(c \o e) = SentenceCount(c) + 1
         /\ \A k \in 0..(SentenceCount(c) - 1) : Sentence(c \o e, k) = Sentence(c, k)
         /\ Sentence(c \o e, SentenceCount(c)) = e
<1> DEFINE s == c \o e
           n == Len(c)
           m == Len(e)
           S == SentenceEnds(c)
           T == SentenceEnds(s)
           N == SentenceCount(c)
<1>1. T = S \cup {n + m} /\ n \in Nat /\ m \in Nat /\ m > 0 /\ Len(s) = n + m
  BY CutEnds
<1>2. /\ S \in SUBSET (1..n) /\ N \in Nat /\ N = Cardinality(S)
      /\ c # <<>> => N # 0 /\ NthLeast(S, N) = n
      /\ c = <<>> => N = 0
  BY EndsFacts DEF SentenceCount
<1>3. n + m \in Nat /\ n + m > n
  BY <1>1
<1> HIDE DEF s, S, T, n, m
<1>4. /\ Cardinality(T) = N + 1
      /\ \A k \in 1..N : NthLeast(T, k) = NthLeast(S, k)
      /\ NthLeast(T, N + 1) = n + m
  <2> HIDE DEF N
  <2> QED
    BY <1>1, <1>2, <1>3, NthLeastAdded, ZenonT(40)
<1>5. SentenceCount(s) = N + 1
  BY <1>4 DEF T, SentenceCount
<1> HIDE DEF N
<1>6. ASSUME NEW k \in 0..(N - 1)
      PROVE  Sentence(s, k) = Sentence(c, k)
  <2>1. k + 1 \in 1..N /\ (k # 0 => k \in 1..N)
    BY <1>2
  <2>2. SentenceFirst(s, k) = SentenceFirst(c, k) /\ SentenceLast(s, k) = SentenceLast(c, k)
    BY <1>4, <2>1 DEF SentenceFirst, SentenceLast, S, T
  <2>3. /\ SentenceFirst(c, k) \in Nat /\ SentenceFirst(c, k) >= 1
        /\ SentenceLast(c, k) \in 0..Len(c)
    BY SentenceBounds DEF N
  <2>4. SubSeq(s, SentenceFirst(c, k), SentenceLast(c, k)) = SubSeq(c, SentenceFirst(c, k), SentenceLast(c, k))
    BY <2>3, PartOfFirst DEF s
  <2> QED
    BY <2>2, <2>4 DEF Sentence
<1>7. Sentence(s, N) = e
  <2>1. SentenceLast(s, N) = n + m
    BY <1>4 DEF SentenceLast, T
  <2>2. SentenceFirst(s, N) = n + 1
    <3>1. CASE c = <<>>
      <4>1. n = 0 /\ N = 0
        BY <1>2, <3>1 DEF n
      <4> QED
        BY <4>1 DEF SentenceFirst
    <3>2. CASE c # <<>>
      <4>1. N # 0 /\ N \in 1..N /\ NthLeast(T, N) = n
        BY <1>2, <1>4, <3>2
      <4> QED
        BY <4>1 DEF SentenceFirst, T
    <3> QED
      BY <3>1, <3>2
  <2>3. SubSeq(s, n + 1, n + m) = SubSeq(e, (n + 1) - n, (n + m) - n)
    <3>1. n + 1 \in (n + 1)..(n + m) /\ n + m \in (n + 1)..(n + m)
      BY <1>1
    <3> QED
      BY <3>1, SubSeqOfConcat2 DEF s, n, m
  <2>4. (n + 1) - n = 1 /\ (n + m) - n = m
    BY <1>1
  <2>5. SubSeq(e, 1, m) = e
    BY SubSeqFull DEF m
  <2> QED
    BY <2>1, <2>2, <2>3, <2>4, <2>5 DEF Sentence
<1> QED
  BY <1>2, <1>5, <1>6, <1>7 DEF s, N

\* A sentence by itself.
LEMMA LoneSentence ==
  ASSUME NEW e \in Seq(WordToken), OneSentence(e)
  PROVE  SentenceCount(e) = 1 /\ Sentence(e, 0) = e
<1> DEFINE none == <<>>
<1>1. none \in Seq(WordToken) /\ Complete(none) /\ SentenceCount(none) = 0 /\ none \o e = e
  BY StringsEmpty, EndsFacts, ConcatEmptySeq DEF Complete
<1> HIDE DEF none
<1>2. /\ SentenceCount(none \o e) = SentenceCount(none) + 1
      /\ Sentence(none \o e, SentenceCount(none)) = e
  BY <1>1, CutSentences
<1> QED
  BY <1>1, <1>2

-----------------------------------------------------------------------------
(* What one step of the session does                                        *)

LEMMA InsertsFacts == \A t \in Inserts : t \in WordToken
BY EditorAssumption DEF WordToken

LEMMA SentFacts ==
  ASSUME NEW s \in Seq(Inserts)
  PROVE  s \in Seq(WordToken)
<1>1. \A i \in 1..Len(s) : s[i] \in WordToken
  BY InsertsFacts
<1>2. s \in Seq(Inserts) /\ Inserts \subseteq WordToken
  BY InsertsFacts
<1> QED
  BY <1>2, SeqMonotonic

LEMMA TargetType ==
  ASSUME NEW c \in Targets
  PROVE  c \in Seq(WordToken) /\ (c # <<>> => OneSentence(c))
<1>1. c \in Seq(Token)
  BY EditorAssumption DEF Text
<1>2. DOMAIN c = 1..Len(c) /\ \A i \in 1..Len(c) : c[i] \in Token
  BY <1>1, ElementOfSeq
<1>3. \A i \in 1..Len(c) : c[i] \in WordToken /\ (c[i].delim => i = Len(c))
  BY <1>2, EditorAssumption DEF WordToken
<1>4. Len(c) \in Nat /\ c = [i \in 1..Len(c) |-> c[i]]
  BY <1>1
<1>5. c \in Seq(WordToken)
  BY <1>3, <1>4, IsASeq
<1> QED
  BY <1>3, <1>5 DEF OneSentence

\* A session starts with the words of its sentence, as far as the array has room.
LEMMA TargetStart ==
  ASSUME NEW c \in Targets
  PROVE  \E n \in 0..Len(c) :
           /\ n = IF Len(c) < MaxWords THEN Len(c) ELSE MaxWords
           /\ TargetWords(c, 0) = SubSeq(c, 1, n)
<1>1. c \in Seq(WordToken) /\ (c # <<>> => OneSentence(c)) /\ Len(c) \in Nat
  BY TargetType
<1>2. MaxWords \in Nat
  BY MaxWordsAssumption
<1> DEFINE n == IF Len(c) < MaxWords THEN Len(c) ELSE MaxWords
<1>3. n \in 0..Len(c)
  BY <1>1, <1>2
<1>4. CASE c = <<>>
  <2>1. SentenceCount(c) = 0
    BY <1>1, <1>4, EndsFacts
  <2>2. TargetWords(c, 0) = <<>>
    BY <2>1 DEF TargetWords
  <2>3. n = 0
    BY <1>2, <1>4
  <2>4. SubSeq(c, 1, 0) = <<>>
    BY SubSeqEmpty
  <2> QED
    BY <1>3, <2>2, <2>3, <2>4
<1>5. CASE c # <<>>
  <2>1. SentenceCount(c) = 1 /\ Sentence(c, 0) = c
    BY <1>1, <1>5, LoneSentence
  <2>2. 0 < SentenceCount(c)
    BY <2>1
  <2>3. TargetWords(c, 0) = SubSeq(c, 1, n)
    BY <2>1, <2>2, Zenon DEF TargetWords
  <2> QED
    BY <1>3, <2>3
<1> QED
  BY <1>4, <1>5

LEMMA StartWords ==
  ASSUME NEW c \in Targets
  PROVE  /\ TargetWords(c, 0) \in Seq(WordToken)
         /\ Take(SplitWords(Join([i \in DOMAIN c |-> AsString(c[i])])), MaxWords)
              = Strings(TargetWords(c, 0))
<1>1. c \in Seq(WordToken)
  BY TargetType
<1>2. PICK n \in 0..Len(c) :
        /\ n = IF Len(c) < MaxWords THEN Len(c) ELSE MaxWords
        /\ TargetWords(c, 0) = SubSeq(c, 1, n)
  BY TargetStart
<1>3. SplitWords(Join(Strings(c))) = Strings(c)
  BY <1>1, SplitJoin
<1>4. Len(Strings(c)) = Len(c)
  BY <1>1, StringsFacts
<1>5. Take(Strings(c), MaxWords) = SubSeq(Strings(c), 1, n)
  BY <1>2, <1>4 DEF Take
<1>6. Strings(SubSeq(c, 1, n)) = SubSeq(Strings(c), 1, n)
  BY <1>1, StringsPrefix
<1>7. TargetWords(c, 0) \in Seq(WordToken)
  BY <1>1, <1>2, PrefixFacts
<1>8. Take(SplitWords(Join([i \in DOMAIN c |-> AsString(c[i])])), MaxWords)
        = Take(Strings(c), MaxWords)
  BY <1>3 DEF Strings
<1> QED
  BY <1>2, <1>5, <1>6, <1>7, <1>8

LEMMA SpelledTriple ==
  ASSUME NEW h \in Seq(WordToken), NEW w \in WordToken, NEW r \in Seq(WordToken)
  PROVE  Spelled((h \o <<w>>) \o r) = (Spelled(h) \o w.atoms) \o Spelled(r)
<1>1. h \o <<w>> = Append(h, w) /\ Append(h, w) \in Seq(WordToken)
  BY ConcatOne, AppendFacts
<1>2. Spelled(Append(h, w)) = Spelled(h) \o w.atoms
  BY SpelledAppend
<1> DEFINE g == Append(h, w)
<1>3. Spelled(g \o r) = Spelled(g) \o Spelled(r)
  BY <1>1, SpelledConcat
<1> QED
  BY <1>1, <1>2, <1>3

\* An insertion puts the letters of the word somewhere between those that were
\* there, and changes nothing else.
LEMMA InsertSpelled ==
  ASSUME NEW c \in Seq(WordToken), NEW p \in 1..(Len(c) + 1), NEW t \in WordToken,
         Representable(c, p, t)
  PROVE  \E x, z \in Seq(Atom) :
           Spelled(c) = x \o z /\ Spelled(InsertWord(c, p, t)) = (x \o t.atoms) \o z
<1>1. PICK h \in Seq(WordToken), r \in Seq(WordToken) :
        \/ /\ c = h \o r
           /\ InsertWord(c, p, t) = (h \o <<t>>) \o r
        \/ \E q \in WordToken :
             /\ c = (h \o <<q>>) \o r
             /\ InsertWord(c, p, t) = (h \o <<Merged(q, t)>>) \o r
  BY InsertSplit
<1>2. Spelled(h) \in Seq(Atom) /\ Spelled(r) \in Seq(Atom)
  BY SpelledType
<1>3. CASE c = h \o r /\ InsertWord(c, p, t) = (h \o <<t>>) \o r
  <2>1. Spelled(c) = Spelled(h) \o Spelled(r)
    BY <1>3, SpelledConcat
  <2>2. Spelled((h \o <<t>>) \o r) = (Spelled(h) \o t.atoms) \o Spelled(r)
    BY SpelledTriple, Zenon
  <2>3. Spelled(InsertWord(c, p, t)) = (Spelled(h) \o t.atoms) \o Spelled(r)
    BY <1>3, <2>2, Zenon
  <2> QED
    BY <1>2, <2>1, <2>3, Zenon
<1>4. ASSUME NEW q \in WordToken, c = (h \o <<q>>) \o r,
             InsertWord(c, p, t) = (h \o <<Merged(q, t)>>) \o r
      PROVE  \E x, z \in Seq(Atom) :
               Spelled(c) = x \o z /\ Spelled(InsertWord(c, p, t)) = (x \o t.atoms) \o z
  <2>1. Merged(q, t) \in WordToken /\ Merged(q, t).atoms = q.atoms \o t.atoms
    BY MergedFacts DEF Merged
  <2>2. q.atoms \in Seq(Atom) /\ t.atoms \in Seq(Atom)
    BY AsStringFacts
  <2> DEFINE x == Spelled(h) \o q.atoms
             mid == q.atoms \o t.atoms
  <2>3. Spelled(c) = x \o Spelled(r)
    <3>1. Spelled((h \o <<q>>) \o r) = (Spelled(h) \o q.atoms) \o Spelled(r)
      BY SpelledTriple, Zenon
    <3> QED
      BY <1>4, <3>1, Zenon
  <2>4. Spelled(InsertWord(c, p, t)) = (Spelled(h) \o Merged(q, t).atoms) \o Spelled(r)
    <3> DEFINE w == Merged(q, t)
    <3> HIDE DEF w
    <3>1. Spelled((h \o <<w>>) \o r) = (Spelled(h) \o w.atoms) \o Spelled(r)
      BY <2>1, SpelledTriple, Zenon DEF w
    <3>2. Spelled((h \o <<Merged(q, t)>>) \o r) = (Spelled(h) \o Merged(q, t).atoms) \o Spelled(r)
      BY <3>1, Zenon DEF w
    <3> QED
      BY <1>4, <3>2, Zenon
  <2>5. Spelled(h) \o mid = x \o t.atoms
    <3>1. \A u, v, w \in Seq(Atom) : (u \o v) \o w = u \o (v \o w)
      BY LettersGrouped, Zenon
    <3> QED
      BY <1>2, <2>2, <3>1, Zenon
  <2>6. x \in Seq(Atom)
    BY <1>2, <2>2, ConcatFacts
  <2>7. Spelled(InsertWord(c, p, t)) = (x \o t.atoms) \o Spelled(r)
    BY <2>1, <2>4, <2>5
  <2> HIDE DEF x
  <2> QED
    BY <1>2, <2>3, <2>6, <2>7, Zenon
<1> QED
  BY <1>1, <1>3, <1>4

LEMMA InsertCount ==
  ASSUME NEW c \in Seq(WordToken), NEW p \in 1..(Len(c) + 1), NEW t \in WordToken,
         Representable(c, p, t), NEW ch
  PROVE  CountOf(Spelled(InsertWord(c, p, t)), ch)
           = CountOf(Spelled(c), ch) + CountOf(t.atoms, ch)
<1>1. PICK x \in Seq(Atom), z \in Seq(Atom) :
        Spelled(c) = x \o z /\ Spelled(InsertWord(c, p, t)) = (x \o t.atoms) \o z
  BY InsertSpelled
<1>2. t.atoms \in Seq(Atom)
  BY AsStringFacts
<1> DEFINE y == t.atoms
           xy == x \o y
<1>3. xy \in Seq(Atom)
  BY <1>2, ConcatFacts
<1>4. CountOf(x \o z, ch) = CountOf(x, ch) + CountOf(z, ch)
  BY CountConcat
<1>5. CountOf(xy, ch) = CountOf(x, ch) + CountOf(y, ch)
  BY <1>2, CountConcat
<1> HIDE DEF xy, y
<1>6. CountOf(xy \o z, ch) = CountOf(xy, ch) + CountOf(z, ch)
  BY <1>3, CountConcat
<1>7. CountOf(x, ch) \in Nat /\ CountOf(y, ch) \in Nat /\ CountOf(z, ch) \in Nat
  BY <1>2, CountType DEF y
<1> QED
  BY <1>1, <1>4, <1>5, <1>6, <1>7 DEF xy, y

LEMMA SubsequenceOfItself ==
  ASSUME NEW x \in Seq(Atom)
  PROVE  IsSubsequence(x, x)
<1> DEFINE none == <<>>
<1>1. none \in Seq(Atom) /\ x \o none = x
  BY ConcatEmptySeq
<1> HIDE DEF none
<1>2. IsSubsequence(x \o none, (x \o none) \o none)
  BY <1>1, SubsequenceOfInsertion
<1> QED
  BY <1>1, <1>2

LEMMA InsertKeepsOrder ==
  ASSUME NEW c \in Seq(WordToken), NEW p \in 1..(Len(c) + 1), NEW t \in WordToken,
         Representable(c, p, t)
  PROVE  IsSubsequence(Spelled(c), Spelled(InsertWord(c, p, t)))
<1>1. PICK x \in Seq(Atom), z \in Seq(Atom) :
        Spelled(c) = x \o z /\ Spelled(InsertWord(c, p, t)) = (x \o t.atoms) \o z
  BY InsertSpelled
<1>2. t.atoms \in Seq(Atom)
  BY AsStringFacts
<1> DEFINE y == t.atoms
<1> HIDE DEF y
<1>3. IsSubsequence(x \o z, (x \o y) \o z)
  BY <1>2, SubsequenceOfInsertion DEF y
<1> QED
  BY <1>1, <1>3 DEF y

-----------------------------------------------------------------------------
(* Rebuilding a sentence to which a word is added                           *)

\* A word with its delimiter attached.
ClosedBy(q) == [atoms |-> q.atoms, delim |-> TRUE]

\* t goes to the end of the word before it, without a space.
AttachesTo(ws, t) == ws # <<>> /\ Standalone(t) /\ ~ws[Len(ws)].delim

LEMMA ClosedByType ==
  ASSUME NEW q \in WordToken
  PROVE  ClosedBy(q) \in WordToken
BY DEF ClosedBy, WordToken, Token

LEMMA ClosedType ==
  ASSUME NEW ws \in Seq(WordToken), NEW i \in 1..Len(ws)
  PROVE  Closed(ws, i) \in WordToken
<1>1. ws[i] \in WordToken
  BY ElementOfSeq
<1>2. [atoms |-> ws[i].atoms, delim |-> TRUE] \in WordToken
  BY <1>1, ClosedByType DEF ClosedBy
<1> QED
  BY <1>1, <1>2 DEF Closed

LEMMA KeptFacts ==
  ASSUME NEW ws \in Seq(WordToken)
  PROVE  /\ Len(ws) \in Nat /\ Kept(ws) \in SUBSET (1..Len(ws))
         /\ Rebuild(ws) \in Seq(WordToken) /\ Len(Rebuild(ws)) \in Nat
         /\ Len(Rebuild(ws)) = Cardinality(Kept(ws))
         /\ \A k \in 1..Len(Rebuild(ws)) :
              /\ NthLeast(Kept(ws), k) \in 1..Len(ws)
              /\ Rebuild(ws)[k] = Closed(ws, NthLeast(Kept(ws), k))
<1> DEFINE S == Kept(ws)
           K == Cardinality(S)
<1>1. Len(ws) \in Nat /\ S \in SUBSET (1..Len(ws))
  BY DEF Kept
<1> HIDE DEF S
<1>2. K \in Nat
  BY <1>1, PositionsFinite
<1>3. \A k \in 1..K : NthLeast(S, k) \in 1..Len(ws)
  BY <1>1, NthLeastIsElement
<1>4. \A k \in 1..K : Closed(ws, NthLeast(S, k)) \in WordToken
  BY <1>3, ClosedType
<1>5. Rebuild(ws) = [k \in 1..K |-> Closed(ws, NthLeast(S, k))]
  BY DEF Rebuild, S
<1> HIDE DEF K
<1>6. [k \in 1..K |-> Closed(ws, NthLeast(S, k))] \in Seq(WordToken)
  BY <1>2, <1>4, IsASeq
<1>7. Rebuild(ws) \in Seq(WordToken) /\ Len(Rebuild(ws)) = K
  BY <1>2, <1>5, <1>6
<1> QED
  BY <1>1, <1>2, <1>3, <1>5, <1>7 DEF S, K

\* The last word kept is not the one before.
LEMMA LastKept ==
  ASSUME NEW n \in Nat, NEW S \in SUBSET (1..n), n \in S, NEW k \in 1..(Cardinality(S) - 1)
  PROVE  NthLeast(S, k) \in S /\ NthLeast(S, k) # n
<1> DEFINE K == Cardinality(S)
           i == NthLeast(S, k)
           j == NthLeast(S, K)
<1>1. K \in Nat \ {0} /\ j = n
  BY NthLeastLargest
<1>2. k \in 1..K /\ K \in 1..K /\ k # K
  BY <1>1
<1>3. i \in S /\ Cardinality({x \in S : x <= i}) = k
  BY <1>2, NthLeastIsElement
<1>4. Cardinality({x \in S : x <= j}) = K
  BY <1>2, NthLeastIsElement
<1> HIDE DEF i, j, K
<1>5. i # j
  BY <1>2, <1>3, <1>4
<1> QED
  BY <1>1, <1>3, <1>5 DEF i

\* Adding a word does not change which of the others are attached.
LEMMA AttachedAppend ==
  ASSUME NEW ws \in Seq(WordToken), NEW t \in WordToken
  PROVE  /\ \A i \in 1..Len(ws) : Attached(Append(ws, t), i) <=> Attached(ws, i)
         /\ Attached(Append(ws, t), Len(ws) + 1) <=> AttachesTo(ws, t)
<1> DEFINE v == Append(ws, t)
           n == Len(ws)
<1>1. n \in Nat /\ v[n + 1] = t /\ \A i \in 1..n : v[i] = ws[i]
  BY AppendFacts
<1>2. ws # <<>> <=> n > 0
  OBVIOUS
<1> HIDE DEF v
<1>3. ASSUME NEW i \in 1..n
      PROVE  Attached(v, i) <=> Attached(ws, i)
  <2>1. i > 1 => i - 1 \in 1..n
    BY <1>1
  <2>2. v[i] = ws[i] /\ (i > 1 => v[i - 1] = ws[i - 1])
    BY <1>1, <2>1
  <2> QED
    BY <2>2 DEF Attached
<1>4. Attached(v, n + 1) <=> AttachesTo(ws, t)
  <2> HIDE DEF n
  <2>1. n + 1 > 1 <=> n > 0
    BY <1>1
  <2>2. n > 0 => (n + 1) - 1 = n /\ v[n] = ws[n]
    BY <1>1
  <2>3. Attached(v, n + 1) <=> (n + 1 > 1 /\ Standalone(v[n + 1]) /\ ~v[(n + 1) - 1].delim)
    BY DEF Attached
  <2>4. AttachesTo(ws, t) <=> (n > 0 /\ Standalone(t) /\ ~ws[n].delim)
    BY <1>2 DEF AttachesTo, n
  <2> QED
    BY <1>1, <2>1, <2>2, <2>3, <2>4
<1> QED
  BY <1>3, <1>4 DEF v

\* A delimiter after a word closes that word.
LEMMA RebuildAttached ==
  ASSUME NEW ws \in Seq(WordToken), NEW t \in WordToken, AttachesTo(ws, t),
         NEW g \in Seq(WordToken), NEW q \in WordToken, Rebuild(ws) = Append(g, q)
  PROVE  Rebuild(Append(ws, t)) = Append(g, ClosedBy(q))
<1> DEFINE v == Append(ws, t)
           n == Len(ws)
           S == Kept(ws)
           K == Cardinality(S)
           R == Rebuild(ws)
           V == Rebuild(v)
           W == Append(g, ClosedBy(q))
<1>1. /\ n \in Nat /\ v \in Seq(WordToken) /\ Len(v) = n + 1
      /\ \A i \in 1..n : v[i] = ws[i]
  BY AppendFacts
<1>2. ws # <<>> /\ Standalone(t) /\ ~ws[n].delim
  BY DEF AttachesTo
<1>3. n > 0 /\ n \in 1..n
  BY <1>1, <1>2
<1>4. /\ \A i \in 1..n : Attached(v, i) <=> Attached(ws, i)
      /\ Attached(v, n + 1)
  BY AttachedAppend
<1>5. Kept(v) = S
  <2>1. \A i \in 1..(n + 1) : i = n + 1 \/ i \in 1..n
    BY <1>1
  <2>2. \A i \in 1..n : i \in 1..(n + 1)
    BY <1>1
  <2> HIDE DEF v, n
  <2>3. \A i : (i \in 1..(n + 1) /\ ~Attached(v, i)) <=> (i \in 1..n /\ ~Attached(ws, i))
    BY <1>4, <2>1, <2>2
  <2>4. Kept(v) = {i \in 1..(n + 1) : ~Attached(v, i)}
    BY <1>1 DEF Kept
  <2>5. S = {i \in 1..n : ~Attached(ws, i)}
    BY DEF Kept, n
  <2> QED
    BY <2>3, <2>4, <2>5, Zenon
<1>6. n \in S
  <2>1. ~Attached(ws, n)
    BY <1>2 DEF Attached, Standalone
  <2> QED
    BY <1>3, <2>1 DEF Kept
<1>7. /\ S \in SUBSET (1..n) /\ R \in Seq(WordToken) /\ Len(R) = K /\ K \in Nat
      /\ \A k \in 1..K : NthLeast(S, k) \in 1..n /\ R[k] = Closed(ws, NthLeast(S, k))
  BY KeptFacts
<1>8. /\ V \in Seq(WordToken) /\ Len(V) = K
      /\ \A k \in 1..K : V[k] = Closed(v, NthLeast(S, k))
  BY <1>1, <1>5, KeptFacts
<1>9. K # 0 /\ NthLeast(S, K) = n
  BY <1>1, <1>6, <1>7, NthLeastLargest
<1>10. ASSUME NEW k \in 1..(K - 1)
       PROVE  NthLeast(S, k) \in 1..n /\ NthLeast(S, k) # n
  <2> HIDE DEF n, S
  <2> QED
    BY <1>1, <1>6, <1>7, LastKept
<1>11. /\ Len(R) = Len(g) + 1 /\ R[Len(g) + 1] = q /\ Len(g) \in Nat
       /\ \A k \in 1..Len(g) : R[k] = g[k]
  BY AppendFacts
<1>12. /\ ClosedBy(q) \in WordToken
       /\ W \in Seq(WordToken) /\ Len(W) = Len(g) + 1 /\ W[Len(g) + 1] = ClosedBy(q)
       /\ \A k \in 1..Len(g) : W[k] = g[k]
  BY ClosedByType, AppendFacts
<1> HIDE DEF v, n, S, R, V, W, K
<1>13. ASSUME NEW i \in 1..n, i # n
       PROVE  Closed(v, i) = Closed(ws, i)
  <2>0. n \in Nat
    BY <1>1
  <2>1. i + 1 \in 1..n /\ i < n /\ i < n + 1
    BY <1>13, <2>0
  <2>2. (i < Len(v) /\ Attached(v, i + 1)) <=> (i < Len(ws) /\ Attached(ws, i + 1))
    BY <1>1, <1>4, <2>1 DEF n
  <2>3. v[i] = ws[i]
    BY <1>1
  <2> QED
    BY <2>2, <2>3 DEF Closed
<1>14. Closed(ws, n) = ws[n]
  BY <1>1 DEF Closed, n
<1>15. Closed(v, n) = ClosedBy(ws[n])
  <2>1. n < Len(v) /\ v[n] = ws[n]
    BY <1>1, <1>3
  <2> QED
    BY <1>4, <2>1 DEF Closed, ClosedBy
<1>16. K = Len(g) + 1
  BY <1>7, <1>11
<1>17. \A k \in 1..K : V[k] = W[k]
  <2> TAKE k \in 1..K
  <2>1. CASE k = K
    <3>1. q = ws[n]
      BY <1>7, <1>9, <1>11, <1>14, <1>16
    <3> QED
      BY <1>8, <1>9, <1>12, <1>15, <1>16, <2>1, <3>1
  <2>2. CASE k # K
    <3>1. k \in 1..(K - 1) /\ k \in 1..Len(g)
      BY <1>7, <1>16, <2>2
    <3>2. V[k] = R[k]
      BY <1>7, <1>8, <1>10, <1>13, <3>1
    <3> QED
      BY <1>11, <1>12, <3>1, <3>2
  <2> QED
    BY <2>1, <2>2
<1>18. V = W
  BY <1>8, <1>12, <1>16, <1>17, SeqEqual
<1> QED
  BY <1>18 DEF V, W, v

\* Any other word stays a word of its own.
LEMMA RebuildAppend ==
  ASSUME NEW ws \in Seq(WordToken), NEW t \in WordToken, ~AttachesTo(ws, t)
  PROVE  Rebuild(Append(ws, t)) = Append(Rebuild(ws), t)
<1> DEFINE v == Append(ws, t)
           n == Len(ws)
           S == Kept(ws)
           T == Kept(v)
           K == Cardinality(S)
           R == Rebuild(ws)
           V == Rebuild(v)
           W == Append(R, t)
<1>1. /\ n \in Nat /\ v \in Seq(WordToken) /\ Len(v) = n + 1 /\ v[n + 1] = t
      /\ \A i \in 1..n : v[i] = ws[i]
  BY AppendFacts
<1>2. /\ \A i \in 1..n : Attached(v, i) <=> Attached(ws, i)
      /\ ~Attached(v, n + 1)
  BY AttachedAppend
<1>3. T = S \cup {n + 1}
  <2>1. \A i \in 1..(n + 1) : i = n + 1 \/ i \in 1..n
    BY <1>1
  <2>2. (\A i \in 1..n : i \in 1..(n + 1)) /\ n + 1 \in 1..(n + 1)
    BY <1>1
  <2> HIDE DEF v, n
  <2>3. \A i : (i \in 1..(n + 1) /\ ~Attached(v, i)) <=> ((i \in 1..n /\ ~Attached(ws, i)) \/ i = n + 1)
    BY <1>2, <2>1, <2>2
  <2>4. T = {i \in 1..(n + 1) : ~Attached(v, i)}
    BY <1>1 DEF Kept
  <2>5. S = {i \in 1..n : ~Attached(ws, i)}
    BY DEF Kept, n
  <2> QED
    BY <2>3, <2>4, <2>5, Zenon
<1>4. /\ S \in SUBSET (1..n) /\ R \in Seq(WordToken) /\ Len(R) = K /\ K \in Nat
      /\ \A k \in 1..K : NthLeast(S, k) \in 1..n /\ R[k] = Closed(ws, NthLeast(S, k))
  BY KeptFacts
<1>5. /\ V \in Seq(WordToken) /\ Len(V) = Cardinality(T)
      /\ \A k \in 1..Cardinality(T) : V[k] = Closed(v, NthLeast(T, k))
  BY <1>1, KeptFacts
<1>6. /\ Cardinality(T) = K + 1
      /\ \A k \in 1..K : NthLeast(T, k) = NthLeast(S, k)
      /\ NthLeast(T, K + 1) = n + 1
  <2>1. n + 1 \in Nat /\ n + 1 > n
    BY <1>1
  <2> HIDE DEF n, S, T
  <2> QED
    BY <1>1, <1>3, <1>4, <2>1, NthLeastAdded, ZenonT(40)
<1>7. /\ W \in Seq(WordToken) /\ Len(W) = K + 1 /\ W[K + 1] = t
      /\ \A k \in 1..K : W[k] = R[k]
  <2> HIDE DEF R, K
  <2> QED
    BY <1>4, AppendFacts
<1> HIDE DEF v, n, S, T, R, V, W, K
<1>8. ASSUME NEW i \in 1..n
      PROVE  Closed(v, i) = Closed(ws, i)
  <2>1. v[i] = ws[i] /\ Len(v) = n + 1 /\ Len(ws) = n
    BY <1>1 DEF n
  <2>2. CASE i = n
    <3>1. ~Attached(v, i + 1) /\ ~(i < Len(ws))
      BY <1>1, <1>2, <2>1, <2>2
    <3> QED
      BY <2>1, <3>1 DEF Closed
  <2>3. CASE i # n
    <3>0. n \in Nat
      BY <1>1
    <3>1. i + 1 \in 1..n /\ i < n /\ i < n + 1
      BY <2>3, <3>0
    <3> QED
      BY <1>2, <2>1, <3>1 DEF Closed
  <2> QED
    BY <2>2, <2>3
<1>9. Closed(v, n + 1) = t
  BY <1>1 DEF Closed
<1>10. \A k \in 1..(K + 1) : V[k] = W[k]
  <2> TAKE k \in 1..(K + 1)
  <2>1. CASE k = K + 1
    BY <1>5, <1>6, <1>7, <1>9, <2>1
  <2>2. CASE k # K + 1
    <3>1. k \in 1..K
      BY <1>4, <2>2
    <3> QED
      BY <1>4, <1>5, <1>6, <1>7, <1>8, <3>1
  <2> QED
    BY <2>1, <2>2
<1>11. V = W
  BY <1>5, <1>6, <1>7, <1>10, SeqEqual
<1> QED
  BY <1>11 DEF V, W, v, R

-----------------------------------------------------------------------------
(* Parsing the rebuilt sentence                                             *)

\* The sentences of a text as strings.
Joined(c) == [k \in 1..SentenceCount(c) |-> Join(Strings(Sentence(c, k - 1)))]

LEMMA JoinedType ==
  ASSUME NEW c \in Seq(WordToken)
  PROVE  /\ Joined(c) \in Seq(Seq(Char)) /\ Len(Joined(c)) = SentenceCount(c)
         /\ SentenceCount(c) \in Nat
         /\ Joined(c) = <<>> <=> c = <<>>
         /\ \A k \in 1..SentenceCount(c) : Joined(c)[k] = Join(Strings(Sentence(c, k - 1)))
<1>1. /\ SentenceCount(c) \in Nat /\ (c # <<>> => SentenceCount(c) # 0)
      /\ (c = <<>> => SentenceCount(c) = 0)
  BY EndsFacts
<1>2. \A k \in 1..SentenceCount(c) : Join(Strings(Sentence(c, k - 1))) \in Seq(Char)
  <2> TAKE k \in 1..SentenceCount(c)
  <2>1. k - 1 \in 0..(SentenceCount(c) - 1)
    BY <1>1
  <2>2. Sentence(c, k - 1) \in Seq(WordToken)
    BY <2>1, SentenceType
  <2> QED
    BY <2>2, JoinType
<1> DEFINE n == SentenceCount(c)
           f == [k \in 1..n |-> Join(Strings(Sentence(c, k - 1)))]
<1> HIDE DEF n
<1>3. f \in Seq(Seq(Char))
  BY <1>1, <1>2, IsASeq DEF n
<1>4. Len(f) = n /\ \A k \in 1..n : f[k] = Join(Strings(Sentence(c, k - 1)))
  BY <1>1, <1>3 DEF n
<1>5. Joined(c) = f
  BY DEF Joined, n
<1> HIDE DEF f
<1>6. f = <<>> <=> n = 0
  BY <1>3, <1>4, EmptySeq
<1> QED
  BY <1>1, <1>3, <1>4, <1>5, <1>6 DEF n

\* A sentence after a complete text is one string more.
LEMMA JoinedCut ==
  ASSUME NEW c \in Seq(WordToken), NEW e \in Seq(WordToken), Complete(c), OneSentence(e)
  PROVE  Joined(c \o e) = Append(Joined(c), Join(Strings(e)))
<1> DEFINE s == c \o e
           w == Join(Strings(e))
           n == SentenceCount(c)
           A == Joined(s)
           C == Joined(c)
           W == Append(C, w)
<1>1. s \in Seq(WordToken) /\ w \in Seq(Char)
  BY ConcatFacts, JoinType
<1>2. /\ n \in Nat /\ SentenceCount(s) = n + 1
      /\ \A k \in 0..(n - 1) : Sentence(s, k) = Sentence(c, k)
      /\ Sentence(s, n) = e
  BY CutSentences
<1>3. /\ C \in Seq(Seq(Char)) /\ Len(C) = n
      /\ \A k \in 1..n : C[k] = Join(Strings(Sentence(c, k - 1)))
  BY JoinedType
<1> HIDE DEF s, w, n
<1>4. /\ A \in Seq(Seq(Char)) /\ Len(A) = n + 1
      /\ \A k \in 1..(n + 1) : A[k] = Join(Strings(Sentence(s, k - 1)))
  BY <1>1, <1>2, JoinedType
<1> HIDE DEF C, A
<1>5. /\ W \in Seq(Seq(Char)) /\ Len(W) = n + 1 /\ W[n + 1] = w
      /\ \A k \in 1..n : W[k] = C[k]
  BY <1>1, <1>3, AppendFacts
<1> HIDE DEF W
<1>6. \A k \in 1..(n + 1) : A[k] = W[k]
  <2> TAKE k \in 1..(n + 1)
  <2>1. CASE k = n + 1
    <3>1. k - 1 = n
      BY <1>2, <2>1
    <3>2. A[k] = Join(Strings(e))
      BY <1>2, <1>4, <3>1
    <3> QED
      BY <1>5, <2>1, <3>2 DEF w
  <2>2. CASE k # n + 1
    <3>1. k \in 1..n /\ k - 1 \in 0..(n - 1)
      BY <1>2, <2>2
    <3> QED
      BY <1>2, <1>3, <1>4, <1>5, <3>1
  <2> QED
    BY <2>1, <2>2
<1>7. A = W
  BY <1>4, <1>5, <1>6, SeqEqual
<1> QED
  BY <1>7 DEF A, W, C, s, w

\* A word goes to the end of the current sentence, and a delimiter at its end
\* finishes the sentence.
LEMMA SentenceWord ==
  ASSUME NEW done, NEW cur \in Seq(Char), NEW t \in WordToken
  PROVE  Loop("sentence", Scan(done, cur), AsString(t))
           = IF t.delim THEN Scan(Append(done, cur \o AsString(t)), <<>>)
                        ELSE Scan(done, cur \o AsString(t))
<1> DEFINE a == t.atoms
<1>1. /\ a \in Seq(Atom) /\ a \in Seq(Char) /\ t.delim \in BOOLEAN
      /\ t.delim => AsString(t) = Append(a, Dot)
      /\ ~t.delim => AsString(t) = a
  BY AsStringFacts
<1> HIDE DEF a
<1>2. Loop("sentence", Scan(done, cur), a) = Scan(done, cur \o a)
  BY <1>1, LettersScanned
<1>3. CASE t.delim
  <2>1. Loop("sentence", Scan(done, cur), Append(a, Dot))
          = FoldStep("sentence", Scan(done, cur \o a), Dot)
    BY <1>1, <1>2, CharFacts, LoopAppend
  <2>2. FoldStep("sentence", Scan(done, cur \o a), Dot)
          = Scan(Append(done, Append(cur \o a, Dot)), <<>>)
    <3> DEFINE y == cur \o a
               st == Scan(done, y)
    <3> HIDE DEF y, st
    <3>1. FoldStep("sentence", st, Dot) = ScanSentence(st, Dot)
      BY DEF FoldStep
    <3>2. ScanSentence(st, Dot) = [done |-> Append(st.done, Append(st.cur, Dot)), cur |-> <<>>]
      BY CharFacts, Zenon DEF ScanSentence, IsDelimiter
    <3>3. st.done = done /\ st.cur = y
      BY DEF st, Scan
    <3> QED
      BY <3>1, <3>2, <3>3 DEF Scan, st, y
  <2>3. cur \o Append(a, Dot) = Append(cur \o a, Dot)
    BY <1>1, CharFacts, ConcatAppend
  <2> QED
    BY <1>1, <1>3, <2>1, <2>2, <2>3
<1>4. CASE ~t.delim
  BY <1>1, <1>2, <1>4
<1> QED
  BY <1>1, <1>3, <1>4

\* The delimiter of a word comes last in its sentence too.
LEMMA JoinClosed ==
  ASSUME NEW f \in Seq(WordToken), NEW q \in WordToken, ~q.delim
  PROVE  Join(Strings(Append(f, ClosedBy(q)))) = Append(Join(Strings(Append(f, q))), Dot)
<1> DEFINE u == Join(Strings(f))
           z == AsString(q)
           y == AsString(ClosedBy(q))
           ug == u \o <<Space>>
<1>1. ClosedBy(q) \in WordToken /\ ClosedBy(q).delim /\ ClosedBy(q).atoms = q.atoms
  BY ClosedByType DEF ClosedBy
<1>2. z \in Seq(Char) /\ z = q.atoms /\ y \in Seq(Char)
  BY <1>1, AsStringFacts
<1>3. y = Append(q.atoms, Dot)
  BY <1>1, AsStringFacts
<1>4. Strings(f) \in Seq(Seq(Char)) /\ u \in Seq(Char) /\ ug \in Seq(Char)
  BY StringsFacts, JoinType, CharFacts, ConcatOne, AppendFacts
<1>5. /\ Strings(Append(f, q)) = Append(Strings(f), z)
      /\ Strings(Append(f, ClosedBy(q))) = Append(Strings(f), y)
  BY <1>1, StringsAppend
<1> DEFINE F == Strings(f)
<1> HIDE DEF z, y, F, u
<1>6. /\ Join(Append(F, z)) = IF Join(F) = <<>> THEN z ELSE Join(F) \o <<Space>> \o z
      /\ Join(Append(F, y)) = IF Join(F) = <<>> THEN y ELSE Join(F) \o <<Space>> \o y
  BY <1>2, <1>4, JoinAppend DEF F
<1>7. y = Append(z, Dot)
  BY <1>2, <1>3
<1> HIDE DEF ug
<1>8. ug \o Append(z, Dot) = Append(ug \o z, Dot)
  BY <1>2, <1>4, CharFacts, ConcatAppend
<1>9. Join(Append(F, y)) = Append(Join(Append(F, z)), Dot)
  <2>1. Join(F) = u
    BY DEF F, u
  <2>2. CASE u = <<>>
    BY <1>6, <1>7, <2>1, <2>2
  <2>3. CASE u # <<>>
    <3>1. Join(Append(F, z)) = ug \o z /\ Join(Append(F, y)) = ug \o y
      BY <1>6, <2>1, <2>3 DEF ug
    <3> QED
      BY <1>7, <1>8, <3>1
  <2> QED
    BY <2>2, <2>3
<1> QED
  BY <1>5, <1>9 DEF F

\* A sentence that goes on: none of its words is closed.
Open(e) == \A i \in 1..Len(e) : ~e[i].delim

\* What the scan of the sentence built from ws has found: d are the finished
\* sentences of Rebuild(ws) and e the words after them.
Parsed(ws, d, e) ==
  /\ Rebuild(ws) = d \o e
  /\ Complete(d) /\ Open(e)
  /\ ws = <<>> => d = <<>> /\ e = <<>>
  /\ ws # <<>> => /\ d # <<>> \/ e # <<>>
                  /\ ws[Len(ws)].delim <=> e = <<>>
  /\ Loop("sentence", Scan(<<>>, <<>>), NewSentence(Strings(ws)))
       = Scan(Joined(d), Join(Strings(e)))

\* The string of one delimiter is that of the token that is nothing else.
LEMMA StandaloneString ==
  ASSUME NEW t \in WordToken
  PROVE  AsString(t) = <<Dot>> <=> Standalone(t)
<1> DEFINE a == t.atoms
           z == AsString(t)
<1>1. /\ a \in Seq(Atom) /\ a \in Seq(Char) /\ t.delim \in BOOLEAN
      /\ t.delim => z = Append(a, Dot)
      /\ ~t.delim => z = a
  BY AsStringFacts
<1> HIDE DEF a, z
<1>2. CASE t.delim
  <2>1. a = <<>> => Append(a, Dot) = <<Dot>>
    OBVIOUS
  <2>2. Len(Append(a, Dot)) = Len(a) + 1
    BY <1>1, CharFacts, AppendFacts
  <2>3. Len(<<Dot>>) = 1
    OBVIOUS
  <2>4. a # <<>> => Len(a) > 0
    BY <1>1
  <2>5. Append(a, Dot) = <<Dot>> <=> a = <<>>
    BY <1>1, <2>1, <2>2, <2>3, <2>4
  <2> QED
    BY <1>1, <1>2, <2>5 DEF Standalone, a, z
<1>3. CASE ~t.delim
  <2>1. Dot \notin Atom
    BY CharFacts
  <2>2. a # <<Dot>>
    <3> SUFFICES ASSUME a = <<Dot>> PROVE FALSE
      OBVIOUS
    <3>1. Len(a) = 1 /\ a[1] = Dot
      OBVIOUS
    <3>2. a[1] \in Atom
      BY <1>1, <3>1, ElementOfSeq
    <3> QED
      BY <2>1, <3>1, <3>2
  <2> QED
    BY <1>1, <1>3, <2>2 DEF Standalone, z
<1> QED
  BY <1>1, <1>2, <1>3

\* A space at the start of a sentence is skipped, except before the first one.
LEMMA SpaceScanned ==
  ASSUME NEW done, NEW cur
  PROVE  Loop("sentence", Scan(done, cur), <<Space>>)
           = IF cur = <<>> /\ done # <<>> THEN Scan(done, cur)
                                          ELSE Scan(done, Append(cur, Space))
<1> DEFINE st == Scan(done, cur)
<1>1. Loop("sentence", st, <<Space>>) = FoldStep("sentence", st, Space)
  BY LoopOne
<1>2. st.done = done /\ st.cur = cur
  BY DEF Scan
<1>3. [st EXCEPT !.cur = Append(@, Space)] = Scan(done, Append(cur, Space))
  BY DEF Scan
<1> HIDE DEF st
<1>4. FoldStep("sentence", st, Space) = ScanSentence(st, Space)
  BY DEF FoldStep
<1>5. ~IsDelimiter(Space)
  BY CharFacts DEF IsDelimiter
<1>6. ScanSentence(st, Space) = IF st.cur = <<>> /\ st.done # <<>> THEN st
                                ELSE [st EXCEPT !.cur = Append(@, Space)]
  BY <1>5, Zenon DEF ScanSentence
<1> QED
  BY <1>1, <1>2, <1>3, <1>4, <1>6 DEF st

\* A word that is not attached comes after the words of the current sentence.
LEMMA WordAdded ==
  ASSUME NEW ws \in Seq(WordToken), NEW t \in WordToken, ~AttachesTo(ws, t),
         NEW d \in Seq(WordToken), NEW e \in Seq(WordToken), Parsed(ws, d, e)
  PROVE  Loop("sentence", Scan(<<>>, <<>>), NewSentence(Strings(Append(ws, t))))
           = IF t.delim THEN Scan(Append(Joined(d), Join(Strings(Append(e, t)))), <<>>)
                        ELSE Scan(Joined(d), Join(Strings(Append(e, t))))
<1> DEFINE none == <<>>
           first == Scan(none, none)
           B == NewSentence(Strings(ws))
           w == AsString(t)
           J == Joined(d)
           u == Join(Strings(e))
           x == Join(Strings(Append(e, t)))
           gap == <<Space>>
           B2 == NewSentence(Strings(Append(ws, t)))
<1>1. w \in Seq(Char) /\ w # none /\ (w = <<Dot>> <=> Standalone(t))
  BY AsStringFacts, StandaloneString
<1>2. B \in Seq(Char) /\ (B = none <=> ws = none)
  BY BuiltLetters
<1>3. u \in Seq(Char) /\ (u = none <=> e = none) /\ (J = none <=> d = none)
  BY JoinType, JoinedType
<1>4. Strings(ws) \in Seq(Seq(Char)) /\ Strings(e) \in Seq(Seq(Char))
  BY StringsFacts
<1>5. B2 = AttachWord(B, w)
  <2>1. Strings(Append(ws, t)) = Append(Strings(ws), w)
    BY StringsAppend
  <2> HIDE DEF w
  <2>2. NewSentence(Append(Strings(ws), w)) = AttachWord(NewSentence(Strings(ws)), w)
    BY <1>1, <1>4, BuiltAppend
  <2> QED
    BY <2>1, <2>2
<1>6. x = IF u = none THEN w ELSE u \o <<Space>> \o w
  <2>1. Strings(Append(e, t)) = Append(Strings(e), w)
    BY StringsAppend
  <2> HIDE DEF w
  <2>2. Join(Append(Strings(e), w)) = IF Join(Strings(e)) = <<>> THEN w
                                      ELSE Join(Strings(e)) \o <<Space>> \o w
    BY <1>1, <1>4, JoinAppend
  <2> QED
    BY <2>1, <2>2
<1>7. \A cur \in Seq(Char) : Loop("sentence", Scan(J, cur), w)
        = IF t.delim THEN Scan(Append(J, cur \o w), none) ELSE Scan(J, cur \o w)
  BY SentenceWord
<1>8. gap \in Seq(Char) /\ none \in Seq(Char)
  BY CharFacts
<1>9. /\ Loop("sentence", first, B) = Scan(J, u)
      /\ ws = none => d = none /\ e = none
      /\ ws # none => d # none \/ e # none
      /\ ws # none => (ws[Len(ws)].delim <=> e = none)
  BY DEF Parsed
<1> HIDE DEF first, B, w, J, u, x, gap, B2
<1>10. SUFFICES \E cur \in Seq(Char) :
                  Loop("sentence", first, B2) = Loop("sentence", Scan(J, cur), w) /\ cur \o w = x
  <2>1. ASSUME NEW cur \in Seq(Char),
               Loop("sentence", first, B2) = Loop("sentence", Scan(J, cur), w), cur \o w = x
        PROVE  Loop("sentence", first, B2)
                 = IF t.delim THEN Scan(Append(J, x), none) ELSE Scan(J, x)
    BY <1>7, <2>1
  <2> QED
    BY <1>10, <2>1 DEF first, B2, J, x
<1> HIDE DEF none
<1>11. none \o w = w
  BY <1>1, ConcatEmptySeq DEF none
<1>12. CASE ws = none
  <2>1. B = none /\ u = none /\ J = none
    BY <1>2, <1>3, <1>9, <1>12
  <2>2. B2 = w
    BY <1>5, <2>1, Zenon DEF AttachWord, none
  <2>3. first = Scan(J, none)
    BY <2>1 DEF first
  <2>4. none \o w = x
    BY <1>6, <1>11, <2>1
  <2> QED
    BY <1>8, <2>2, <2>3, <2>4
<1>13. CASE ws # none /\ Standalone(t)
  <2>1. u = none
    BY <1>3, <1>9, <1>13 DEF AttachesTo, none
  <2>2. B2 = B \o w
    <3>1. B # <<>> /\ w = <<Dot>>
      BY <1>1, <1>2, <1>13 DEF none
    <3> QED
      BY <1>5, <3>1, Zenon DEF AttachWord
  <2>3. Loop("sentence", first, B \o w) = Loop("sentence", Loop("sentence", first, B), w)
    BY <1>1, <1>2, LoopConcat
  <2>4. none \o w = x
    BY <1>6, <1>11, <2>1
  <2> QED
    BY <1>8, <1>9, <2>1, <2>2, <2>3, <2>4
<1>14. CASE ws # none /\ ~Standalone(t)
  <2>1. B2 = B \o gap \o w
    <3>1. B # <<>> /\ w # <<Dot>>
      BY <1>1, <1>2, <1>14 DEF none
    <3> QED
      BY <1>5, <3>1, Zenon DEF AttachWord, gap
  <2>2. Loop("sentence", first, (B \o gap) \o w)
          = Loop("sentence", Loop("sentence", Loop("sentence", first, B), gap), w)
    BY <1>1, <1>2, <1>8, LoopConcatTwice
  <2>3. Loop("sentence", Scan(J, u), gap)
          = IF u = none /\ J # none THEN Scan(J, u) ELSE Scan(J, Append(u, Space))
    BY SpaceScanned DEF gap, none
  <2>4. CASE u = none
    <3>1. J # none
      BY <1>3, <1>9, <1>14, <2>4
    <3>2. none \o w = x
      BY <1>6, <1>11, <2>4
    <3> QED
      BY <1>8, <1>9, <2>1, <2>2, <2>3, <2>4, <3>1, <3>2
  <2>5. CASE u # none
    <3>1. u \o gap = Append(u, Space) /\ Append(u, Space) \in Seq(Char)
      BY <1>3, CharFacts, ConcatOne, AppendFacts DEF gap
    <3>2. Append(u, Space) \o w = x
      BY <1>6, <2>5, <3>1 DEF gap
    <3> QED
      BY <1>9, <2>1, <2>2, <2>3, <2>5, <3>1, <3>2
  <2> QED
    BY <2>4, <2>5
<1> QED
  BY <1>12, <1>13, <1>14

\* A delimiter that is attached finishes the current sentence.
LEMMA ParsedAttached ==
  ASSUME NEW ws \in Seq(WordToken), NEW t \in WordToken, AttachesTo(ws, t),
         NEW d \in Seq(WordToken), NEW e \in Seq(WordToken), Parsed(ws, d, e)
  PROVE  \E c \in Seq(WordToken) : Parsed(Append(ws, t), c, <<>>)
<1>1. /\ Rebuild(ws) = d \o e /\ Complete(d) /\ Open(e)
      /\ ws # <<>> /\ Standalone(t) /\ ~ws[Len(ws)].delim
      /\ e # <<>>
      /\ Loop("sentence", Scan(<<>>, <<>>), NewSentence(Strings(ws)))
           = Scan(Joined(d), Join(Strings(e)))
  BY DEF Parsed, AttachesTo
<1>2. PICK f \in Seq(WordToken), q \in WordToken : e = Append(f, q) /\ Len(f) = Len(e) - 1
  BY <1>1, FrontAndLast
<1> DEFINE g == Append(f, ClosedBy(q))
           c == d \o g
           v == Append(ws, t)
           first == Scan(<<>>, <<>>)
           B == NewSentence(Strings(ws))
           B2 == NewSentence(Strings(v))
           u == Join(Strings(e))
           J == Joined(d)
           dot == <<Dot>>
<1>3. ClosedBy(q) \in WordToken /\ ClosedBy(q).delim
  BY ClosedByType DEF ClosedBy
<1>4. /\ g \in Seq(WordToken) /\ g # <<>> /\ Len(g) = Len(f) + 1 /\ Len(f) \in Nat
      /\ g[Len(f) + 1] = ClosedBy(q)
      /\ \A i \in 1..Len(f) : g[i] = f[i]
  BY <1>3, AppendFacts
<1>5. /\ Len(e) = Len(f) + 1 /\ e[Len(f) + 1] = q
      /\ \A i \in 1..Len(f) : e[i] = f[i]
  BY <1>2, AppendFacts
<1>6. ~q.delim /\ \A i \in 1..Len(f) : ~f[i].delim
  BY <1>1, <1>4, <1>5 DEF Open
<1>7. OneSentence(g)
  <2> HIDE DEF g
  <2> QED
    BY <1>4, <1>6 DEF OneSentence
<1>8. c \in Seq(WordToken) /\ Len(c) = Len(d) + Len(g) /\ Len(d) \in Nat
      /\ \A i \in 1..Len(g) : c[Len(d) + i] = g[i]
  <2>1. \A a, b \in Seq(WordToken) :
         /\ a \o b \in Seq(WordToken) /\ Len(a \o b) = Len(a) + Len(b) /\ Len(a) \in Nat
         /\ \A i \in 1..Len(b) : (a \o b)[Len(a) + i] = b[i]
    BY ConcatFacts
  <2> HIDE DEF g
  <2> QED
    BY <1>4, <2>1
<1>9. c # <<>> /\ Complete(c)
  <2> HIDE DEF c, g
  <2>1. Len(c) = Len(d) + (Len(f) + 1) /\ Len(f) + 1 \in 1..Len(g)
    BY <1>4, <1>8
  <2>2. c[Len(c)] = ClosedBy(q)
    BY <1>4, <1>8, <2>1
  <2>3. Len(c) # 0
    BY <1>4, <1>8, <2>1
  <2> QED
    BY <1>3, <2>2, <2>3 DEF Complete
<1>10. Joined(c) = Append(J, Append(u, Dot))
  <2>1. Joined(c) = Append(J, Join(Strings(g)))
    <3> HIDE DEF g
    <3> QED
      BY <1>1, <1>4, <1>7, JoinedCut
  <2>2. Join(Strings(g)) = Append(u, Dot)
    BY <1>2, <1>6, JoinClosed
  <2> QED
    BY <2>1, <2>2
<1>11. Rebuild(v) = c
  <2>1. d \o Append(f, q) = Append(d \o f, q)
    BY ConcatAppend
  <2>2. d \o f \in Seq(WordToken)
    BY ConcatFacts
  <2>3. Rebuild(ws) = Append(d \o f, q)
    BY <1>1, <1>2, <2>1
  <2> DEFINE df == d \o f
  <2>4. df \in Seq(WordToken) /\ Rebuild(ws) = Append(df, q)
    BY <2>2, <2>3
  <2> HIDE DEF df
  <2>5. Rebuild(Append(ws, t)) = Append(df, ClosedBy(q))
    BY <2>4, RebuildAttached
  <2>6. d \o Append(f, ClosedBy(q)) = Append(d \o f, ClosedBy(q))
    BY <1>3, ConcatAppend
  <2> QED
    BY <2>5, <2>6 DEF df
<1>12. v \in Seq(WordToken) /\ v # <<>> /\ v[Len(v)] = t
  BY AppendFacts
<1>13. t.delim
  BY <1>1 DEF Standalone
<1>14. Loop("sentence", first, B2) = Scan(Joined(c), <<>>)
  <2>1. AsString(t) = dot /\ B \in Seq(Char) /\ B # <<>>
    BY <1>1, StandaloneString, BuiltLetters
  <2>2. B2 = AttachWord(B, dot)
    <3>1. Strings(v) = Append(Strings(ws), dot)
      BY <2>1, StringsAppend
    <3>2. Strings(ws) \in Seq(Seq(Char)) /\ dot \in Seq(Char)
      BY StringsFacts, CharFacts
    <3> HIDE DEF dot
    <3>3. NewSentence(Append(Strings(ws), dot)) = AttachWord(NewSentence(Strings(ws)), dot)
      BY <3>2, BuiltAppend
    <3> QED
      BY <3>1, <3>3
  <2>3. B2 = Append(B, Dot)
    <3>1. B2 = B \o dot
      BY <2>1, <2>2, Zenon DEF AttachWord
    <3> QED
      BY <2>1, <3>1, CharFacts, ConcatOne
  <2> HIDE DEF B, B2, first, u, J, c
  <2>4. Loop("sentence", first, Append(B, Dot)) = FoldStep("sentence", Scan(J, u), Dot)
    BY <1>1, <2>1, CharFacts, LoopAppend DEF first, B, J, u
  <2> DEFINE st == Scan(J, u)
  <2>5. st.done = J /\ st.cur = u
    BY DEF Scan
  <2> HIDE DEF st
  <2>6. FoldStep("sentence", st, Dot) = ScanSentence(st, Dot)
    BY DEF FoldStep
  <2>7. ScanSentence(st, Dot) = [done |-> Append(st.done, Append(st.cur, Dot)), cur |-> <<>>]
    BY CharFacts, Zenon DEF ScanSentence, IsDelimiter
  <2> QED
    BY <1>10, <2>3, <2>4, <2>5, <2>6, <2>7 DEF Scan, st
<1>15. Rebuild(v) = c \o <<>>
  BY <1>8, <1>11, ConcatEmptySeq
<1>16. Join(Strings(<<>>)) = <<>>
  BY StringsEmpty, JoinEmpty
<1>17. Open(<<>>)
  BY DEF Open
<1> HIDE DEF c, v
<1>18. Parsed(v, c, <<>>)
  BY <1>9, <1>12, <1>13, <1>14, <1>15, <1>16, <1>17 DEF Parsed
<1> QED
  BY <1>8, <1>18 DEF v

\* Any other word joins the current sentence, and finishes it when it is closed.
LEMMA ParsedAdded ==
  ASSUME NEW ws \in Seq(WordToken), NEW t \in WordToken, ~AttachesTo(ws, t),
         NEW d \in Seq(WordToken), NEW e \in Seq(WordToken), Parsed(ws, d, e)
  PROVE  \E c, f \in Seq(WordToken) : Parsed(Append(ws, t), c, f)
<1> DEFINE g == Append(e, t)
           c == d \o g
           v == Append(ws, t)
<1>1. Rebuild(ws) = d \o e /\ Complete(d) /\ Open(e)
  BY DEF Parsed
<1>2. /\ g \in Seq(WordToken) /\ g # <<>> /\ Len(g) = Len(e) + 1 /\ Len(e) \in Nat
      /\ g[Len(e) + 1] = t
      /\ \A i \in 1..Len(e) : g[i] = e[i]
  BY AppendFacts
<1>3. v \in Seq(WordToken) /\ v # <<>> /\ v[Len(v)] = t
  BY AppendFacts
<1>4. Rebuild(v) = c
  <2>1. Rebuild(v) = Append(d \o e, t)
    BY <1>1, RebuildAppend
  <2>2. d \o Append(e, t) = Append(d \o e, t)
    BY ConcatAppend
  <2> QED
    BY <2>1, <2>2
<1>5. Loop("sentence", Scan(<<>>, <<>>), NewSentence(Strings(v)))
        = IF t.delim THEN Scan(Append(Joined(d), Join(Strings(g))), <<>>)
                     ELSE Scan(Joined(d), Join(Strings(g)))
  BY WordAdded
<1> HIDE DEF g, v
<1>6. OneSentence(g)
  BY <1>1, <1>2, SMTT(30) DEF OneSentence, Open
<1>7. t.delim \in BOOLEAN
  BY DEF WordToken, Token
<1>8. CASE t.delim
  <2>1. c \in Seq(WordToken) /\ Len(c) = Len(d) + Len(g) /\ Len(d) \in Nat
        /\ \A i \in 1..Len(g) : c[Len(d) + i] = g[i]
    <3>1. \A a, b \in Seq(WordToken) :
           /\ a \o b \in Seq(WordToken) /\ Len(a \o b) = Len(a) + Len(b) /\ Len(a) \in Nat
           /\ \A i \in 1..Len(b) : (a \o b)[Len(a) + i] = b[i]
      BY ConcatFacts
    <3> QED
      BY <1>2, <3>1
  <2>2. Joined(c) = Append(Joined(d), Join(Strings(g)))
    BY <1>1, <1>2, <1>6, JoinedCut
  <2>3. Rebuild(v) = c \o <<>>
    BY <1>4, <2>1, ConcatEmptySeq
  <2> HIDE DEF c
  <2>4. c # <<>> /\ Complete(c)
    <3>1. Len(c) = Len(d) + (Len(e) + 1) /\ Len(e) + 1 \in 1..Len(g)
      BY <1>2, <2>1
    <3>2. c[Len(c)] = t /\ Len(c) # 0
      BY <1>2, <2>1, <3>1
    <3> QED
      BY <1>8, <3>2 DEF Complete
  <2>5. Join(Strings(<<>>)) = <<>> /\ Open(<<>>)
    BY StringsEmpty, JoinEmpty DEF Open
  <2>6. Parsed(v, c, <<>>)
    BY <1>3, <1>5, <1>8, <2>2, <2>3, <2>4, <2>5 DEF Parsed
  <2> QED
    BY <2>1, <2>6, StringsEmpty DEF v
<1>9. CASE ~t.delim
  <2>0. \A i \in 1..Len(g) : i = Len(e) + 1 \/ i \in 1..Len(e)
    BY <1>2
  <2>1. Open(g)
    <3>1. ASSUME NEW i \in 1..Len(g) PROVE ~g[i].delim
      <4>1. CASE i = Len(e) + 1
        BY <1>2, <1>9, <4>1
      <4>2. CASE i \in 1..Len(e)
        BY <1>1, <1>2, <4>2 DEF Open
      <4> QED
        BY <2>0, <4>1, <4>2
    <3> QED
      BY <3>1 DEF Open
  <2>2. Parsed(v, d, g)
    BY <1>1, <1>2, <1>3, <1>4, <1>5, <1>9, <2>1 DEF Parsed
  <2> QED
    BY <1>2, <2>2 DEF v
<1> QED
  BY <1>7, <1>8, <1>9

\* The scan goes through the sentence built from any array of words as Rebuild
\* and SentenceEnds say.
LEMMA ParsedAlways ==
  ASSUME NEW ws \in Seq(WordToken)
  PROVE  \E d, e \in Seq(WordToken) : Parsed(ws, d, e)
<1> DEFINE none == <<>>
           S == {s \in Seq(WordToken) : \E d, e \in Seq(WordToken) : Parsed(s, d, e)}
<1>1. none \in S
  <2>1. none \in Seq(WordToken) /\ Strings(none) = none /\ Join(none) = none
    BY StringsEmpty, JoinEmpty
  <2>2. NewSentence(none) = none /\ Loop("sentence", Scan(none, none), none) = Scan(none, none)
    BY BuiltEmpty, LoopEmpty
  <2>3. Joined(none) = none
    BY <2>1, JoinedType
  <2>4. Rebuild(none) = none
    <3>1. /\ Kept(none) \in SUBSET (1..Len(none)) /\ Rebuild(none) \in Seq(WordToken)
          /\ Len(Rebuild(none)) = Cardinality(Kept(none))
      BY <2>1, KeptFacts
    <3>2. Len(none) = 0
      OBVIOUS
    <3>3. Kept(none) = {}
      BY <3>1, <3>2
    <3>4. Len(Rebuild(none)) = 0
      BY <3>1, <3>3, FS_EmptySet
    <3> QED
      BY <3>1, <3>4, EmptySeq
  <2>5. none \o none = none
    BY <2>1, ConcatEmptySeq
  <2>6. Complete(none) /\ Open(none)
    BY DEF Complete, Open
  <2>7. Parsed(none, none, none)
    BY <2>1, <2>2, <2>3, <2>4, <2>5, <2>6 DEF Parsed
  <2> QED
    BY <2>1, <2>7
<1>2. ASSUME NEW s \in Seq(WordToken), NEW t \in WordToken, s \in S
      PROVE  Append(s, t) \in S
  <2>1. Append(s, t) \in Seq(WordToken)
    BY AppendFacts
  <2>2. PICK d \in Seq(WordToken), e \in Seq(WordToken) : Parsed(s, d, e)
    BY <1>2
  <2>3. CASE AttachesTo(s, t)
    BY <2>1, <2>2, <2>3, ParsedAttached, StringsEmpty
  <2>4. CASE ~AttachesTo(s, t)
    BY <2>1, <2>2, <2>4, ParsedAdded
  <2> QED
    BY <2>3, <2>4
<1> HIDE DEF S
<1>3. \A s \in Seq(WordToken) : s \in S
  BY <1>1, <1>2, SequenceInduction
<1> QED
  BY <1>3 DEF S

\* Parsing the sentence built from an array of words gives the sentences of
\* Rebuild.
LEMMA ParseRebuilt ==
  ASSUME NEW ws \in Seq(WordToken)
  PROVE  /\ Rebuild(ws) \in Seq(WordToken)
         /\ ParseSentences(NewSentence(Strings(ws))) = Joined(Rebuild(ws))
<1>1. PICK d \in Seq(WordToken), e \in Seq(WordToken) : Parsed(ws, d, e)
  BY ParsedAlways
<1> DEFINE B == NewSentence(Strings(ws))
           first == Scan(<<>>, <<>>)
           u == Join(Strings(e))
           end == Scan(Joined(d), u)
<1>2. /\ Rebuild(ws) = d \o e /\ Complete(d) /\ Open(e)
      /\ Loop("sentence", first, B) = end
  BY <1>1 DEF Parsed
<1>3. B \in Seq(Char)
  BY BuiltLetters
<1>4. FoldLeft(ScanSentence, first, B) = end
  <2> HIDE DEF B, first, end
  <2> QED
    BY <1>2, <1>3, ScanSentenceLoop
<1>5. end.done = Joined(d) /\ end.cur = u
  BY DEF Scan
<1>6. ParseSentences(B) = IF end.cur = <<>> THEN end.done ELSE Append(end.done, end.cur)
  <2> HIDE DEF B, end
  <2> QED
    BY <1>4 DEF ParseSentences, first, Scan
<1>7. d \o e \in Seq(WordToken)
  BY ConcatFacts
<1>8. u = <<>> <=> e = <<>>
  BY JoinType
<1>9. CASE e = <<>>
  <2>1. d \o e = d
    BY <1>9, ConcatEmptySeq
  <2> QED
    BY <1>2, <1>5, <1>6, <1>7, <1>8, <1>9, <2>1
<1>10. CASE e # <<>>
  <2>1. OneSentence(e)
    BY <1>2, <1>10 DEF OneSentence, Open
  <2>2. Joined(d \o e) = Append(Joined(d), u)
    BY <1>2, <2>1, JoinedCut
  <2> QED
    BY <1>2, <1>5, <1>6, <1>7, <1>8, <1>10, <2>2
<1> QED
  BY <1>9, <1>10

-----------------------------------------------------------------------------
(* The inductive invariant                                                  *)

\* The words of the target the array had room for.
Origin == TargetWords(start, 0)

\* What the session has typed: the words and the shadow are one text, and the
\* letters in it are those of the start and of the words received.
SessionType ==
  /\ start \in Targets
  /\ shadow \in Seq(WordToken)
  /\ sent \in Seq(Inserts)
  /\ phase \in {"editing", "committed", "aborted"}

LettersCounted ==
  \A ch \in Atom :
    CountOf(Spelled(shadow), ch) = CountOf(Spelled(Origin), ch) + CountOf(Spelled(sent), ch)

EditorInv ==
  /\ SessionType
  /\ words = Strings(shadow)
  /\ built = IF phase = "committed" THEN NewSentence(words) ELSE <<>>
  /\ LettersCounted

\* A session starts in step.
LEMMA InitInv == Init => EditorInv
<1> SUFFICES ASSUME Init PROVE EditorInv
  OBVIOUS
<1>1. /\ start \in Targets /\ shadow = Origin /\ sent = <<>> /\ built = <<>>
      /\ phase = "editing"
  BY DEF Init, Origin
<1>2. /\ Origin \in Seq(WordToken)
      /\ Take(SplitWords(Join([i \in DOMAIN start |-> AsString(start[i])])), MaxWords)
           = Strings(Origin)
  BY <1>1, StartWords DEF Origin
<1>3. SessionType
  BY <1>1, <1>2 DEF SessionType
<1>4. words = Strings(shadow)
  BY <1>1, <1>2 DEF Init
<1>5. LettersCounted
  <2>1. ASSUME NEW ch \in Atom
        PROVE  CountOf(Spelled(shadow), ch)
                 = CountOf(Spelled(Origin), ch) + CountOf(Spelled(sent), ch)
    <3>1. CountOf(Spelled(sent), ch) = 0
      BY <1>1, SpelledEmpty, CountEmpty
    <3>2. Spelled(Origin) \in Seq(Atom)
      BY <1>2, SpelledType
    <3>3. CountOf(Spelled(Origin), ch) \in Nat
      BY <3>2, CountType
    <3> QED
      BY <1>1, <3>1, <3>3
  <2> QED
    BY <2>1 DEF LettersCounted
<1> QED
  BY <1>1, <1>3, <1>4, <1>5 DEF EditorInv

\* What the array and its shadow are before and after a word is received.
LEMMA ReceiveFacts ==
  ASSUME EditorInv, NEW p \in 1..MaxWords, NEW t \in Inserts, ReceiveWord(p, t)
  PROVE  /\ t \in WordToken /\ p \in 1..(Len(shadow) + 1) /\ Representable(shadow, p, t)
         /\ shadow \in Seq(WordToken) /\ shadow' = InsertWord(shadow, p, t)
         /\ shadow' \in Seq(WordToken) /\ words' = Strings(shadow')
         /\ sent \in Seq(Inserts) /\ sent' = Append(sent, t) /\ sent' \in Seq(Inserts)
         /\ start' = start /\ built' = built /\ phase' = phase /\ phase = "editing"
<1>1. shadow \in Seq(WordToken) /\ sent \in Seq(Inserts) /\ words = Strings(shadow)
  BY DEF EditorInv, SessionType
<1>2. t \in WordToken
  BY InsertsFacts
<1>3. p - 1 <= Len(words) /\ Len(words) = Len(shadow) /\ Len(shadow) \in Nat
  BY <1>1, StringsFacts DEF ReceiveWord
<1>4. MaxWords \in Nat
  BY MaxWordsAssumption
<1>5. p \in 1..(Len(shadow) + 1)
  BY <1>3, <1>4
<1>6. /\ Representable(shadow, p, t) /\ shadow' = InsertWord(shadow, p, t)
      /\ words' = InsertString(words, p - 1, AsString(t)) /\ sent' = Append(sent, t)
      /\ start' = start /\ built' = built /\ phase' = phase /\ phase = "editing"
  BY DEF ReceiveWord
<1>7. shadow' \in Seq(WordToken)
  BY <1>1, <1>2, <1>5, <1>6, InsertType
<1>8. words' = Strings(shadow')
  BY <1>1, <1>2, <1>5, <1>6, EditStrings
<1>9. sent' \in Seq(Inserts)
  BY <1>1, <1>6, AppendFacts
<1> QED
  BY <1>1, <1>2, <1>5, <1>6, <1>7, <1>8, <1>9

\* Every step of the session keeps the invariant.
LEMMA StepInv == EditorInv /\ [Next]_vars => EditorInv'
<1> SUFFICES ASSUME EditorInv, [Next]_vars PROVE EditorInv'
  OBVIOUS
<1>1. ASSUME NEW p \in 1..MaxWords, NEW t \in Inserts, ReceiveWord(p, t)
      PROVE  EditorInv'
  <2>1. /\ t \in WordToken /\ p \in 1..(Len(shadow) + 1) /\ Representable(shadow, p, t)
        /\ shadow \in Seq(WordToken) /\ shadow' = InsertWord(shadow, p, t)
        /\ shadow' \in Seq(WordToken) /\ words' = Strings(shadow')
        /\ sent \in Seq(Inserts) /\ sent' = Append(sent, t) /\ sent' \in Seq(Inserts)
        /\ start' = start /\ built' = built /\ phase' = phase /\ phase = "editing"
    BY <1>1, ReceiveFacts
  <2>2. SessionType'
    BY <2>1 DEF EditorInv, SessionType
  <2>3. LettersCounted'
    <3>1. sent \in Seq(WordToken) /\ Origin \in Seq(WordToken)
      BY <2>1, SentFacts, StartWords DEF EditorInv, SessionType, Origin
    <3>2. Spelled(sent') = Spelled(sent) \o t.atoms
      BY <2>1, <3>1, SpelledAppend
    <3>3. /\ Spelled(shadow) \in Seq(Atom) /\ Spelled(sent) \in Seq(Atom)
          /\ Spelled(Origin) \in Seq(Atom) /\ t.atoms \in Seq(Atom)
      BY <2>1, <3>1, SpelledType, AsStringFacts
    <3>4. Origin' = Origin
      BY <2>1 DEF Origin
    <3>5. ASSUME NEW ch \in Atom
          PROVE  CountOf(Spelled(shadow'), ch)
                   = CountOf(Spelled(Origin), ch) + CountOf(Spelled(sent'), ch)
      <4>1. CountOf(Spelled(InsertWord(shadow, p, t)), ch)
              = CountOf(Spelled(shadow), ch) + CountOf(t.atoms, ch)
        BY <2>1, InsertCount
      <4>2. CountOf(Spelled(sent) \o t.atoms, ch)
              = CountOf(Spelled(sent), ch) + CountOf(t.atoms, ch)
        BY <3>3, CountConcat
      <4>3. CountOf(Spelled(shadow), ch)
              = CountOf(Spelled(Origin), ch) + CountOf(Spelled(sent), ch)
        BY DEF EditorInv, LettersCounted
      <4>4. /\ CountOf(Spelled(Origin), ch) \in Nat /\ CountOf(Spelled(sent), ch) \in Nat
            /\ CountOf(t.atoms, ch) \in Nat
        BY <3>3, CountType
      <4> QED
        BY <2>1, <3>2, <4>1, <4>2, <4>3, <4>4
    <3> QED
      BY <3>4, <3>5 DEF LettersCounted
  <2>4. built' = IF phase' = "committed" THEN NewSentence(words') ELSE <<>>
    BY <2>1 DEF EditorInv
  <2> QED
    BY <2>1, <2>2, <2>3, <2>4 DEF EditorInv
<1>2. CASE Etirw
  BY <1>2 DEF Etirw, EditorInv, SessionType, LettersCounted, Origin
<1>3. CASE Disconnect
  BY <1>3 DEF Disconnect, EditorInv, SessionType, LettersCounted, Origin
<1>4. CASE UNCHANGED vars
  BY <1>4 DEF vars, EditorInv, SessionType, LettersCounted, Origin
<1> QED
  BY <1>1, <1>2, <1>3, <1>4 DEF Next

\* The words of the array are the strings of the shadow in every state of every
\* session, whatever words arrive at whatever positions, and no letter of the
\* sentence or of a word received is missing or there twice (the insertion
\* code of handle_write_file).
THEOREM Invariant == Spec => []EditorInv
<1>1. Init => EditorInv
  BY InitInv
<1>2. EditorInv /\ [Next]_vars => EditorInv'
  BY StepInv
<1> QED
  BY <1>1, <1>2, PTL DEF Spec

-----------------------------------------------------------------------------
(* What follows from it                                                     *)

\* The words and the sentence built from them are strings of letters, spaces
\* and delimiters.
THEOREM TypeCorrect == Spec => []TypeOK
<1>1. EditorInv => TypeOK
  <2> SUFFICES ASSUME EditorInv PROVE TypeOK
    OBVIOUS
  <2>1. shadow \in Seq(WordToken) /\ words = Strings(shadow)
    BY DEF EditorInv, SessionType
  <2>2. words \in Seq(Seq(Char)) /\ NewSentence(words) \in Seq(Char) /\ <<>> \in Seq(Char)
    BY <2>1, StringsFacts, BuiltLetters
  <2>3. built \in Seq(Char)
    BY <2>2 DEF EditorInv
  <2>4. WordToken \subseteq Token
    BY DEF WordToken
  <2>5. shadow \in Text
    BY <2>1, <2>4, SeqMonotonic DEF Text
  <2> QED
    BY <2>2, <2>3, <2>5 DEF TypeOK, EditorInv, SessionType, Char
<1> QED
  BY <1>1, Invariant, PTL

\* No path of the insertion code drops or repeats a word, and neither does the
\* loop that builds the sentence at ETIRW.
THEOREM LettersKept == Spec => []LettersConserved
<1>1. EditorInv => LettersConserved
  <2> SUFFICES ASSUME EditorInv, phase = "committed", NEW ch \in Atom
               PROVE  CountOf(built, ch) = CountOf(TokenString(TargetWords(start, 0)), ch)
                                             + CountOf(TokenString(sent), ch)
    BY DEF LettersConserved
  <2>1. /\ shadow \in Seq(WordToken) /\ sent \in Seq(WordToken) /\ start \in Targets
        /\ built = NewSentence(Strings(shadow))
    BY SentFacts DEF EditorInv, SessionType
  <2>2. Origin \in Seq(WordToken)
    BY <2>1, StartWords DEF Origin
  <2>3. /\ TokenString(Origin) = Join(Strings(Origin))
        /\ TokenString(sent) = Join(Strings(sent))
    BY DEF TokenString, Strings
  <2>4. /\ built \in Seq(Char) /\ Letters(built) = Spelled(shadow)
        /\ Join(Strings(Origin)) \in Seq(Char) /\ Join(Strings(sent)) \in Seq(Char)
    BY <2>1, <2>2, BuiltLetters, JoinType
  <2>5. /\ CountOf(built, ch) = CountOf(Spelled(shadow), ch)
        /\ CountOf(TokenString(Origin), ch) = CountOf(Spelled(Origin), ch)
        /\ CountOf(TokenString(sent), ch) = CountOf(Spelled(sent), ch)
    BY <2>3, <2>4, CountLetters DEF Spelled
  <2>6. CountOf(Spelled(shadow), ch)
          = CountOf(Spelled(Origin), ch) + CountOf(Spelled(sent), ch)
    BY DEF EditorInv, LettersCounted
  <2> QED
    BY <2>5, <2>6 DEF Origin
<1> QED
  BY <1>1, Invariant, PTL

\* What was in the array stays there in its order: the letters before a step are
\* a subsequence of the letters after it.
THEOREM OrderStays == Spec => OrderKept
<1>1. EditorInv /\ [Next]_vars
        => [IsSubsequence(Letters(Join(words)), Letters(Join(words')))]_vars
  <2> SUFFICES ASSUME EditorInv, Next
               PROVE  IsSubsequence(Letters(Join(words)), Letters(Join(words')))
    OBVIOUS
  <2>0. /\ shadow \in Seq(WordToken) /\ words = Strings(shadow)
        /\ Letters(Join(words)) = Spelled(shadow) /\ Spelled(shadow) \in Seq(Atom)
    BY SpelledType DEF EditorInv, SessionType, Spelled
  <2>1. ASSUME NEW p \in 1..MaxWords, NEW t \in Inserts, ReceiveWord(p, t)
        PROVE  IsSubsequence(Letters(Join(words)), Letters(Join(words')))
    <3>1. /\ t \in WordToken /\ p \in 1..(Len(shadow) + 1) /\ Representable(shadow, p, t)
          /\ shadow' = InsertWord(shadow, p, t) /\ words' = Strings(shadow')
      BY <2>1, ReceiveFacts
    <3>2. Letters(Join(words')) = Spelled(InsertWord(shadow, p, t))
      BY <3>1 DEF Spelled
    <3> QED
      BY <2>0, <3>1, <3>2, InsertKeepsOrder
  <2>2. CASE Etirw \/ Disconnect
    <3>1. words' = words
      BY <2>2 DEF Etirw, Disconnect
    <3> QED
      BY <2>0, <3>1, SubsequenceOfItself
  <2> QED
    BY <2>1, <2>2 DEF Next
<1> QED
  BY <1>1, Invariant, PTL DEF Spec, OrderKept

\* The array of strings and the tokens of Sentences stay in step through every
\* merge, insertion and append, and the sentence built at ETIRW, parsed again
\* into sentences and words, gives the tokens of Rebuild: the token operators
\* stand for the string code in every other module.
THEOREM WordsStayInStep == Spec => []WordsAgree
<1>1. EditorInv => WordsAgree
  <2> SUFFICES ASSUME EditorInv PROVE EditAgrees /\ RebuildAgrees
    BY DEF WordsAgree
  <2>1. shadow \in Seq(WordToken) /\ words = Strings(shadow)
    BY DEF EditorInv, SessionType
  <2>2. EditAgrees
    BY <2>1 DEF EditAgrees, Strings
  <2>3. ASSUME phase = "committed"
        PROVE  /\ Len(ParseSentences(built)) = SentenceCount(Rebuild(shadow))
               /\ \A k \in 1..Len(ParseSentences(built)) :
                    SplitWords(ParseSentences(built)[k])
                      = Strings(Sentence(Rebuild(shadow), k - 1))
    <3> DEFINE c == Rebuild(shadow)
    <3>1. built = NewSentence(Strings(shadow))
      BY <2>1, <2>3 DEF EditorInv
    <3>2. c \in Seq(WordToken) /\ ParseSentences(built) = Joined(c)
      BY <2>1, <3>1, ParseRebuilt
    <3> HIDE DEF c
    <3>3. /\ Len(Joined(c)) = SentenceCount(c) /\ SentenceCount(c) \in Nat
          /\ \A k \in 1..SentenceCount(c) : Joined(c)[k] = Join(Strings(Sentence(c, k - 1)))
      BY <3>2, JoinedType
    <3>4. ASSUME NEW k \in 1..SentenceCount(c)
          PROVE  SplitWords(Joined(c)[k]) = Strings(Sentence(c, k - 1))
      <4>1. k - 1 \in 0..(SentenceCount(c) - 1)
        BY <3>3
      <4>2. Sentence(c, k - 1) \in Seq(WordToken)
        BY <3>2, <4>1, SentenceType
      <4> QED
        BY <3>3, <4>2, SplitJoin
    <3> QED
      BY <3>2, <3>3, <3>4 DEF c
  <2>4. RebuildAgrees
    BY <2>3 DEF RebuildAgrees, Strings
  <2> QED
    BY <2>2, <2>4
<1> QED
  BY <1>1, Invariant, PTL

=============================================================================
