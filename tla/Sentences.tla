----------------------------- MODULE Sentences -----------------------------
(***************************************************************************)
(* The text of a file as the storage server sees it: words separated by    *)
(* single spaces, cut into sentences after every word that ends with one   *)
(* of . ! ?  A text is a sequence of tokens, a token being a word with the *)
(* fragments it was glued from and whether a delimiter closes it.  The     *)
(* three delimiters are one: the code never compares them.                 *)
(*                                                                         *)
(* Joining sentences with single spaces and parsing the result again gives *)
(* back the same tokens, so replacing an entry of the sentence array and   *)
(* rebuilding the file is a splice of token sequences.                     *)
(***************************************************************************)
EXTENDS Integers, Sequences, FiniteSets

CONSTANTS Atom,       \* fragments of words: no space and no delimiter inside
          MaxWords    \* MAX_WORDS_PER_SENTENCE

ASSUME MaxWordsAssumption == MaxWords \in Nat \ {0}

Token == [atoms : Seq(Atom), delim : BOOLEAN]
Text  == Seq(Token)

\* A token that is nothing but a delimiter: ".", "!" or "?".
Standalone(t) == t.atoms = <<>> /\ t.delim

Word(a)    == [atoms |-> <<a>>, delim |-> FALSE]
Closing(a) == [atoms |-> <<a>>, delim |-> TRUE]
Delimiter  == [atoms |-> <<>>, delim |-> TRUE]

\* The k-th smallest element of a finite set of numbers (k counts from 1).
NthLeast(S, k) ==
  CHOOSE i \in S : Cardinality({j \in S : j <= i}) = k

----------------------------------------------------------------------------
(* parse_sentences: sentence indices count from 0, as on the wire.         *)

SentenceEnds(c)  == {i \in 1..Len(c) : c[i].delim \/ i = Len(c)}
SentenceCount(c) == Cardinality(SentenceEnds(c))

SentenceFirst(c, k) == IF k = 0 THEN 1 ELSE NthLeast(SentenceEnds(c), k) + 1
SentenceLast(c, k)  == NthLeast(SentenceEnds(c), k + 1)

Sentence(c, k) == SubSeq(c, SentenceFirst(c, k), SentenceLast(c, k))

LastHasDelim(c) == c # <<>> /\ c[Len(c)].delim

\* The index check of handle_write_file: an existing sentence, or one past
\* the last when the last one is closed by a delimiter.
IndexValid(c, k) ==
  /\ k \in 0..SentenceCount(c)
  /\ k = SentenceCount(c) /\ k > 0 => LastHasDelim(c)

\* The words a session starts from: strtok stops at the array's capacity.
TargetWords(c, k) ==
  IF k < SentenceCount(c)
    THEN LET s == Sentence(c, k)
         IN  SubSeq(s, 1, IF Len(s) < MaxWords THEN Len(s) ELSE MaxWords)
    ELSE <<>>

----------------------------------------------------------------------------
(* Insertion of one word by the interactive loop, p counting from 1.       *)

\* Faulty variant: one word too many.
PositionValidLoose(ws, p) == p \in 1..(Len(ws) + 1) /\ Len(ws) <= MaxWords

PositionValid(ws, p) == p \in 1..(Len(ws) + 1) /\ Len(ws) < MaxWords

InsertAtPosition(ws, p, t) ==
  SubSeq(ws, 1, p - 1) \o <<t>> \o SubSeq(ws, p, Len(ws))

\* The new word goes between the word and its closing delimiter.
MergeInto(ws, q, t) ==
  [ws EXCEPT ![q] = [atoms |-> ws[q].atoms \o t.atoms, delim |-> TRUE]]

MergesInMiddle(ws, p) == p > 1 /\ p <= Len(ws) /\ ws[p - 1].delim

MergesAtEnd(ws, p, t) ==
  /\ p = Len(ws) + 1 /\ p > 1
  /\ ws[p - 1].delim
  /\ ~Standalone(ws[p - 1])
  /\ ~t.delim

InsertWord(ws, p, t) ==
  IF MergesInMiddle(ws, p) \/ MergesAtEnd(ws, p, t)
    THEN MergeInto(ws, p - 1, t)
    ELSE InsertAtPosition(ws, p, t)

\* Merging a closed word before a delimiter yields a word with two
\* delimiters at its end, which a token cannot express.
Representable(ws, p, t) == ~(MergesInMiddle(ws, p) /\ t.delim)

----------------------------------------------------------------------------
(* Rebuilding the sentence: a standalone delimiter after a word is         *)
(* attached to it; after a delimiter it stays a token of its own, because  *)
(* the parser cuts there.                                                  *)

Attached(ws, i) == i > 1 /\ Standalone(ws[i]) /\ ~ws[i - 1].delim
Kept(ws)        == {i \in 1..Len(ws) : ~Attached(ws, i)}

Closed(ws, i) ==
  IF i < Len(ws) /\ Attached(ws, i + 1)
    THEN [atoms |-> ws[i].atoms, delim |-> TRUE]
    ELSE ws[i]

Rebuild(ws) ==
  [k \in 1..Cardinality(Kept(ws)) |-> Closed(ws, NthLeast(Kept(ws), k))]

----------------------------------------------------------------------------
(* The target sentence in the latest text.  A session opened on text snap  *)
(* at index k commits into the text latest.                                *)

IsAppend(snap, k) == k = SentenceCount(snap)

Matches(latest, s) ==
  {j \in 0..(SentenceCount(latest) - 1) : Sentence(latest, j) = s}

FirstOf(S) == CHOOSE j \in S : \A i \in S : j <= i

\* After the first sentence that equals the one before the target.
AnchorTarget(snap, k, latest) ==
  LET anchors == Matches(latest, Sentence(snap, k - 1))
  IN  IF anchors = {} \/ FirstOf(anchors) + 1 >= SentenceCount(latest)
        THEN -1
        ELSE FirstOf(anchors) + 1

\* The fallback when the sentence is gone: anchor, then index, then give up.
FallbackTarget(snap, k, latest) ==
  CASE k > 0                          -> AnchorTarget(snap, k, latest)
    [] k = 0 /\ SentenceCount(latest) > 0 -> 0
    [] OTHER                          -> -1

\* Faulty variant: the index is trusted.
RemapByIndex(snap, k, latest) == IF k < SentenceCount(latest) THEN k ELSE -1

RemapTarget(snap, k, latest) ==
  LET same == Matches(latest, Sentence(snap, k))
  IN  CASE k > SentenceCount(latest) -> -1
        [] k <= SentenceCount(latest) /\ k \in same -> k
        [] k <= SentenceCount(latest) /\ k \notin same /\ same # {} -> FirstOf(same)
        [] OTHER -> FallbackTarget(snap, k, latest)

AppendTarget(latest) ==
  IF latest # <<>> /\ ~LastHasDelim(latest) THEN -1 ELSE SentenceCount(latest)

\* -1 stands for the reply "ERROR: File changed; retry write."
CommitTarget(snap, k, latest) ==
  IF IsAppend(snap, k) THEN AppendTarget(latest)
                       ELSE RemapTarget(snap, k, latest)

\* Put new in the place of sentence k, or after the last one.
Splice(c, k, new) ==
  IF k < SentenceCount(c)
    THEN SubSeq(c, 1, SentenceFirst(c, k) - 1) \o new
           \o SubSeq(c, SentenceLast(c, k) + 1, Len(c))
    ELSE c \o new

\* The file a commit writes.
Merge(snap, k, ws, latest) ==
  Splice(latest, CommitTarget(snap, k, latest), Rebuild(ws))
=============================================================================
