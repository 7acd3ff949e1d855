----------------------------- MODULE WordEditor ----------------------------
(***************************************************************************)
(* The interactive part of handle_write_file at the level of characters:   *)
(* the array of words one session owns, the insertions its client sends    *)
(* and the sentence rebuilt and split again at ETIRW.  The other modules   *)
(* use the token operators of Sentences instead; the variable shadow       *)
(* follows the same session through those operators, and the invariants    *)
(* say that the two agree.                                                 *)
(***************************************************************************)
EXTENDS Sentences, SequencesExt

CONSTANTS Targets,   \* sentences a session may start from (token texts)
          Inserts,   \* words a client may send (tokens)
          MaxUpdates,  \* how many words one client sends
          Space, Dot \* the two characters that are not letters

ASSUME CharAssumption == Space # Dot /\ {Space, Dot} \cap Atom = {}

\* strtok yields no empty word and parse_sentences no sentence that goes on
\* after a delimiter.
ASSUME EditorAssumption ==
  /\ \A t \in Inserts : t \in Token /\ (t.atoms = <<>> => t.delim)
  /\ \A c \in Targets :
       /\ c \in Text
       /\ \A i \in DOMAIN c : c[i].atoms = <<>> => c[i].delim
       /\ \A i \in DOMAIN c : c[i].delim => i = Len(c)
  /\ MaxUpdates \in Nat

VARIABLES words,     \* sentence_words[0 .. word_count-1], each a string
          shadow,    \* the same words as tokens
          start,     \* the target sentence
          sent,      \* the words accepted so far, in order of arrival
          built,     \* new_sentence, once ETIRW is received
          phase      \* "editing", "committed" or "aborted"

vars == <<words, shadow, start, sent, built, phase>>

----------------------------------------------------------------------------
(* Strings are sequences of characters.                                    *)

IsDelimiter(ch) == ch = Dot

AsString(t) == t.atoms \o (IF t.delim THEN <<Dot>> ELSE <<>>)

\* Join with single spaces, as the loops with strcat do.
Join(strings) ==
  FoldLeft(LAMBDA acc, s : IF acc = <<>> THEN s ELSE acc \o <<Space>> \o s,
           <<>>, strings)

EndsWithDelimiter(s) == s # <<>> /\ IsDelimiter(s[Len(s)])

\* parse_sentences: state of the scan is the finished sentences and the
\* current one; spaces at the start of a sentence are skipped.
ScanSentence(st, ch) ==
  CASE IsDelimiter(ch) -> [done |-> Append(st.done, Append(st.cur, ch)), cur |-> <<>>]
    [] ch = Space /\ st.cur = <<>> /\ st.done # <<>> -> st
    [] OTHER -> [st EXCEPT !.cur = Append(@, ch)]

ParseSentences(s) ==
  LET end == FoldLeft(ScanSentence, [done |-> <<>>, cur |-> <<>>], s)
  IN  IF end.cur = <<>> THEN end.done ELSE Append(end.done, end.cur)

\* strtok(s, " ")
ScanWord(st, ch) ==
  IF ch = Space
    THEN IF st.cur = <<>> THEN st
         ELSE [done |-> Append(st.done, st.cur), cur |-> <<>>]
    ELSE [st EXCEPT !.cur = Append(@, ch)]

SplitWords(s) ==
  LET end == FoldLeft(ScanWord, [done |-> <<>>, cur |-> <<>>], s)
  IN  IF end.cur = <<>> THEN end.done ELSE Append(end.done, end.cur)

Take(s, n) == SubSeq(s, 1, IF Len(s) < n THEN Len(s) ELSE n)

----------------------------------------------------------------------------
(* The three ways an accepted word enters the array.                       *)

\* Faulty variants: the word after the delimiter, the old word lost.
GlueAfter(prev, w)    == prev \o w
GlueDropping(prev, w) == w \o <<Last(prev)>>

GlueBefore(prev, w) == Front(prev) \o w \o <<Last(prev)>>

\* Faulty variant: the words behind are not shifted.
InsertUnshifted(ws, i, w) == [ws EXCEPT ![i + 1] = w]

InsertInMiddle(ws, i, w) ==      \* word_idx = i < word_count, i from 0
  IF i > 0 /\ EndsWithDelimiter(ws[i])
    THEN [ws EXCEPT ![i] = GlueBefore(ws[i], w)]
    ELSE SubSeq(ws, 1, i) \o <<w>> \o SubSeq(ws, i + 1, Len(ws))

AppendWord(ws, w) ==             \* word_idx = word_count
  LET last == ws[Len(ws)]
  IN  IF /\ ws # <<>>
         /\ Len(last) > 1 /\ EndsWithDelimiter(last)
         /\ ~EndsWithDelimiter(w)
        THEN [ws EXCEPT ![Len(ws)] = GlueBefore(last, w)]
        ELSE Append(ws, w)

InsertString(ws, i, w) ==
  IF i < Len(ws) THEN InsertInMiddle(ws, i, w) ELSE AppendWord(ws, w)

\* new_sentence: a single delimiter is attached without a space.
AttachWord(acc, w) ==
  CASE acc = <<>>                         -> w
    [] acc # <<>> /\ w = <<Dot>>          -> acc \o w
    [] OTHER                              -> acc \o <<Space>> \o w

NewSentence(ws) == FoldLeft(AttachWord, <<>>, ws)

----------------------------------------------------------------------------
Init ==
  /\ start \in Targets
  /\ words = Take(SplitWords(Join([i \in DOMAIN start |-> AsString(start[i])])),
                  MaxWords)
  /\ shadow = TargetWords(start, 0)
  /\ sent = <<>>
  /\ built = <<>>
  /\ phase = "editing"

\* A word with a 1-based position; the wire index is p, word_idx is p - 1.
ReceiveWord(p, t) ==
  /\ phase = "editing"
  /\ Len(sent) < MaxUpdates
  /\ p - 1 <= Len(words)
  /\ Len(words) < MaxWords
  /\ Representable(shadow, p, t)
  /\ words' = InsertString(words, p - 1, AsString(t))
  /\ shadow' = InsertWord(shadow, p, t)
  /\ sent' = Append(sent, t)
  /\ UNCHANGED <<start, built, phase>>

Etirw ==
  /\ phase = "editing"
  /\ built' = NewSentence(words)
  /\ phase' = "committed"
  /\ UNCHANGED <<words, shadow, start, sent>>

Disconnect ==
  /\ phase = "editing"
  /\ phase' = "aborted"
  /\ UNCHANGED <<words, shadow, start, sent, built>>

Next ==
  \/ \E p \in 1..MaxWords, t \in Inserts : ReceiveWord(p, t)
  \/ Etirw
  \/ Disconnect

Spec == Init /\ [][Next]_vars

----------------------------------------------------------------------------
(* Properties *)

TypeOK ==
  /\ start \in Targets
  /\ words \in Seq(Seq(Atom \cup {Space, Dot}))
  /\ shadow \in Text
  /\ sent \in Seq(Inserts)
  /\ built \in Seq(Atom \cup {Space, Dot})
  /\ phase \in {"editing", "committed", "aborted"}

\* The array of strings and the token operators stay in step through every
\* merge, insertion and append (handle_write_file's insertion code).
EditAgrees == words = [i \in DOMAIN shadow |-> AsString(shadow[i])]

\* Rebuilding the sentence and parsing it back into words of sentences gives
\* the tokens of Rebuild, cut where the token operators cut.
RebuildAgrees ==
  phase = "committed" =>
    LET text      == Rebuild(shadow)
        sentences == ParseSentences(built)
    IN  /\ Len(sentences) = SentenceCount(text)
        /\ \A k \in 1..Len(sentences) :
             SplitWords(sentences[k]) =
               [i \in DOMAIN Sentence(text, k - 1) |-> AsString(Sentence(text, k - 1)[i])]

\* Strings and tokens agree while words are inserted and when the sentence is
\* rebuilt and parsed again, so that the token operators stand for the code in
\* every other module.
WordsAgree == EditAgrees /\ RebuildAgrees

Letters(s) ==
  FoldLeft(LAMBDA acc, ch : IF ch \in Atom THEN Append(acc, ch) ELSE acc, <<>>, s)
CountOf(s, ch) == Cardinality({i \in DOMAIN s : s[i] = ch})
TokenString(c) == Join([i \in DOMAIN c |-> AsString(c[i])])

\* A committed sentence has every letter of the words it started from and of
\* every accepted word, once each: no path of the insertion code drops or
\* repeats a word.
LettersConserved ==
  phase = "committed" =>
    \A ch \in Atom :
      CountOf(built, ch) =
        CountOf(TokenString(TargetWords(start, 0)), ch) + CountOf(TokenString(sent), ch)

\* Walk over b, using up a from the front.
IsSubsequence(a, b) ==
  FoldLeft(LAMBDA rest, ch : IF rest # <<>> /\ Head(rest) = ch THEN Tail(rest) ELSE rest,
           a, b) = <<>>

\* An insertion never reorders what was there: the letters before it are a
\* subsequence of the letters after it.
OrderKept ==
  [][IsSubsequence(Letters(Join(words)), Letters(Join(words')))]_vars
=============================================================================
