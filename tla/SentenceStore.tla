--------------------------- MODULE SentenceStore ---------------------------
(***************************************************************************)
(* What collaborative writing promises, without buffers or snapshots: a    *)
(* session locks one sentence index of one file, and while it holds the    *)
(* lock it may put a new text in the place of one sentence of the file as  *)
(* it is at that moment, or behind the last one.  Every other sentence     *)
(* stays where it is.                                                      *)
(***************************************************************************)
EXTENDS Sentences

CONSTANTS Files, Sessions, Indices, Free

VARIABLES text,    \* the text of each file
          holder   \* who holds the lock on <<file, index>>

svars == <<text, holder>>

Init ==
  /\ text \in [Files -> Text]
  /\ holder = [e \in Files \X Indices |-> Free]

\* new is old with sentence j replaced by something.
ReplacesSentence(old, new, j) ==
  LET before == IF j < SentenceCount(old) THEN SentenceFirst(old, j) - 1 ELSE Len(old)
      after  == IF j < SentenceCount(old) THEN Len(old) - SentenceLast(old, j) ELSE 0
  IN  /\ Len(new) >= before + after
      /\ new = Splice(old, j, SubSeq(new, before + 1, Len(new) - after))

Lock(s, f, k) ==
  /\ holder[<<f, k>>] = Free
  /\ holder' = [holder EXCEPT ![<<f, k>>] = s]
  /\ UNCHANGED text

Commit(s, f, k) ==
  /\ holder[<<f, k>>] = s
  /\ \E j \in 0..SentenceCount(text[f]) : ReplacesSentence(text[f], text'[f], j)
  /\ text' = [text EXCEPT ![f] = text'[f]]
  /\ UNCHANGED holder

Unlock(s, f, k) ==
  /\ holder[<<f, k>>] = s
  /\ holder' = [holder EXCEPT ![<<f, k>>] = Free]
  /\ UNCHANGED text

\* The server restarts: every lock is gone, no text is.
Restart ==
  /\ holder' = [e \in Files \X Indices |-> Free]
  /\ UNCHANGED text

Next ==
  \/ \E s \in Sessions, f \in Files, k \in Indices :
       Lock(s, f, k) \/ Commit(s, f, k) \/ Unlock(s, f, k)
  \/ Restart

Spec == Init /\ [][Next]_svars
=============================================================================
