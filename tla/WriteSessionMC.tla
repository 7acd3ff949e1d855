--------------------------- MODULE WriteSessionMC ---------------------------
(* Values for the constants of WriteSession: one file of two short          *)
(* sentences, clients that ask for the first three indices.                *)
EXTENDS WriteSession, TLC

MCAtom == {"a", "b", "n"}

TwoSentences == <<Closing("a"), Closing("b")>>
\* With MaxWords = 2 a session cuts its last word.
LongSentence == <<Word("a"), Word("b"), Closing("a")>>

MCInitialTexts == {TwoSentences}
MCCollabTexts  == {TwoSentences, LongSentence}
MCMaybeAbsent  == {TwoSentences, Absent}
MCReplicaTexts == {<<Closing("b")>>}
MCInserts      == {Word("n"), Closing("n")}

SessionSymmetry == Permutations(Sessions)
=============================================================================
