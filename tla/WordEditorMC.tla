---------------------------- MODULE WordEditorMC ----------------------------
(* A small editor: two letters, sentences of at most two words to start    *)
(* from, up to four words in the array.                                    *)
EXTENDS WordEditor

MCAtom == {"a", "b"}

MCTargets ==
  { <<>>, <<Word("a")>>, <<Closing("a")>>, <<Delimiter>>,
    <<Word("a"), Closing("b")>>, <<Word("a"), Word("b")>> }

MCInserts == {Word("a"), Closing("b"), Delimiter}
=============================================================================
