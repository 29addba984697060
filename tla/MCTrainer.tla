----------------------------- MODULE MCTrainer -----------------------------
(***************************************************************************)
(* Trainer for TLC.  "a" and "b" are the characters of words, "n" and "v"  *)
(* of POS names, "/" the tag separator.  A material file is given as the   *)
(* lines getline reads from it.  "a" is a common word of the first files   *)
(* (seen twice, rareFreq = 2), "b" and "ab" are rare; "a/b" holds the     *)
(* separator and is common.                                                *)
(***************************************************************************)
EXTENDS Trainer

S == " "

\* "a/n b/v", "ab/n a/v", then a final newline.
Mate1 == << <<"a", "/", "n", S, "b", "/", "v">>,
            <<"a", "b", "/", "n", S, "a", "/", "v">>, <<>> >>
\* "  a/n  ", an all-space line, "a/b/n" (the word "a/b"), no final newline.
Mate2 == << <<S, S, "a", "/", "n", S, S>>, <<S>>, <<"a", "/", "b", "/", "n">> >>
\* "a/n", then "ab" without a tag.
Mate3 == << <<"a", "/", "n">>, <<"a", "b">> >>
\* "a/b/n a/b/v" (the word "a/b" twice), "a/n", then a final newline.
Mate5 == << <<"a", "/", "b", "/", "n", S, "a", "/", "b", "/", "v">>,
            <<"a", "/", "n">>, <<>> >>
\* An empty file.
Mate4 == << <<>> >>

MCMates == {Mate1, Mate2, Mate3, Mate4, Mate5}
MCMatesMissing == MCMates \cup {Missing}
=============================================================================
