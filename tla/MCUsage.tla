------------------------------ MODULE MCUsage -------------------------------
(***************************************************************************)
(* Usage for TLC: "x" and "y" stand for Chinese characters, "." is the     *)
(* sentence separator, " " a space, BOM the byte-order mark.  The lines are *)
(* ordinary text, text with a space and a separator, and the first line of *)
(* a UTF-8 file saved with a BOM: the BOM followed by a space, or alone.   *)
(***************************************************************************)
EXTENDS Usage

MCChars == {"x", "y", ".", " ", "BOM"}
MCBaseType ==
    [c \in MCChars |-> CASE c = "." -> "punc"
                         [] c = " " -> "space"
                         [] OTHER  -> "other"]
MCLines ==
    {<<"x", "y">>, <<"x", " ", "y", ".">>, <<"BOM", " ", "x">>, <<"BOM">>}
MCStopWords == {<<"y">>}
MCPOSTags == {"n"}
MCScores == {1, 2}
MCNBestValues == {1, 2}
=============================================================================
