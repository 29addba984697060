--------------------------- MODULE MCAnalyzerText ---------------------------
(***************************************************************************)
(* AnalyzerText for TLC, UTF-8.  "x" and "y" stand for Chinese characters  *)
(* (base type other), "1" a digit, "a" a letter, "," punctuation, "." a    *)
(* sentence separator (punctuation), " " a space and BOM the byte-order    *)
(* mark.  The paragraphs are every string of up to three of x, 1, space   *)
(* and ".", and longer ones with a BOM, a letter and runs of Chinese.      *)
(***************************************************************************)
EXTENDS AnalyzerText

MCChars == {"x", "y", "1", "a", ",", ".", " ", "BOM"}
MCBom == "BOM"
MCBaseType ==
    [c \in MCChars |-> CASE c \in {"x", "y", "BOM"} -> "other"
                         [] c = "1" -> "number"
                         [] c = "a" -> "letter"
                         [] c \in {",", "."} -> "punc"
                         [] c = " " -> "space"]
MCSeparators == {"."}
MCParagraphs ==
    SeqOf({"x", "1", " ", "."}, 3) \cup
    {<<"BOM", "x", "y">>, <<"BOM", " ", ".">>, <<"x", "y", "a", "x", "x", "y">>,
     <<"y", " ", "x", ",", "x", " ">>}
MCNValues == {0, 1, 2}
MCNArrays == {<<2, 1>>, <<3>>}
MCMaxCalls == 2
=============================================================================
