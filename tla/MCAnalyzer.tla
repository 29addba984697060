----------------------------- MODULE MCAnalyzer -----------------------------
(***************************************************************************)
(* Analyzer instantiated for TLC: two letters and a space, "b" a stop word, *)
(* two POS tags, and sentences covering the empty string, a lone BOM, a     *)
(* lone space, two letters and two letters around a space.                 *)
(***************************************************************************)
EXTENDS Analyzer

MCChars == {"a", "b", " "}
MCSpaceChar == " "
MCStopWords == {<<"b">>}
MCPOSTags == {"n", "v"}

\* Path scores of the passing run: positive, so totalScore > 0.
MCScores == {1, 2}
\* Path scores as the spec's tagger gives them: sums of log-probabilities.
MCLogScores == {-1, -2}

MCNBestValues == {0, 1, 2}
MCMaxRuns == 1

Str(cs) == [bom |-> FALSE, chars |-> cs]
BomOnly == [bom |-> TRUE, chars |-> <<>>]

MCSentences ==
    {Str(<<>>), BomOnly, Str(<<" ">>), Str(<<"a", "b">>), Str(<<"a", " ", "b">>)}
\* The sentences without a lone BOM.
MCPlainSentences == MCSentences \ {BomOnly}
MCNewLine == "NL"
\* Input files: a line then an empty line, with a final newline; a BOM, a
\* line with a stop word and a last line without newline; a first line
\* that is only the BOM; an empty file.
MCStreams ==
    {[bom |-> FALSE, chars |-> <<"a", "NL", "NL">>],
     [bom |-> TRUE,  chars |-> <<"a", " ", "b", "NL", "b">>],
     [bom |-> TRUE,  chars |-> <<"NL", "a">>],
     [bom |-> FALSE, chars |-> <<>>]}
\* The input files without the one whose first line is only the BOM.
MCPlainStreams == MCStreams \ {[bom |-> TRUE, chars |-> <<"NL", "a">>]}
MCTextSentences == {Str(<<"a", "b">>), Str(<<"a", " ", "b">>)}
=============================================================================
