------------------------------- MODULE Usage --------------------------------
(***************************************************************************)
(* The client program of the SeggerCMD.h usage notes, step 3: the analyzer *)
(* is configured and given its knowledge, then every line read with        *)
(* getline(cin, line) is cut into Sentences by splitSentence, after        *)
(* sentVec.clear(), and runWithSentence is called on each Sentence in turn.*)
(*                                                                         *)
(* The analyzer is the module Analyzer; splitSentence is the operator of   *)
(* AnalyzerText.  The two represent a string differently: AnalyzerText     *)
(* keeps a leading UTF-8 BOM as the character Bom, Analyzer as the flag    *)
(* bom beside the characters extractCharacter yields.  The encoding is     *)
(* UTF-8.                                                                  *)
(***************************************************************************)
EXTENDS Integers, Sequences

CONSTANTS
    Chars, SpaceChar, StopWords, POSTags, Scores, Knowledges, NoKnowledge,
    NoPOS, NBestValues, NewLine, Streams, MaxRuns,   \* as in Analyzer
    Bom, BaseType, Separators,                       \* as in AnalyzerText
    Lines,        \* the lines getline(cin, line) may return
    MaxLines      \* bound on the lines read

VARIABLES
    nbest, posOpt, atype, knowledge, sentence, strBuf, stream, failed,
    step,         \* where the client is: "options", "loop" or "run"
    sentVec,      \* the strings of the Sentences splitSentence pushed
    i,            \* the index of the next Sentence of sentVec
    read          \* the number of lines read

analyzerVars == <<nbest, posOpt, atype, knowledge, sentence, strBuf, stream, failed>>
vars == <<analyzerVars, step, sentVec, i, read>>

\* A Sentence's string as extractCharacter sees it: a leading BOM is
\* skipped.  The strings a client passes directly are the ones the lines
\* split into, so Analyzer's own set of sentences is not used.
ToSentence(s) ==
    IF s # <<>> /\ Head(s) = Bom THEN [bom |-> TRUE, chars |-> Tail(s)]
    ELSE [bom |-> FALSE, chars |-> s]

A == INSTANCE Analyzer WITH Sentences <- {}

T == INSTANCE AnalyzerText
        WITH UTF8 <- TRUE, Paragraphs <- Lines, NValues <- {}, NArrays <- {},
             MaxCalls <- 0, paraLog <- <<>>, grams <- <<>>, gramLog <- <<>>

-----------------------------------------------------------------------------
(* The usage notes *)

\* factory->createAnalyzer(), createKnowledge(): a new analyzer.
Init ==
    /\ A!Init
    /\ step = "options"
    /\ sentVec = <<>>
    /\ i = 1
    /\ read = 0

\* (optional) setOption(OPTION_TYPE_POS_TAGGING, 0).
PosOff ==
    /\ step = "options"
    /\ A!SetPOSTagging(FALSE)
    /\ UNCHANGED <<step, sentVec, i, read>>

\* (optional) setOption(OPTION_TYPE_NBEST, v).
NBest(v) ==
    /\ step = "options"
    /\ A!SetNBest(v)
    /\ UNCHANGED <<step, sentVec, i, read>>

\* setKnowledge(knowledge), the knowledge loaded as the notes say.
Attach(k) ==
    /\ step = "options"
    /\ A!SetKnowledge(k)
    /\ step' = "loop"
    /\ UNCHANGED <<sentVec, i, read>>

\* while(getline(cin, line)): once every Sentence of the last line has been
\* analysed, sentVec.clear(); splitSentence(line.c_str(), sentVec).
NextLine(line) ==
    /\ step = "loop"
    /\ ~failed
    /\ i > Len(sentVec)
    /\ read < MaxLines
    /\ sentVec' = T!SplitSentence(line)
    /\ i' = 1
    /\ read' = read + 1
    /\ UNCHANGED <<analyzerVars, step>>

\* runWithSentence(sentVec[i]): the Sentence splitSentence built, with its
\* string set and no candidates, is analysed.
TakeSentence ==
    /\ step = "loop"
    /\ i <= Len(sentVec)
    /\ A!SetString(ToSentence(sentVec[i]))
    /\ step' = "run"
    /\ UNCHANGED <<sentVec, i, read>>

RunSentence ==
    /\ step = "run"
    /\ A!RunWithSentence
    /\ step' = "loop"
    /\ i' = i + 1
    /\ UNCHANGED <<sentVec, read>>

Next ==
    \/ PosOff
    \/ \E v \in NBestValues : NBest(v)
    \/ \E k \in Knowledges : Attach(k)
    \/ \E line \in Lines : NextLine(line)
    \/ TakeSentence
    \/ RunSentence

Spec == Init /\ [][Next]_vars

-----------------------------------------------------------------------------
(* Properties *)

\* spec.md 7, for the loop the usage notes recommend: analysing the
\* Sentences splitSentence makes of any input line never reaches undefined
\* behaviour (an out-of-range segment[0] or a null tagger).
SentenceLoopNeverFails == ~failed

=============================================================================
